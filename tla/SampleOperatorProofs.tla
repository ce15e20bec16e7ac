------------------------- MODULE SampleOperatorProofs -------------------------
(***************************************************************************)
(* Proofs about SampleOperator, for any input directories, order of the    *)
(* controllers and deadlines: its runs are runs of OperatorRun, so that    *)
(* all that OperatorRunProofs proves of an arbitrary operator holds of the *)
(* sample, its controllers run on inputs that could be read, what they     *)
(* write is declared, and each decides from the must-gather alone.         *)
(***************************************************************************)
EXTENDS SampleOperator, OperatorRunProofs, RequiredResourcesProofs

\* What the informers list in a directory.
Everywhere(dir) == UNION {ObjectsListed(dir, i) : i \in 1..NumInformers}

SampleTypes ==
    /\ given \in Inputs /\ directory = DirectoryOf(given)
    /\ given.pruned => /\ ~ReadRequired(Content[given.source], Needed).failed
                       /\ OneVersion(ReadRequired(Content[given.source], Needed).instances)
    /\ ending \in {"ok", "error"}
    /\ inFlight = {}

\* A factory has its caches filled only if it could list.
FilledByLists == \A i \in synced : Listed(i)

\* Until Demo counts in them the caches hold what was listed.
Fresh == Demo \in Names /\ ~Ran(Demo) => cache \subseteq Everywhere(directory)

Declared(w) == \E type \in DOMAIN SampleOutputResources : Declares(SampleOutputResources[type], w)

\* A controller has at most one write to make, which is declared.
AtMostOne(writes) ==
    \/ writes = <<>>
    \/ \E e : writes = <<e>> /\ e.write \in Write /\ Declared(e.write)
Planned == AtMostOne(pending) /\ (pending # <<>> => running # NoController)

SampleInv == RunInv /\ SampleTypes /\ FilledByLists /\ Fresh /\ Planned /\ OutputsAreDeclared

-----------------------------------------------------------------------------
(* The invariant for what the controllers decide.                          *)

\* What there is to know from the input.
Input == Everywhere(directory)

HasRun(n) == n \in Names /\ Ran(n)

\* The caches hold what was listed; Demo, which comes once, counts in them.
CachesHold ==
    /\ stage # "informers" => synced = 1..NumInformers
    /\ cache = IF HasRun(Demo) THEN CacheAfter(Demo, Input)
                               ELSE UNION {ObjectsListed(directory, i) : i \in synced}

\* Exactly the enabled ones of those the loop has come to have run.
RanInLoop ==
    /\ \A n \in Names : Ran(n) => n \in ToSet(registered) /\ IsEnabled(n)
    /\ \A i \in 1..(next - 1) : IsEnabled(registered[i]) => outcome[registered[i]] # "none"

\* A controller does what it decides from the input, before another has run
\* and after, unless the deadline is over before its write.
DoesAsDecided ==
    /\ \A n \in late : HasRun(n)
    /\ running # NoController =>
          IF running \in late THEN pending = <<>> /\ ending = "error"
          ELSE /\ pending \in {<<>>, SyncOf(running, Input).writes}
               /\ ending = SyncOf(running, Input).how
    /\ \A n \in Names : outcome[n] # "none" =>
          outcome[n] = IF n \in late THEN "error" ELSE SyncOf(n, Input).how

\* The controllers whose write, if they have one, is in the log.
Settled == {n \in Names : Ran(n) /\ n \notin late /\ (n = running => pending = <<>>)}

\* The log has their writes, each once, and nothing else.
LogHasTheirs ==
    /\ ToSet(mutations) = UNION {ToSet(SyncOf(n, Input).writes) : n \in Settled}
    /\ \A i, j \in DOMAIN mutations : mutations[i] = mutations[j] => i = j
    /\ Returned => output = mutations

DecisionInv == CachesHold /\ RanInLoop /\ DoesAsDecided /\ LogHasTheirs

-----------------------------------------------------------------------------
(* Lemmas.                                                                 *)

\* The names of the controllers are numbers that differ.
Numbers == {Demo, FailureGenerator, IngressCreator, RemoveStaleConditions, ResourceSync}

\* The controllers are those of the sample.
LEMMA NamesAreTheSamples == Names \subseteq Numbers
<1>1. \A r \in Registrations : ToSet(r) \subseteq Numbers
  BY SampleAssumption DEF Numbers, ToSet
<1>2. QED
  BY <1>1 DEF Names

\* Each of the writes is declared, and one that may be made.
LEMMA WritesAreDeclared ==
    /\ Declared(WriteOf("Create", "events", ExampleOperator, Example, <<>>))
    /\ Declared(WriteOf("Create", "ingresses", None, Cluster, <<>>))
    /\ \A action : Declared(WriteOf(action, "authentications.operator", None, Cluster, <<>>))
    /\ \A action, data : Declared(WriteOf(action, "configmaps", Authentication, Foo, data))
<1>1. /\ DOMAIN SampleOutputResources = {"configuration", "management", "userWorkload"}
      /\ SampleOutputResources["management"].eventing = {ExampleOperator}
      /\ SampleOutputResources["configuration"].exact = <<ConfigResource("ingresses")>>
      /\ SampleOutputResources["management"].exact = <<ConfigResource("authentications.operator")>>
      /\ SampleOutputResources["userWorkload"].exact =
             <<Id("oauthclients", None, BrowserClient), Id("configmaps", Authentication, Foo)>>
  BY DEF SampleOutputResources, Nothing
<1>2. \A a, b : a \in ToSet(<<a>>) /\ b \in ToSet(<<a, b>>)
  BY DEF ToSet
<1>3. Declared(WriteOf("Create", "events", ExampleOperator, Example, <<>>))
  BY <1>1 DEF Declared, Declares, WriteOf
<1>4. Declared(WriteOf("Create", "ingresses", None, Cluster, <<>>))
  BY <1>1, <1>2 DEF Declared, Declares, WriteOf, ConfigResource
<1>5. \A action : Declared(WriteOf(action, "authentications.operator", None, Cluster, <<>>))
  BY <1>1, <1>2 DEF Declared, Declares, WriteOf, ConfigResource
<1>6. \A action, data : Declared(WriteOf(action, "configmaps", Authentication, Foo, data))
  BY <1>1, <1>2 DEF Declared, Declares, WriteOf
<1>7. QED
  BY <1>3, <1>4, <1>5, <1>6

\* A sync function plans at most one write, whatever it knows; Demo's count
\* is one that may be written if it knows what was listed.
LEMMA SyncPlans ==
    ASSUME NEW c \in Numbers, NEW known, NEW input \in Inputs,
           c = Demo => known \subseteq Everywhere(DirectoryOf(input))
    PROVE  AtMostOne(SyncOf(c, known).writes) /\ SyncOf(c, known).how \in {"ok", "error"}
<1> DEFINE Plans(does) == AtMostOne(does.writes) /\ does.how \in {"ok", "error"}
<1>1. \A how \in {"ok", "error"} : Plans(Does(<<>>, how))
  BY DEF Does, AtMostOne
<1>2. ASSUME NEW controller, NEW action, NEW type, NEW ns, NEW name, NEW data, NEW how \in {"ok", "error"},
             WriteOf(action, type, ns, name, data) \in Write, Declared(WriteOf(action, type, ns, name, data))
      PROVE  Plans(Does(Write1(controller, action, type, ns, name, data), how))
  <2> DEFINE w == WriteOf(action, type, ns, name, data)
             e == [controller |-> controller, write |-> w]
  <2>1. e.write \in Write /\ Declared(e.write)
    BY <1>2
  <2>2. Write1(controller, action, type, ns, name, data) = <<e>>
    BY DEF Write1
  <2> HIDE DEF e
  <2>3. QED
    BY <2>1, <2>2 DEF Does, AtMostOne
<1> HIDE DEF Plans
<1>3. Plans(SyncFailureGenerator(known))
  BY <1>2, WritesAreDeclared, SampleAssumption DEF SyncFailureGenerator
<1>4. Plans(SyncIngressCreator)
  BY <1>2, WritesAreDeclared, SampleAssumption DEF SyncIngressCreator
<1>5. Plans(SyncRemoveStaleConditions(known))
  BY <1>1, <1>2, WritesAreDeclared, SampleAssumption DEF SyncRemoveStaleConditions
<1>6. Plans(SyncResourceSync(known))
  BY <1>1, <1>2, WritesAreDeclared, SampleAssumption DEF SyncResourceSync
<1>7. ASSUME c = Demo PROVE Plans(SyncDemo(known))
  <2> DEFINE foo == FooMap(known)
             old == (CHOOSE o \in foo : TRUE).data.counter
  <2>1. CASE foo = {}
    BY <1>2, <2>1, WritesAreDeclared, SampleAssumption DEF SyncDemo
  <2>2. CASE foo # {} /\ old = NotANumber
    BY <1>1, <2>2 DEF SyncDemo
  <2>3. CASE foo # {} /\ old # NotANumber
    <3> DEFINE o == CHOOSE x \in foo : TRUE
    <3>1. o \in foo
      BY <2>3
    <3> HIDE DEF o
    <3>2. PICK i \in 1..NumInformers : o \in ObjectsListed(DirectoryOf(input), i)
      BY <1>7, <3>1 DEF FooMap, Known, Everywhere
    <3>3. o \in FooMap(ObjectsListed(DirectoryOf(input), i)) /\ i \in DOMAIN InformerLists
      BY <3>1, <3>2, SampleAssumption DEF FooMap, Known, InformerLists
    <3>4. o.data.counter # NotANumber
      BY <2>3 DEF o
    <3>5. WriteOf("Update", "configmaps", Authentication, Foo, [counter |-> o.data.counter + 1]) \in Write
      BY <3>3, <3>4, SampleAssumption
    <3>6. Plans(Does(Write1(Demo, "Update", "configmaps", Authentication, Foo, [counter |-> o.data.counter + 1]), "ok"))
      BY <1>2, <3>5, WritesAreDeclared
    <3>7. SyncDemo(known) =
              Does(Write1(Demo, "Update", "configmaps", Authentication, Foo, [counter |-> o.data.counter + 1]), "ok")
      BY <2>3 DEF SyncDemo, o
    <3>8. QED
      BY <3>6, <3>7
  <2>4. QED
    BY <2>1, <2>2, <2>3
<1>8. Plans(SyncOf(c, known))
  BY <1>3, <1>4, <1>5, <1>6, <1>7 DEF SyncOf
<1>9. QED
  BY <1>8 DEF Plans

-----------------------------------------------------------------------------
(* The invariant.                                                          *)

\* The invariant holds at the start.
LEMMA SampleInvInit == SampleInit => SampleInv
<1> SUFFICES ASSUME SampleInit PROVE SampleInv
  OBVIOUS
<1>1. RunInv
  BY RunInvInit DEF SampleInit
<1>2. SampleTypes /\ FilledByLists /\ Fresh /\ Planned
  BY DEF SampleInit, Init, SampleTypes, FilledByLists, Fresh, Planned, AtMostOne
<1>3. OutputsAreDeclared
  BY DEF SampleInit, Init, OutputsAreDeclared
<1>4. QED
  BY <1>1, <1>2, <1>3 DEF SampleInv

\* Nothing but a step of the informers, of Demo and of a write changes what
\* the invariant says of lists, caches and mutations.
LEMMA SampleKept ==
    ASSUME SampleInv, UNCHANGED <<given, directory, cache, synced, inFlight, mutations, running, outcome>>
    PROVE  FilledByLists' /\ Fresh' /\ OutputsAreDeclared'
BY DEF SampleInv, FilledByLists, Listed, Fresh, Everywhere, ObjectsListed, Ran, OutputsAreDeclared

\* Creating the operator is no step of OperatorRun.
LEMMA SetupRefines ==
    ASSUME SampleInv, CreateOperatorStarter
    PROVE  UNCHANGED vars /\ (RunInv' => SampleInv')
<1>1. UNCHANGED <<vars, given, directory, cache, pending, ending, late>>
  BY DEF CreateOperatorStarter
<1>2. SampleTypes' /\ Planned'
  BY <1>1 DEF SampleInv, SampleTypes, Planned, AtMostOne, vars, writeVars, loopVars
<1>3. QED
  BY <1>1, <1>2, SampleKept DEF SampleInv, vars, informerVars, loopVars, writeVars

\* A cache that is filled is filled there.
LEMMA InformerRefines ==
    ASSUME SampleInv, NEW i \in 1..NumInformers, InformerSyncs(i)
    PROVE  Next /\ (RunInv' => SampleInv')
<1>1. /\ CacheSyncs(i) /\ Listed(i)
      /\ cache' = cache \cup ObjectsListed(directory, i)
      /\ UNCHANGED <<given, directory, setup, pending, ending, late>>
  BY DEF InformerSyncs
<1>2. Next
  BY <1>1 DEF Next
<1>3. /\ synced' = synced \cup {i}
      /\ UNCHANGED <<loopVars, writeVars>>
  BY <1>1 DEF CacheSyncs
<1>4. SampleTypes' /\ Planned' /\ OutputsAreDeclared'
  BY <1>1, <1>3 DEF SampleInv, SampleTypes, Planned, AtMostOne, OutputsAreDeclared, writeVars, loopVars
<1>5. FilledByLists'
  BY <1>1, <1>3 DEF SampleInv, FilledByLists, Listed
<1>6. Fresh'
  BY <1>1, <1>3 DEF SampleInv, Fresh, Everywhere, ObjectsListed, Ran, loopVars
<1>7. QED
  BY <1>2, <1>4, <1>5, <1>6 DEF SampleInv

\* What RunOnce does is done there.
LEMMA RunOnceRefines ==
    ASSUME SampleInv, RunOnceStep
    PROVE  Next /\ (RunInv' => SampleInv')
<1>1. /\ StartInformer \/ WaitForCacheSync \/ Reject \/ StartLoop \/ SkipController \/ ReturnResults
      /\ UNCHANGED sampleVars
  BY DEF RunOnceStep
<1>2. Next
  BY <1>1 DEF Next, Loop
<1>3. UNCHANGED <<synced, running, outcome, writeVars>>
  BY <1>1 DEF StartInformer, WaitForCacheSync, Reject, StartLoop, SkipController, ReturnResults,
              informerVars, loopVars
<1>4. SampleTypes' /\ Planned'
  BY <1>1, <1>3 DEF SampleInv, SampleTypes, Planned, AtMostOne, sampleVars, writeVars
<1>5. QED
  BY <1>1, <1>2, <1>3, <1>4, SampleKept DEF SampleInv, sampleVars, writeVars

\* So is a deadline that passes.
LEMMA DeadlineRefines ==
    ASSUME SampleInv, DeadlinePasses
    PROVE  Next /\ (RunInv' => SampleInv')
<1>1. Deadline /\ UNCHANGED sampleVars
  BY DEF DeadlinePasses
<1>2. Next
  BY <1>1 DEF Next
<1>3. UNCHANGED <<synced, running, outcome, writeVars>>
  BY <1>1 DEF Deadline, informerVars
<1>4. SampleTypes' /\ Planned'
  BY <1>1, <1>3 DEF SampleInv, SampleTypes, Planned, AtMostOne, sampleVars, writeVars
<1>5. QED
  BY <1>1, <1>2, <1>3, <1>4, SampleKept DEF SampleInv, sampleVars, writeVars

\* A controller begins: what it plans is what its sync function does, and if
\* it is Demo, it is the first time.
LEMMA BeginRefines ==
    ASSUME SampleInv, BeginSync
    PROVE  Next /\ (RunInv' => SampleInv')
<1> DEFINE c == registered[next]
<1>1. /\ BeginController
      /\ pending' = SyncOf(running', cache).writes /\ ending' = SyncOf(running', cache).how
      /\ cache' = CacheAfter(running', cache)
      /\ UNCHANGED <<given, directory, setup, late>>
  BY DEF BeginSync
<1>2. Next
  BY <1>1 DEF Next, Loop
<1>3. /\ running' = c /\ running = NoController /\ next <= Len(registered)
      /\ UNCHANGED <<synced, outcome, writeVars>>
  BY <1>1 DEF BeginController, InLoop, informerVars
<1>4. c \in Names /\ outcome[c] = "none"
  <2>1. next \in 1..Len(registered)
    BY <1>3 DEF SampleInv, RunInv, LoopTypeOK
  <2>2. QED
    BY <2>1 DEF SampleInv, RunInv, LoopTypeOK, Reporting
<1>5. c \in Numbers /\ c # NoController
  BY <1>4, NamesAreTheSamples, NamesAreNames
<1>6. ASSUME c = Demo PROVE cache \subseteq Everywhere(DirectoryOf(given))
  <2>1. Demo \in Names /\ ~Ran(Demo)
    BY <1>3, <1>4, <1>5, <1>6 DEF Ran
  <2>2. QED
    BY <2>1 DEF SampleInv, Fresh, SampleTypes
<1>7. AtMostOne(pending') /\ ending' \in {"ok", "error"}
  BY <1>1, <1>3, <1>5, <1>6, SyncPlans DEF SampleInv, SampleTypes
<1>8. SampleTypes' /\ Planned'
  BY <1>1, <1>3, <1>5, <1>7 DEF SampleInv, SampleTypes, Planned, AtMostOne, writeVars
<1>9. Fresh'
  <2>1. CASE c = Demo
    BY <1>3, <2>1 DEF Fresh, Ran
  <2>2. CASE c # Demo
    <3>1. cache' = cache
      BY <1>1, <1>3, <2>2 DEF CacheAfter
    <3>2. Ran(Demo) => Ran(Demo)'
      BY <1>3 DEF Ran, Demo, NoController
    <3>3. QED
      BY <1>1, <3>1, <3>2 DEF SampleInv, Fresh, Everywhere, ObjectsListed
  <2>3. QED
    BY <2>1, <2>2
<1>10. FilledByLists' /\ OutputsAreDeclared'
  BY <1>1, <1>3 DEF SampleInv, FilledByLists, Listed, OutputsAreDeclared, writeVars
<1>11. QED
  BY <1>2, <1>8, <1>9, <1>10 DEF SampleInv

\* A write reaches the log as it was planned.
LEMMA WriteRefines ==
    ASSUME SampleInv, Writes
    PROVE  Next /\ (RunInv' => SampleInv')
<1>1. PICK e : pending = <<e>> /\ e.write \in Write /\ Declared(e.write)
  BY DEF SampleInv, Planned, AtMostOne, Writes
<1>2. /\ SyncWrite(e.controller, e.write) /\ pending' = <<>>
      /\ UNCHANGED <<given, directory, setup, cache, ending, late>>
  BY <1>1 DEF Writes
<1>3. /\ mutations' = Append(mutations, [controller |-> e.controller, write |-> e.write])
      /\ UNCHANGED <<informerVars, loopVars, inFlight>> /\ running # NoController
      /\ e.controller \in LiveContexts
  BY <1>2 DEF SyncWrite
<1>4. e.controller \in Names \cup {NoController}
  BY <1>3 DEF LiveContexts, SampleInv, RunInv, LoopTypeOK
<1>5. Next
  BY <1>1, <1>2, <1>4 DEF Next, Controller
<1>6. SampleTypes' /\ Planned' /\ FilledByLists'
  BY <1>2, <1>3 DEF SampleInv, SampleTypes, Planned, AtMostOne, FilledByLists, Listed, informerVars
<1>7. Fresh'
  BY <1>2, <1>3 DEF SampleInv, Fresh, Everywhere, ObjectsListed, Ran, loopVars
<1>8. OutputsAreDeclared'
  <2>1. mutations \in Seq(Entry)
    BY DEF SampleInv, RunInv, LoopTypeOK
  <2> DEFINE entry == [controller |-> e.controller, write |-> e.write]
  <2>2. Declared(entry.write)
    BY <1>1
  <2> HIDE DEF entry
  <2>3. mutations' = Append(mutations, entry)
    BY <1>3 DEF entry
  <2>4. ASSUME NEW i \in DOMAIN mutations' PROVE Declared(mutations'[i].write)
    <3>1. CASE i \in DOMAIN mutations
      BY <2>1, <2>3, <3>1 DEF SampleInv, OutputsAreDeclared, Declared
    <3>2. CASE i \notin DOMAIN mutations
      BY <2>1, <2>2, <2>3, <2>4, <3>2
    <3>3. QED
      BY <3>1, <3>2
  <2>5. QED
    BY <2>4 DEF OutputsAreDeclared, Declared
<1>9. QED
  BY <1>5, <1>6, <1>7, <1>8 DEF SampleInv

\* A write that is refused is no step there.
LEMMA RefusedRefines ==
    ASSUME SampleInv, WriteRefused
    PROVE  UNCHANGED vars /\ (RunInv' => SampleInv')
<1>1. UNCHANGED <<vars, given, directory, cache>> /\ pending' = <<>> /\ ending' = "error"
  BY DEF WriteRefused
<1>2. SampleTypes' /\ Planned'
  BY <1>1 DEF SampleInv, SampleTypes, Planned, AtMostOne, vars, writeVars
<1>3. QED
  BY <1>1, <1>2, SampleKept DEF SampleInv, vars, informerVars, loopVars, writeVars

\* The controller ends with nothing left to write; if it was Demo, it has run.
LEMMA EndRefines ==
    ASSUME SampleInv, SyncEnds
    PROVE  Next /\ (RunInv' => SampleInv')
<1>1. /\ pending = <<>> /\ ControllerEnds(ending) /\ UNCHANGED sampleVars
      /\ ending \in {"ok", "error"}
  BY DEF SyncEnds, SampleInv, SampleTypes
<1>2. Next
  BY <1>1 DEF Next, Controller
<1>3. /\ outcome' = [outcome EXCEPT ![running] = ending]
      /\ UNCHANGED <<informerVars, writeVars>>
  BY <1>1 DEF ControllerEnds
<1>4. SampleTypes' /\ Planned' /\ FilledByLists' /\ OutputsAreDeclared'
  BY <1>1, <1>3 DEF SampleInv, SampleTypes, Planned, AtMostOne, FilledByLists, Listed, OutputsAreDeclared,
                    sampleVars, informerVars, writeVars
<1>5. Fresh'
  <2>1. ASSUME Demo \in Names, ~Ran(Demo)' PROVE ~Ran(Demo)
    <3>1. outcome \in [Names -> {"none", "ok", "error", "panic"}]
      BY DEF SampleInv, RunInv, LoopTypeOK
    <3>2. outcome'[Demo] = "none"
      BY <2>1 DEF Ran
    <3>3. running # Demo
      BY <1>1, <1>3, <2>1, <3>1, <3>2
    <3>4. outcome[Demo] = "none"
      BY <1>3, <2>1, <3>1, <3>2, <3>3
    <3>5. QED
      BY <3>3, <3>4 DEF Ran
  <2>2. QED
    BY <1>1, <2>1 DEF SampleInv, Fresh, Everywhere, ObjectsListed, sampleVars
<1>6. QED
  BY <1>2, <1>4, <1>5 DEF SampleInv

\* Nor is a step that changes nothing.
LEMMA StayingRefines ==
    ASSUME SampleInv, UNCHANGED allVars
    PROVE  UNCHANGED vars /\ (RunInv' => SampleInv')
<1>1. UNCHANGED <<vars, sampleVars>>
  BY DEF allVars
<1>2. SampleTypes' /\ Planned'
  BY <1>1 DEF SampleInv, SampleTypes, Planned, AtMostOne, vars, writeVars, loopVars, sampleVars
<1>3. QED
  BY <1>1, <1>2, SampleKept DEF SampleInv, vars, informerVars, loopVars, writeVars, sampleVars

\* What OperatorRunProofs shows of every step there.
LEMMA RunInvStep == RunInv /\ [Next]_vars => RunInv'
BY TypesStep, StagesStep, EnabledStep, AcknowledgedStep, ReportingStep DEF RunInv

\* Every step of the sample is one of an arbitrary operator, or none.
LEMMA SampleStep == SampleInv /\ [SampleNext]_allVars => [Next]_vars /\ SampleInv'
<1> SUFFICES ASSUME SampleInv, [SampleNext]_allVars PROVE [Next]_vars /\ SampleInv'
  OBVIOUS
<1>1. [Next]_vars /\ (RunInv' => SampleInv')
  <2>1. CASE UNCHANGED allVars
    BY <2>1, StayingRefines
  <2>2. CASE CreateOperatorStarter
    BY <2>2, SetupRefines
  <2>3. CASE RunOnceStep
    BY <2>3, RunOnceRefines
  <2>4. CASE BeginSync
    BY <2>4, BeginRefines
  <2>5. CASE Writes
    BY <2>5, WriteRefines
  <2>6. CASE WriteRefused
    BY <2>6, RefusedRefines
  <2>7. CASE SyncEnds
    BY <2>7, EndRefines
  <2>8. CASE DeadlinePasses
    BY <2>8, DeadlineRefines
  <2>9. CASE \E i \in 1..NumInformers : InformerSyncs(i)
    BY <2>9, InformerRefines
  <2>10. CASE SampleFinished \/ \E i \in 1..NumInformers : ListFails(i)
    BY <2>1, <2>10 DEF SampleFinished, ListFails
  <2>11. QED
    BY <2>1, <2>2, <2>3, <2>4, <2>5, <2>6, <2>7, <2>8, <2>9, <2>10 DEF SampleNext, Step
<1>2. RunInv'
  BY <1>1, RunInvStep DEF SampleInv
<1>3. QED
  BY <1>1, <1>2

-----------------------------------------------------------------------------
(* What follows.                                                           *)

\* The invariant holds of every run of the sample.
THEOREM SampleInvariant == SampleSpec => []SampleInv
<1>1. QED
  BY SampleInvInit, SampleStep, PTL DEF SampleSpec

\* The sample is an operator as OperatorRun has them, with writes of its own:
\* what SimpleOperatorStarter.RunOnce does with any operator it does with it.
THEOREM SampleImplements == SampleSpec => ImplementsOperatorRun
<1>1. SampleInit => Init
  BY DEF SampleInit
<1>2. SampleInv /\ [SampleNext]_allVars => [Next]_vars
  BY SampleStep
<1>3. QED
  BY <1>1, <1>2, SampleInvariant, PTL DEF SampleSpec, ImplementsOperatorRun

\* So the report of the sample is complete and true, and nothing that one of
\* its controllers saw written is missing from the output.
THEOREM SampleReports ==
    SampleSpec => [](ReportIsComplete /\ ReportTellsOutcome /\ SyncWritesAreReturned)
<1>1. SampleSpec => Spec
  BY SampleImplements DEF ImplementsOperatorRun, Spec
<1>2. QED
  BY <1>1, ReportComplete, ReportTruthful, WritesReturned, PTL

\* OutputsAreDeclared: SampleRunOutputResources names whatever the sync
\* functions may write.
THEOREM OutputsDeclared == SampleSpec => []OutputsAreDeclared
<1>1. SampleInv => OutputsAreDeclared
  BY DEF SampleInv
<1>2. QED
  BY <1>1, SampleInvariant, PTL

\* A list that succeeds has read the list file of its type where it looks.
LEMMA ListedIsReadable ==
    ASSUME NEW dir, IsDirectory(dir), NEW s, s.type # Namespaces, List(dir, s).status = "ok",
           ListFile(s.ns, s.type) \in DOMAIN dir
    PROVE  dir[ListFile(s.ns, s.type)] # Broken
<1> DEFINE all == NamespacesWithData(dir)
           inOrder == InOrder(all)
           places == Places(dir, s.ns)
           sought == [i \in DOMAIN places |-> ListFile(places[i], s.type)]
           files == ListFiles(dir, s)
           lists == Contents(dir, files)
           file == ListFile(s.ns, s.type)
<1>1. Cardinality(all) \in Nat
  <2> DEFINE N == {p.ns : p \in DOMAIN dir}
             ns == [p \in DOMAIN dir |-> p.ns]
  <2>1. ns \in Surjection(DOMAIN dir, N) /\ IsFiniteSet(DOMAIN dir)
    BY DEF Surjection, IsDirectory
  <2>2. all \subseteq N
    BY DEF NamespacesWithData
  <2> HIDE DEF N, ns, all
  <2>3. IsFiniteSet(N)
    BY <2>1, FS_Surjection
  <2>4. QED
    BY <2>2, <2>3, FS_Subset, FS_CardinalityType
<1>2. inOrder = [i \in 1..Cardinality(all) |-> inOrder[i]]
  <2> DEFINE place(i) == CHOOSE n \in all : Cardinality({m \in all : m < n}) = i - 1
  <2>1. inOrder = [i \in 1..Cardinality(all) |-> place(i)]
    BY DEF InOrder
  <2> HIDE DEF place, inOrder, all
  <2>2. QED
    BY <2>1
<1>3. \E S : places \in Seq(S) /\ s.ns \in ToSet(places)
  <2> DEFINE S == {None} \cup {inOrder[i] : i \in 1..Cardinality(all)}
  <2>1. \A n : <<n>> \in Seq({n}) /\ n \in ToSet(<<n>>)
    BY DEF ToSet
  <2>2. CASE s.ns # None
    BY <2>1, <2>2 DEF Places
  <2>3. CASE s.ns = None
    <3>1. places = <<None>> \o inOrder
      BY <2>3 DEF Places
    <3>2. \A i \in 1..Cardinality(all) : inOrder[i] \in S
      OBVIOUS
    <3>3. None \in S
      OBVIOUS
    <3> HIDE DEF S, inOrder, all
    <3>4. inOrder \in Seq(S) /\ <<None>> \in Seq(S)
      BY <1>1, <1>2, <3>2, <3>3
    <3>5. places \in Seq(S) /\ ToSet(places) = ToSet(<<None>>) \cup ToSet(inOrder)
      <4> DEFINE first == <<None>>
      <4>1. first \in Seq(S) /\ places = first \o inOrder
        BY <3>1, <3>4
      <4> HIDE DEF first, places
      <4>2. places \in Seq(S) /\ ToSet(places) = ToSet(first) \cup ToSet(inOrder)
        BY <3>4, <4>1, ConcatHolds
      <4>3. QED
        BY <4>2 DEF first
    <3>6. QED
      BY <2>1, <2>3, <3>5
  <2>4. QED
    BY <2>2, <2>3
<1>4. PICK S : places \in Seq(S) /\ s.ns \in ToSet(places)
  BY <1>3
<1>5. sought \in Seq({ListFile(n, s.type) : n \in S}) /\ file \in ToSet(sought)
  <2> HIDE DEF places
  <2>1. \A i \in 1..Len(places) : places[i] \in S
    BY <1>4
  <2>2. QED
    BY <1>4, <2>1 DEF ToSet
<1>6. files = Those(sought, DOMAIN dir)
  BY DEF ListFiles
<1>7. file \in ToSet(files)
  <2> HIDE DEF sought, file, files
  <2>1. ToSet(Those(sought, DOMAIN dir)) = ToSet(sought) \cap DOMAIN dir
    BY <1>5, SelectionHolds DEF Those
  <2>2. QED
    BY <1>5, <1>6, <2>1 DEF file
<1>8. dir[file] \in ToSet(lists)
  BY <1>7 DEF Contents, ToSet
<1>9. Broken \notin ToSet(lists)
  BY DEF List, Failed
<1>10. QED
  BY <1>8, <1>9

\* UnreadableIsNotMissing: a factory whose list fails never has its caches
\* filled, and no controller runs before all have.
THEOREM UnreadableNotMissing == SampleSpec => []UnreadableIsNotMissing
<1>1. ASSUME SampleInv, running # NoController, NEW i \in 1..NumInformers, NEW s \in InformerLists[i],
             ListFile(s.ns, s.type) \in DOMAIN directory
      PROVE  directory[ListFile(s.ns, s.type)] # Broken
  <2>1. i \in synced
    BY <1>1 DEF SampleInv, RunInv, LoopTypeOK, Waiting, Looping
  <2>2. List(directory, s).status = "ok"
    BY <1>1, <2>1 DEF SampleInv, FilledByLists, Listed
  <2>3. IsDirectory(directory)
    BY <1>1, SampleAssumption DEF SampleInv, SampleTypes
  <2>4. s.type # Namespaces
    <3>1. i \in 1..3
      BY <1>1, SampleAssumption DEF InformerLists
    <3>2. QED
      BY <1>1, <3>1 DEF InformerLists, Everything, Namespaces
  <2>5. QED
    BY <1>1, <2>2, <2>3, <2>4, ListedIsReadable
<1>2. SampleInv => UnreadableIsNotMissing
  BY <1>1 DEF UnreadableIsNotMissing
<1>3. QED
  BY <1>2, SampleInvariant, PTL

-----------------------------------------------------------------------------
(* What a controller decides.                                              *)

\* Demo counts in an object, which stays what it is and where it is.
LEMMA CountingKeeps ==
    ASSUME NEW known, \A o \in known : IsObject(o), NEW kind, NEW ns, NEW name,
           <<kind, ns, name>> # <<"ConfigMap", Authentication, Foo>>
    PROVE  Known(CacheAfter(Demo, known), kind, ns, name) = Known(known, kind, ns, name)
<1> DEFINE counted(o) == IF o \in FooMap(known) /\ o.data.counter # NotANumber
                         THEN [o EXCEPT !.data.counter = @ + 1] ELSE o
<1>1. CacheAfter(Demo, known) = {counted(o) : o \in known}
  BY DEF CacheAfter
<1>2. ASSUME NEW o \in known
      PROVE  /\ counted(o).kind = o.kind /\ counted(o).ns = o.ns /\ counted(o).name = o.name
             /\ counted(o) # o => <<o.kind, o.ns, o.name>> = <<"ConfigMap", Authentication, Foo>>
  <2>1. {"kind", "ns", "name"} \subseteq DOMAIN o
    BY DEF IsObject
  <2> DEFINE c == [o EXCEPT !.data.counter = @ + 1]
  <2>2. c.kind = o.kind /\ c.ns = o.ns /\ c.name = o.name
    BY <2>1
  <2> HIDE DEF c
  <2>3. counted(o) \in {c, o} /\ (counted(o) # o => o \in FooMap(known))
    BY DEF c
  <2> HIDE DEF counted
  <2>4. QED
    BY <2>2, <2>3 DEF FooMap, Known
<1> HIDE DEF counted
<1>3. ASSUME NEW o \in known, counted(o) # o PROVE ~(o.kind = kind /\ o.ns = ns /\ o.name = name)
  BY <1>2, <1>3
<1>4. QED
  BY <1>1, <1>2, <1>3 DEF Known

\* So nobody else decides otherwise for it.
LEMMA OthersUnmoved ==
    ASSUME NEW known, \A o \in known : IsObject(o), NEW c, c # Demo
    PROVE  SyncOf(c, CacheAfter(Demo, known)) = SyncOf(c, known)
<1>1. /\ OperatorConfig(CacheAfter(Demo, known)) = OperatorConfig(known)
      /\ Known(CacheAfter(Demo, known), "ConfigMap", Authentication, FailCheck)
             = Known(known, "ConfigMap", Authentication, FailCheck)
  BY CountingKeeps DEF OperatorConfig, FailCheck, Foo
<1>2. QED
  BY <1>1 DEF SyncOf, SyncFailureGenerator, SyncRemoveStaleConditions, SyncResourceSync

\* Whose write it is shows in what is written, and how.
Owner(w) ==
    IF w.type = "configmaps" THEN Demo
    ELSE IF w.type = "events" THEN FailureGenerator
    ELSE IF w.type = "ingresses" THEN IngressCreator
    ELSE IF w.action = "PatchStatus" THEN RemoveStaleConditions ELSE ResourceSync

\* No two controllers make the same write.
LEMMA OwnWrites ==
    ASSUME NEW c \in Numbers, NEW known, NEW e \in ToSet(SyncOf(c, known).writes)
    PROVE  /\ Owner(e.write) = c
           /\ e = [controller |-> e.controller, write |-> e.write]
<1> DEFINE Own(does) == \A x \in ToSet(does.writes) :
               Owner(x.write) = c /\ x = [controller |-> x.controller, write |-> x.write]
<1>1. \A how : Own(Does(<<>>, how))
  BY DEF Does, ToSet
<1>2. ASSUME NEW controller, NEW action, NEW type, NEW ns, NEW name, NEW data, NEW how,
             Owner(WriteOf(action, type, ns, name, data)) = c
      PROVE  Own(Does(Write1(controller, action, type, ns, name, data), how))
  <2> DEFINE x == [controller |-> controller, write |-> WriteOf(action, type, ns, name, data)]
  <2>1. Owner(x.write) = c /\ x = [controller |-> x.controller, write |-> x.write]
    BY <1>2
  <2>2. Write1(controller, action, type, ns, name, data) = <<x>>
    BY DEF Write1
  <2> HIDE DEF x
  <2>3. ToSet(<<x>>) = {x}
    BY Singleton
  <2>4. QED
    BY <2>1, <2>2, <2>3 DEF Does
<1> HIDE DEF Own
<1>3. /\ c = Demo => \A action, data : Owner(WriteOf(action, "configmaps", Authentication, Foo, data)) = c
      /\ c = FailureGenerator => Owner(WriteOf("Create", "events", ExampleOperator, Example, <<>>)) = c
      /\ c = IngressCreator => Owner(WriteOf("Create", "ingresses", None, Cluster, <<>>)) = c
      /\ c = RemoveStaleConditions =>
             Owner(WriteOf("PatchStatus", "authentications.operator", None, Cluster, <<>>)) = c
      /\ c = ResourceSync =>
             Owner(WriteOf("ApplyStatus", "authentications.operator", None, Cluster, <<>>)) = c
  BY DEF Owner, WriteOf
<1>4. Own(SyncOf(c, known))
  <2>1. CASE c = Demo
    BY <1>1, <1>2, <1>3, <2>1 DEF SyncOf, SyncDemo
  <2>2. CASE c = FailureGenerator
    BY <1>2, <1>3, <2>2 DEF SyncOf, SyncFailureGenerator, FailureGenerator, Demo
  <2>3. CASE c = IngressCreator
    BY <1>2, <1>3, <2>3 DEF SyncOf, SyncIngressCreator, IngressCreator, FailureGenerator, Demo
  <2>4. CASE c = RemoveStaleConditions
    BY <1>1, <1>2, <1>3, <2>4 DEF SyncOf, SyncRemoveStaleConditions, RemoveStaleConditions, IngressCreator,
                                  FailureGenerator, Demo
  <2>5. CASE c = ResourceSync
    BY <1>1, <1>2, <1>3, <2>5 DEF SyncOf, SyncResourceSync, ResourceSync, RemoveStaleConditions, IngressCreator,
                                  FailureGenerator, Demo
  <2>6. QED
    BY <2>1, <2>2, <2>3, <2>4, <2>5 DEF Numbers
<1>5. QED
  BY <1>4 DEF Own

\* Everything that was listed is an object.
LEMMA InputIsObjects == ASSUME SampleInv PROVE \A o \in Input : IsObject(o)
<1>1. IsDirectory(directory)
  BY SampleAssumption DEF SampleInv, SampleTypes
<1>2. ASSUME NEW i \in 1..NumInformers, NEW s \in InformerLists[i], NEW o \in ToSet(List(directory, s).objects)
      PROVE  IsObject(o)
  BY <1>1, ListYields
<1>3. QED
  BY <1>2 DEF Input, Everywhere, ObjectsListed

\* At first nothing is listed, no controller has run and nothing is written.
LEMMA DecisionInit == SampleInit => DecisionInv
<1> SUFFICES ASSUME SampleInit PROVE DecisionInv
  OBVIOUS
<1>1. Init /\ cache = {} /\ pending = <<>> /\ late = {}
  BY DEF SampleInit
<1>2. ASSUME NEW n \in Names PROVE ~Ran(n)
  BY <1>1, NamesAreNames DEF Init, Ran
<1>3. CachesHold
  BY <1>1, <1>2 DEF CachesHold, Init, HasRun
<1>4. RanInLoop /\ DoesAsDecided
  BY <1>1, <1>2 DEF RanInLoop, DoesAsDecided, Init, Ran
<1>5. LogHasTheirs
  BY <1>1, <1>2 DEF LogHasTheirs, Init, Settled, ToSet, Returned
<1>6. QED
  BY <1>3, <1>4, <1>5 DEF DecisionInv

\* What the invariant is about.
decisionVars == <<registered, flags, next, outcome, running, pending, ending, late, cache, synced, directory, mutations>>

\* It stays true in a step that only ends the wait for the caches, with all of
\* them filled, or returns the log.
LEMMA DecisionKept ==
    ASSUME DecisionInv, UNCHANGED decisionVars, stage' = "informers" => stage = "informers",
           stage # "informers" \/ stage' = "informers" \/ synced = 1..NumInformers,
           Returned' => output' = mutations
    PROVE  DecisionInv'
<1>1. Input' = Input /\ \A n : HasRun(n)' = HasRun(n)
  BY DEF decisionVars, Input, Everywhere, ObjectsListed, HasRun, Ran
<1>2. CachesHold'
  BY <1>1 DEF DecisionInv, CachesHold, decisionVars, ObjectsListed
<1>3. RanInLoop'
  BY DEF DecisionInv, RanInLoop, decisionVars, Ran, IsEnabled
<1>4. DoesAsDecided'
  BY <1>1 DEF DecisionInv, DoesAsDecided, decisionVars
<1>5. Settled' = Settled
  BY DEF Settled, decisionVars, Ran
<1>6. LogHasTheirs'
  BY <1>1, <1>5 DEF DecisionInv, LogHasTheirs, decisionVars
<1>7. QED
  BY <1>2, <1>3, <1>4, <1>6 DEF DecisionInv

\* The loop begins with all caches filled; the order it runs in is another, the
\* controllers are the same.
LEMMA StartDecides == ASSUME SampleInv, DecisionInv, StartLoop, UNCHANGED sampleVars PROVE DecisionInv'
<1>1. /\ stage = "informers" /\ stage' = "running" /\ waited = NumInformers
      /\ registered' \in Shuffle(registered)
      /\ UNCHANGED <<flags, next, outcome, running, pending, ending, late, cache, synced, directory, mutations, output>>
  BY DEF StartLoop, CachesReady, sampleVars, informerVars, loopVars, writeVars, returnVars
<1>2. synced = 1..NumInformers
  BY <1>1 DEF SampleInv, RunInv, Waiting, LoopTypeOK
<1>3. Input' = Input /\ \A n : HasRun(n)' = HasRun(n)
  BY <1>1 DEF Input, Everywhere, ObjectsListed, HasRun, Ran
<1>4. CachesHold'
  BY <1>1, <1>2, <1>3 DEF DecisionInv, CachesHold, ObjectsListed
<1>5. RanInLoop'
  <2>1. next = 1 /\ ToSet(registered') = ToSet(registered)
    <3>1. registered \in Seq(Names) /\ next = 1
      BY <1>1 DEF SampleInv, RunInv, LoopTypeOK, Reporting
    <3>2. QED
      BY <1>1, <3>1, ShuffleKeeps
  <2>2. QED
    BY <1>1, <2>1 DEF DecisionInv, RanInLoop, Ran, IsEnabled
<1>6. DoesAsDecided'
  BY <1>1, <1>3 DEF DecisionInv, DoesAsDecided
<1>7. Settled' = Settled
  BY <1>1 DEF Settled, Ran
<1>8. LogHasTheirs'
  BY <1>1, <1>3, <1>7 DEF DecisionInv, LogHasTheirs, Returned
<1>9. QED
  BY <1>4, <1>5, <1>6, <1>8 DEF DecisionInv

\* A factory adds what it lists to the caches, before any controller runs.
LEMMA InformerDecides ==
    ASSUME SampleInv, DecisionInv, NEW i \in 1..NumInformers, InformerSyncs(i) PROVE DecisionInv'
<1>1. /\ CacheSyncs(i) /\ synced' = synced \cup {i} /\ cache' = cache \cup ObjectsListed(directory, i)
      /\ i \notin synced
      /\ UNCHANGED <<registered, flags, stage, next, outcome, running, pending, ending, late, directory, mutations,
                      output, rejected>>
  BY DEF InformerSyncs, CacheSyncs, loopVars, writeVars, returnVars
<1>2. stage = "informers"
  BY <1>1 DEF DecisionInv, CachesHold
<1>3. Input' = Input /\ (\A n : HasRun(n)' = HasRun(n)) /\ ~HasRun(Demo)
  <2>1. Input' = Input /\ \A n : HasRun(n)' = HasRun(n)
    BY <1>1 DEF Input, Everywhere, ObjectsListed, HasRun, Ran
  <2>2. running = NoController /\ \A n \in Names : outcome[n] = "none"
    BY <1>2 DEF SampleInv, RunInv, Looping
  <2>3. QED
    BY <2>1, <2>2 DEF HasRun, Ran, Demo, NoController
<1>4. CachesHold'
  BY <1>1, <1>2, <1>3 DEF DecisionInv, CachesHold, ObjectsListed
<1>5. RanInLoop' /\ Settled' = Settled
  BY <1>1 DEF DecisionInv, RanInLoop, Ran, IsEnabled, Settled
<1>6. DoesAsDecided'
  BY <1>1, <1>3 DEF DecisionInv, DoesAsDecided
<1>7. LogHasTheirs'
  BY <1>1, <1>3, <1>5 DEF DecisionInv, LogHasTheirs, Returned
<1>8. QED
  BY <1>4, <1>5, <1>6, <1>7 DEF DecisionInv

\* The other steps of RunOnce: informers start and are waited for, the loop
\* begins, is rejected, passes over a controller that is not enabled, returns.
LEMMA RunOnceDecides == ASSUME SampleInv, DecisionInv, RunOnceStep PROVE DecisionInv'
<1>1. UNCHANGED sampleVars
  BY DEF RunOnceStep
<1>2. CASE StartInformer \/ WaitForCacheSync
  <2>1. UNCHANGED <<registered, flags, stage, synced, loopVars, writeVars, returnVars>>
    BY <1>2 DEF StartInformer, WaitForCacheSync
  <2>2. UNCHANGED decisionVars /\ UNCHANGED <<stage, rejected, output>>
    BY <1>1, <2>1 DEF decisionVars, sampleVars, loopVars, writeVars, returnVars
  <2>3. Returned' => output' = mutations
    BY <2>2 DEF Returned, DecisionInv, LogHasTheirs
  <2>4. QED
    BY <2>2, <2>3, DecisionKept
<1>3. CASE Reject
  <2>1. UNCHANGED decisionVars /\ stage = "informers" /\ stage' = "returned" /\ ~Returned' /\ waited = NumInformers
    BY <1>1, <1>3 DEF Reject, decisionVars, sampleVars, loopVars, writeVars, informerVars, CachesReady, Returned
  <2>2. synced = 1..NumInformers
    BY <2>1 DEF SampleInv, RunInv, Waiting, LoopTypeOK
  <2>3. QED
    BY <2>1, <2>2, DecisionKept
<1>4. CASE StartLoop
  BY <1>1, <1>4, StartDecides
<1>5. CASE SkipController
  <2>1. /\ ~IsEnabled(registered[next]) /\ next' = next + 1 /\ stage = "running"
        /\ UNCHANGED <<registered, flags, stage, outcome, running, pending, ending, late, cache, synced, directory,
                        mutations, output, rejected>>
    BY <1>1, <1>5 DEF SkipController, InLoop, sampleVars, informerVars, writeVars, returnVars
  <2>2. Input' = Input /\ \A n : HasRun(n)' = HasRun(n)
    BY <2>1 DEF Input, Everywhere, ObjectsListed, HasRun, Ran
  <2>3. CachesHold' /\ DoesAsDecided'
    BY <2>1, <2>2 DEF DecisionInv, CachesHold, DoesAsDecided, ObjectsListed
  <2>4. RanInLoop'
    <3>1. next \in Nat
      BY DEF SampleInv, RunInv, LoopTypeOK
    <3>2. \A n : IsEnabled(n)' = IsEnabled(n)
      BY <2>1 DEF IsEnabled
    <3>3. \A i \in 1..(next' - 1) : i \in 1..(next - 1) \/ i = next
      BY <2>1, <3>1
    <3>4. QED
      BY <2>1, <3>2, <3>3 DEF DecisionInv, RanInLoop, Ran
  <2>5. Settled' = Settled
    BY <2>1 DEF Settled, Ran
  <2>6. LogHasTheirs'
    BY <2>1, <2>2, <2>5 DEF DecisionInv, LogHasTheirs, Returned
  <2>7. QED
    BY <2>3, <2>4, <2>6 DEF DecisionInv
<1>6. CASE ReturnResults
  <2>1. UNCHANGED decisionVars /\ output' = mutations /\ stage = "running" /\ stage' = "returned"
    BY <1>1, <1>6 DEF ReturnResults, decisionVars, sampleVars, loopVars, writeVars, informerVars
  <2>2. QED
    BY <2>1, DecisionKept
<1>7. QED
  BY <1>2, <1>3, <1>4, <1>5, <1>6 DEF RunOnceStep

\* A controller begins: the caches tell it what the input does, whether Demo
\* has counted in them or not.
LEMMA BeginDecides == ASSUME SampleInv, DecisionInv, BeginSync PROVE DecisionInv'
<1> DEFINE c == registered[next]
           plan == SyncOf(c, Input)
<1>1. /\ BeginController
      /\ pending' = SyncOf(running', cache).writes /\ ending' = SyncOf(running', cache).how
      /\ cache' = CacheAfter(running', cache)
      /\ UNCHANGED <<given, directory, setup, late>>
  BY DEF BeginSync
<1>2. /\ running' = c /\ running = NoController /\ next <= Len(registered) /\ stage = "running" /\ IsEnabled(c)
      /\ UNCHANGED <<registered, flags, stage, next, outcome, synced, mutations, output, rejected>>
  BY <1>1 DEF BeginController, InLoop, informerVars, writeVars, returnVars
<1>3. c \in Names /\ c \in ToSet(registered) /\ outcome[c] = "none" /\ c \in Numbers /\ c # NoController
  <2>1. next \in 1..Len(registered) /\ registered \in Seq(Names)
    BY <1>2 DEF SampleInv, RunInv, LoopTypeOK
  <2>2. next \in next..Len(registered)
    BY <2>1
  <2>3. outcome[c] = "none"
    BY <2>2 DEF SampleInv, RunInv, Reporting
  <2>4. c \in Names /\ c \in ToSet(registered)
    BY <2>1 DEF ToSet
  <2>5. QED
    BY <2>3, <2>4, NamesAreTheSamples, NamesAreNames
<1>4. ~Ran(c) /\ c \notin late
  BY <1>2, <1>3 DEF Ran, DecisionInv, DoesAsDecided, HasRun
<1>5. Input' = Input
  BY <1>1 DEF Input, Everywhere, ObjectsListed
<1>6. cache = IF HasRun(Demo) THEN CacheAfter(Demo, Input) ELSE Input
  BY <1>2 DEF DecisionInv, CachesHold, Input, Everywhere
<1>7. \A n \in Names : Ran(n)' <=> Ran(n) \/ n = c
  BY <1>2, <1>3, NamesAreNames DEF Ran
<1> HIDE DEF c
<1>8. SyncOf(c, cache) = plan
  <2>1. CASE HasRun(Demo)
    BY <1>4, <1>6, <2>1, OthersUnmoved, InputIsObjects DEF HasRun
  <2>2. CASE ~HasRun(Demo)
    BY <1>6, <2>2
  <2>3. QED
    BY <2>1, <2>2
<1>9. CachesHold'
  <2>1. CASE c = Demo
    <3>1. ~HasRun(Demo) /\ HasRun(Demo)'
      BY <1>3, <1>4, <1>7, <2>1 DEF HasRun
    <3>2. cache' = CacheAfter(Demo, Input')
      BY <1>1, <1>2, <1>5, <1>6, <2>1, <3>1
    <3>3. stage' # "informers" => synced' = 1..NumInformers
      BY <1>2 DEF DecisionInv, CachesHold
    <3>4. QED
      BY <3>1, <3>2, <3>3 DEF CachesHold
  <2>2. CASE c # Demo
    <3>1. HasRun(Demo)' = HasRun(Demo) /\ cache' = cache
      BY <1>1, <1>2, <1>7, <2>2 DEF HasRun, CacheAfter
    <3>2. UNION {ObjectsListed(directory', i) : i \in synced'} = UNION {ObjectsListed(directory, i) : i \in synced}
      BY <1>1, <1>2 DEF ObjectsListed
    <3>3. cache' = IF HasRun(Demo)' THEN CacheAfter(Demo, Input') ELSE UNION {ObjectsListed(directory', i) : i \in synced'}
      BY <1>5, <3>1, <3>2 DEF DecisionInv, CachesHold
    <3>4. stage' # "informers" => synced' = 1..NumInformers
      BY <1>2 DEF DecisionInv, CachesHold
    <3>5. QED
      BY <3>3, <3>4 DEF CachesHold
  <2>3. QED
    BY <2>1, <2>2
<1>10. RanInLoop'
  <2>1. \A n : IsEnabled(n)' = IsEnabled(n)
    BY <1>2 DEF IsEnabled
  <2>2. \A n \in Names : Ran(n)' => n \in ToSet(registered) /\ IsEnabled(n)
    BY <1>2, <1>3, <1>7 DEF DecisionInv, RanInLoop
  <2>3. QED
    BY <1>2, <2>1, <2>2 DEF DecisionInv, RanInLoop
<1>11. pending' = plan.writes /\ ending' = plan.how
  BY <1>1, <1>2, <1>8
<1> HIDE DEF plan
<1>12. DoesAsDecided'
  <2>1. \A n \in late' : HasRun(n)'
    BY <1>1, <1>7 DEF DecisionInv, DoesAsDecided, HasRun
  <2>2. plan = SyncOf(running', Input') /\ running' \notin late'
    BY <1>1, <1>2, <1>4, <1>5 DEF plan
  <2>3. QED
    BY <1>1, <1>2, <1>5, <1>11, <2>1, <2>2 DEF DecisionInv, DoesAsDecided
<1>13. UNION {ToSet(SyncOf(n, Input).writes) : n \in Settled'} = UNION {ToSet(SyncOf(n, Input).writes) : n \in Settled}
  <2>1. Settled \subseteq Settled' /\ Settled' \subseteq Settled \cup {c} /\ (c \in Settled' => pending' = <<>>)
    BY <1>1, <1>2, <1>3, <1>4, <1>7, NamesAreNames DEF Settled
  <2>2. c \in Settled' => ToSet(SyncOf(c, Input).writes) = {}
    BY <1>11, <2>1, Nothing1 DEF plan
  <2>3. QED
    BY <2>1, <2>2
<1>14. LogHasTheirs'
  BY <1>2, <1>5, <1>13 DEF DecisionInv, LogHasTheirs, Returned
<1>15. QED
  BY <1>9, <1>10, <1>12, <1>14 DEF DecisionInv

\* The write of a controller is the only one of its kind, and its first.
LEMMA WriteDecides == ASSUME SampleInv, DecisionInv, Writes PROVE DecisionInv'
<1>1. PICK e : pending = <<e>>
  BY DEF SampleInv, Planned, AtMostOne, Writes
<1>2. /\ running # NoController /\ pending' = <<>>
      /\ mutations' = Append(mutations, [controller |-> e.controller, write |-> e.write])
      /\ UNCHANGED <<registered, flags, stage, next, outcome, running, ending, late, cache, synced, directory,
                      output, rejected>>
  BY <1>1 DEF Writes, SyncWrite, informerVars, loopVars, returnVars
<1>3. /\ running \in Names /\ running \in Numbers /\ stage = "running"
      /\ mutations \in Seq(Entry)
  BY <1>2, NamesAreTheSamples DEF SampleInv, RunInv, LoopTypeOK, Looping
<1>4. running \notin late /\ SyncOf(running, Input).writes = <<e>> /\ ending = SyncOf(running, Input).how
  BY <1>1, <1>2 DEF DecisionInv, DoesAsDecided
<1>5. e \in ToSet(SyncOf(running, Input).writes) /\ ToSet(SyncOf(running, Input).writes) = {e}
  BY <1>4, Singleton
<1>6. Owner(e.write) = running /\ e = [controller |-> e.controller, write |-> e.write]
  BY <1>3, <1>5, OwnWrites
<1>7. mutations' = Append(mutations, e)
  BY <1>2, <1>6
<1>8. Input' = Input /\ (\A n : HasRun(n)' = HasRun(n)) /\ \A n : IsEnabled(n)' = IsEnabled(n)
  BY <1>2 DEF Input, Everywhere, ObjectsListed, HasRun, Ran, IsEnabled
<1>9. CachesHold' /\ RanInLoop'
  BY <1>2, <1>8 DEF DecisionInv, CachesHold, RanInLoop, ObjectsListed, Ran
<1>10. DoesAsDecided'
  BY <1>2, <1>4, <1>8 DEF DecisionInv, DoesAsDecided
<1>11. Settled' = Settled \cup {running} /\ running \notin Settled
  BY <1>1, <1>2, <1>3, <1>4 DEF Settled, Ran
<1>12. ToSet(mutations') = ToSet(mutations) \cup {e} /\ Len(mutations') = Len(mutations) + 1
       /\ mutations'[Len(mutations')] = e /\ DOMAIN mutations' = 1..Len(mutations') /\ Len(mutations) \in Nat
       /\ \A i \in 1..Len(mutations) : mutations'[i] = mutations[i] /\ i \in DOMAIN mutations
  BY <1>3, <1>7 DEF ToSet
<1>13. e \notin ToSet(mutations)
  <2>1. SUFFICES ASSUME e \in ToSet(mutations) PROVE FALSE
    OBVIOUS
  <2>2. PICK n \in Settled : e \in ToSet(SyncOf(n, Input).writes)
    BY <2>1 DEF DecisionInv, LogHasTheirs
  <2>3. Owner(e.write) = n
    BY <2>2, OwnWrites, NamesAreTheSamples DEF Settled
  <2>4. QED
    BY <1>6, <1>11, <2>2, <2>3
<1>14. LogHasTheirs'
  <2>1. ToSet(mutations') = UNION {ToSet(SyncOf(n, Input).writes) : n \in Settled'}
    BY <1>5, <1>11, <1>12 DEF DecisionInv, LogHasTheirs
  <2>2. ASSUME NEW i \in DOMAIN mutations', NEW j \in DOMAIN mutations', mutations'[i] = mutations'[j] PROVE i = j
    <3>1. \A k \in 1..Len(mutations) : mutations'[k] # e
      BY <1>12, <1>13 DEF ToSet
    <3>2. QED
      BY <1>12, <2>2, <3>1 DEF DecisionInv, LogHasTheirs
  <2>3. QED
    BY <1>2, <1>3, <1>8, <2>1, <2>2 DEF LogHasTheirs, Returned
<1>15. QED
  BY <1>9, <1>10, <1>14 DEF DecisionInv

\* A controller whose deadline is over writes nothing and fails.
LEMMA RefusedDecides == ASSUME SampleInv, DecisionInv, WriteRefused PROVE DecisionInv'
<1>1. /\ pending # <<>> /\ pending' = <<>> /\ ending' = "error" /\ late' = late \cup {running}
      /\ UNCHANGED <<registered, flags, stage, next, outcome, running, cache, synced, directory, mutations,
                      output, rejected>>
  BY DEF WriteRefused, vars, informerVars, loopVars, writeVars, returnVars
<1>2. /\ running # NoController /\ running \in Names /\ outcome[running] = "none"
  <2>1. running # NoController
    BY <1>1 DEF SampleInv, Planned
  <2>2. running \in Names /\ next \in Nat /\ registered \in Seq(Names)
    BY <2>1 DEF SampleInv, RunInv, LoopTypeOK
  <2>3. next <= Len(registered) /\ running = registered[next]
    BY <2>1 DEF SampleInv, RunInv, Reporting
  <2>4. next \in next..Len(registered)
    BY <2>2, <2>3
  <2>5. QED
    BY <2>1, <2>2, <2>3, <2>4 DEF SampleInv, RunInv, Reporting
<1>3. Input' = Input /\ (\A n : HasRun(n)' = HasRun(n)) /\ (\A n : IsEnabled(n)' = IsEnabled(n)) /\ HasRun(running)
  BY <1>1, <1>2 DEF Input, Everywhere, ObjectsListed, HasRun, Ran, IsEnabled
<1>4. CachesHold' /\ RanInLoop'
  BY <1>1, <1>3 DEF DecisionInv, CachesHold, RanInLoop, ObjectsListed, Ran
<1>5. DoesAsDecided'
  BY <1>1, <1>2, <1>3 DEF DecisionInv, DoesAsDecided
<1>6. Settled' = Settled
  BY <1>1 DEF Settled, Ran
<1>7. LogHasTheirs'
  BY <1>1, <1>3, <1>6 DEF DecisionInv, LogHasTheirs, Returned
<1>8. QED
  BY <1>4, <1>5, <1>7 DEF DecisionInv

\* A controller ends as it decided to, with its write in the log if it has one.
LEMMA EndDecides == ASSUME SampleInv, DecisionInv, SyncEnds PROVE DecisionInv'
<1>1. /\ pending = <<>> /\ running # NoController /\ running' = NoController /\ next' = next + 1
      /\ outcome' = [outcome EXCEPT ![running] = ending]
      /\ UNCHANGED <<registered, flags, stage, pending, ending, late, cache, synced, directory, mutations,
                      output, rejected>>
  BY DEF SyncEnds, ControllerEnds, sampleVars, informerVars, writeVars, returnVars
<1>2. /\ running \in Names /\ next \in Nat /\ running = registered[next]
      /\ outcome \in [Names -> {"none", "ok", "error", "panic"}] /\ ending \in {"ok", "error"}
  BY <1>1 DEF SampleInv, RunInv, LoopTypeOK, Reporting, SampleTypes
<1>3. \A n \in Names : outcome'[n] = IF n = running THEN ending ELSE outcome[n]
  BY <1>1, <1>2
<1>4. \A n \in Names : Ran(n)' = Ran(n)
  BY <1>1, <1>2, <1>3, NamesAreNames DEF Ran
<1>5. Input' = Input /\ (\A n : HasRun(n)' = HasRun(n)) /\ (\A n : IsEnabled(n)' = IsEnabled(n))
  BY <1>1, <1>4 DEF Input, Everywhere, ObjectsListed, HasRun, IsEnabled
<1>6. CachesHold'
  BY <1>1, <1>5 DEF DecisionInv, CachesHold, ObjectsListed
<1>7. RanInLoop'
  <2>1. \A i \in 1..(next' - 1) : i \in 1..(next - 1) \/ i = next
    BY <1>1, <1>2
  <2>2. ASSUME NEW i \in 1..(next' - 1), IsEnabled(registered[i]) PROVE outcome'[registered[i]] # "none"
    <3>1. CASE i = next
      BY <1>2, <1>3, <3>1
    <3>2. CASE i # next
      <4>1. i \in 1..(next - 1)
        BY <2>1, <3>2
      <4>2. outcome[registered[i]] # "none"
        BY <2>2, <4>1 DEF DecisionInv, RanInLoop
      <4>3. registered[i] \in Names
        <5>1. registered \in Seq(Names) /\ i \in 1..Len(registered)
          BY <1>1, <1>2, <4>1 DEF SampleInv, RunInv, LoopTypeOK, Reporting
        <5>2. QED
          BY <5>1
      <4>4. QED
        BY <1>2, <1>3, <4>2, <4>3
    <3>3. QED
      BY <3>1, <3>2
  <2>3. QED
    BY <1>1, <1>4, <1>5, <2>2 DEF DecisionInv, RanInLoop
<1>8. DoesAsDecided'
  <2>1. \A n \in Names : outcome'[n] # "none" =>
            outcome'[n] = IF n \in late THEN "error" ELSE SyncOf(n, Input).how
    BY <1>1, <1>2, <1>3 DEF DecisionInv, DoesAsDecided
  <2>2. QED
    BY <1>1, <1>5, <2>1 DEF DecisionInv, DoesAsDecided
<1>9. Settled' = Settled
  BY <1>1, <1>4 DEF Settled
<1>10. LogHasTheirs'
  BY <1>1, <1>5, <1>9 DEF DecisionInv, LogHasTheirs, Returned
<1>11. QED
  BY <1>6, <1>7, <1>8, <1>10 DEF DecisionInv

\* So every step of the sample keeps it.
LEMMA DecisionStep == SampleInv /\ DecisionInv /\ [SampleNext]_allVars => DecisionInv'
<1> SUFFICES ASSUME SampleInv, DecisionInv, [SampleNext]_allVars PROVE DecisionInv'
  OBVIOUS
<1>1. ASSUME UNCHANGED decisionVars, UNCHANGED <<stage, rejected, output>> PROVE DecisionInv'
  <2>1. Returned' => output' = mutations
    BY <1>1 DEF Returned, DecisionInv, LogHasTheirs
  <2>2. QED
    BY <1>1, <2>1, DecisionKept DEF DecisionInv, CachesHold
<1>2. CASE UNCHANGED allVars
  BY <1>1, <1>2 DEF allVars, vars, sampleVars, informerVars, loopVars, writeVars, returnVars, decisionVars
<1>3. CASE CreateOperatorStarter
  BY <1>1, <1>3 DEF CreateOperatorStarter, vars, informerVars, loopVars, writeVars, returnVars, decisionVars
<1>4. CASE RunOnceStep
  BY <1>4, RunOnceDecides
<1>5. CASE BeginSync
  BY <1>5, BeginDecides
<1>6. CASE Writes
  BY <1>6, WriteDecides
<1>7. CASE WriteRefused
  BY <1>7, RefusedDecides
<1>8. CASE SyncEnds
  BY <1>8, EndDecides
<1>9. CASE DeadlinePasses
  BY <1>1, <1>9 DEF DeadlinePasses, Deadline, sampleVars, informerVars, writeVars, returnVars, decisionVars
<1>10. CASE \E i \in 1..NumInformers : InformerSyncs(i)
  BY <1>10, InformerDecides
<1>11. CASE SampleFinished \/ \E i \in 1..NumInformers : ListFails(i)
  BY <1>2, <1>11 DEF SampleFinished, ListFails
<1>12. QED
  BY <1>2, <1>3, <1>4, <1>5, <1>6, <1>7, <1>8, <1>9, <1>10, <1>11 DEF SampleNext, Step

-----------------------------------------------------------------------------
(* What the informers list, and what a get finds.                          *)

\* The type of the configuration of the operator, and what names a config map.
Configuration == "authentications.operator"
MapId(name) == Id("configmaps", Authentication, name)

\* What the operator needs.
LEMMA NeededIs ==
    /\ IsList(Needed)
    /\ ToSet(Needed.selected) = {Revisions("configmaps"), Revisions("secrets")}
    /\ ToSet(Needed.references) = {RouteSecret}
    /\ \A id \in ToSet(Needed.exact) :
          id = [type |-> id.type, version |-> "v1", ns |-> id.ns, name |-> id.name] /\ id.type # Configuration
    /\ MapId(Foo) \in ToSet(Needed.exact) /\ MapId(FailCheck) \in ToSet(Needed.exact)
<1> DEFINE secret == <<Id("secrets", Authentication, Branding)>>
           types == <<"authentications", "proxies", "consoles", "oauths">>
           configs == [i \in 1..4 |-> ConfigResource(types[i])]
           maps == <<MapId(FailCheck), MapId(Foo)>>
           ingress == <<ConfigResource("ingresses")>>
           Right(id) == id = [type |-> id.type, version |-> "v1", ns |-> id.ns, name |-> id.name]
                        /\ id.type # Configuration
<1>1. /\ Needed.exact = ((secret \o configs) \o maps) \o ingress
      /\ Needed.selected = <<Revisions("configmaps"), Revisions("secrets")>>
      /\ Needed.references = <<RouteSecret>>
  <2> DEFINE inputs == SampleInputResources
             apply == inputs.apply
             configuration == SampleOutputResources.configuration
  <2>1. /\ apply.exact = (secret \o configs) \o maps
        /\ apply.selected = <<Revisions("configmaps"), Revisions("secrets")>>
        /\ apply.references = <<RouteSecret>>
        /\ {"exact", "generated", "selected", "references"} \subseteq DOMAIN apply
    <3> HIDE DEF secret, configs, maps
    <3>1. inputs.apply = [Nothing EXCEPT !.exact = (secret \o configs) \o maps,
                                         !.selected = <<Revisions("configmaps"), Revisions("secrets")>>,
                                         !.references = <<RouteSecret>>]
      BY DEF SampleInputResources, secret, configs, maps, MapId
    <3>2. QED
      BY <3>1 DEF Nothing
  <2>2. configuration.exact = ingress
    BY DEF SampleOutputResources, Nothing
  <2>3. "apply" \in DOMAIN inputs
    BY DEF SampleInputResources
  <2>4. Needed = [apply EXCEPT !.exact = apply.exact \o configuration.exact,
                               !.generated = apply.generated \o configuration.generated]
    <3> HIDE DEF inputs, configuration
    <3>1. WithOutputs(inputs, SampleOutputResources) =
              [inputs EXCEPT !.apply.exact = inputs.apply.exact \o configuration.exact,
                             !.apply.generated = inputs.apply.generated \o configuration.generated]
      BY <2>3 DEF WithOutputs, configuration
    <3>2. QED
      BY <2>3, <3>1 DEF Needed, inputs
  <2> HIDE DEF apply, configuration, secret, configs, maps, ingress
  <2>5. QED
    BY <2>1, <2>2, <2>4
<1>2. \A type, ns, name : type # Configuration => Right(Id(type, ns, name))
  BY DEF Id
<1>3. /\ \A id \in ToSet(secret) : Right(id)
      /\ \A id \in ToSet(configs) : Right(id)
      /\ \A id \in ToSet(maps) : Right(id)
      /\ \A id \in ToSet(ingress) : Right(id)
  <2> HIDE DEF Right
  <2>1. \A id \in ToSet(configs) : Right(id)
    <3>1. \A i \in 1..4 : types[i] # Configuration
      BY DEF Configuration
    <3> HIDE DEF types
    <3>2. QED
      BY <1>2, <3>1 DEF ToSet, ConfigResource
  <2>2. QED
    BY <1>2, <2>1 DEF ToSet, ConfigResource, MapId, Configuration
<1>4. IsSequence(secret) /\ IsSequence(configs) /\ IsSequence(maps) /\ IsSequence(ingress)
  <2>1. IsSequence(configs)
    <3>1. configs = [i \in 1..4 |-> configs[i]] /\ 4 \in Nat
      OBVIOUS
    <3> HIDE DEF configs
    <3>2. QED
      BY <3>1, Built
  <2>2. IsSequence(maps)
    BY DEF IsSequence, ToSet
  <2>3. QED
    BY <2>1, <2>2, Singleton
<1>5. MapId(Foo) \in ToSet(maps) /\ MapId(FailCheck) \in ToSet(maps)
  BY DEF ToSet
<1> HIDE DEF secret, configs, maps, ingress, Right
<1>6. IsSequence(secret \o configs) /\ ToSet(secret \o configs) = ToSet(secret) \cup ToSet(configs)
  BY <1>4, Joined
<1>7. /\ IsSequence((secret \o configs) \o maps)
      /\ ToSet((secret \o configs) \o maps) = ToSet(secret \o configs) \cup ToSet(maps)
  BY <1>4, <1>6, Joined
<1>8. IsSequence(Needed.exact) /\ ToSet(Needed.exact) = ToSet((secret \o configs) \o maps) \cup ToSet(ingress)
  BY <1>1, <1>4, <1>7, Joined
<1>9. \A id \in ToSet(Needed.exact) : Right(id)
  BY <1>3, <1>6, <1>7, <1>8
<1>10. /\ IsSequence(Needed.selected) /\ ToSet(Needed.selected) = {Revisions("configmaps"), Revisions("secrets")}
       /\ IsSequence(Needed.references) /\ ToSet(Needed.references) = {RouteSecret}
  <2>1. \A a, b : IsSequence(<<a, b>>) /\ ToSet(<<a, b>>) = {a, b}
    BY DEF IsSequence, ToSet
  <2>2. QED
    BY <1>1, <2>1, Singleton
<1>11. QED
  BY <1>5, <1>7, <1>8, <1>9, <1>10 DEF IsList, Right

\* Whatever is wanted, the operator's configuration is not.
LEMMA WantedIs ==
    ASSUME NEW dir, NEW id \in Wanted(dir, Needed)
    PROVE  /\ id = [type |-> id.type, version |-> "v1", ns |-> id.ns, name |-> id.name]
           /\ id.type # Configuration
<1>1. CASE id \in ToSet(Needed.exact)
  BY <1>1, NeededIs
<1>2. CASE id = RouteSecret.referring
  BY <1>2 DEF RouteSecret, ConfigResource, Id, Configuration
<1>3. CASE id \in Targets(dir, RouteSecret)
  BY <1>3 DEF Targets, Target, RouteSecret, Configuration
<1>4. QED
  BY <1>1, <1>2, <1>3, NeededIs DEF Wanted

\* The informers, and which of them lists what.
LEMMA InformersAre ==
    /\ NumInformers = 3 /\ DOMAIN InformerLists = 1..3
    /\ \A i \in 1..3 : \A s \in InformerLists[i] :
          /\ s = Everything(s.type, s.ns) /\ s.version = "v1" /\ s.labels = {} /\ s.without = {}
          /\ \/ s.type \in {"configmaps", "secrets"} /\ s.ns # None
             \/ s.type = Configuration /\ s.ns = None
          /\ s.type # Namespaces
    /\ Everything("configmaps", Authentication) \in InformerLists[2]
    /\ Everything(Configuration, None) \in InformerLists[1]
<1>1. /\ InformerLists[1] = {Everything(Configuration, None)}
      /\ InformerLists[2] = {Everything(type, ns) : type \in {"configmaps", "secrets"},
                               ns \in {Authentication, OauthApiserver, Config, KubeSystem}}
      /\ InformerLists[3] = {} /\ DOMAIN InformerLists = 1..3 /\ Len(InformerLists) = 3
  BY DEF InformerLists, Configuration
<1>2. NumInformers = 3
  BY <1>1, SampleAssumption
<1>3. ASSUME NEW type, NEW ns, NEW s, s = Everything(type, ns)
      PROVE  /\ s = Everything(s.type, s.ns) /\ s.version = "v1" /\ s.labels = {} /\ s.without = {}
             /\ s.type = type /\ s.ns = ns
  BY <1>3 DEF Everything
<1>4. "configmaps" # Namespaces /\ "secrets" # Namespaces /\ Configuration # Namespaces
  BY DEF Namespaces, Configuration
<1>5. \A ns \in {Authentication, OauthApiserver, Config, KubeSystem} : ns # None
  BY DEF Authentication, OauthApiserver, Config, KubeSystem, None
<1>6. \A s \in InformerLists[1] : s.type = Configuration /\ s.ns = None
  BY <1>1, <1>3
<1>7. \A s \in InformerLists[2] : s.type \in {"configmaps", "secrets"} /\ s.ns # None
  BY <1>1, <1>3, <1>5
<1>8. \A i \in 1..3 : \A s \in InformerLists[i] : \E type, ns : s = Everything(type, ns)
  BY <1>1
<1>9. ASSUME NEW i \in 1..3, NEW s \in InformerLists[i]
      PROVE  /\ s = Everything(s.type, s.ns) /\ s.version = "v1" /\ s.labels = {} /\ s.without = {}
             /\ \/ s.type \in {"configmaps", "secrets"} /\ s.ns # None
                \/ s.type = Configuration /\ s.ns = None
  <2>1. s \in InformerLists[1] \/ s \in InformerLists[2]
    BY <1>1, <1>9
  <2>2. PICK type, ns : s = Everything(type, ns)
    BY <1>8
  <2>3. QED
    BY <1>3, <1>6, <1>7, <2>1, <2>2
<1>10. Everything("configmaps", Authentication) \in InformerLists[2] /\ Everything(Configuration, None) \in InformerLists[1]
  BY <1>1
<1>11. QED
  BY <1>1, <1>2, <1>4, <1>9, <1>10

\* The list of the informers that an object is from.
LEMMA InputIsListed ==
    ASSUME NEW dir, NEW o
    PROVE  o \in Everywhere(dir) <=> \E i \in 1..3 : \E s \in InformerLists[i] : o \in ToSet(List(dir, s).objects)
BY InformersAre DEF Everywhere, ObjectsListed

\* Of a whole must-gather the caches hold what a get finds in it.
LEMMA WholeIsKnown ==
    ASSUME NEW input \in Inputs, ~input.pruned, NEW dir, dir = Content[input.source], OneStorage(dir),
           \A i \in 1..3 : \A s \in InformerLists[i] : List(dir, s).status = "ok"
    PROVE  /\ \A name \in {Foo, FailCheck} :
                 Known(Everywhere(dir), "ConfigMap", Authentication, name) = ToSet(Get(dir, MapId(name)).objects)
           /\ OperatorConfig(Everywhere(dir)) = ToSet(Get(dir, ConfigResource(Configuration)).objects)
<1> DEFINE maps == Everything("configmaps", Authentication)
           config == Everything(Configuration, None)
<1>1. /\ IsDirectory(dir) /\ \A p \in DOMAIN dir : p.type = Configuration => p.ns = None
      /\ \A i \in 1..3 : \A s \in InformerLists[i] : IsWellKept(dir, s)
  <2>1. DOMAIN InformerLists = 1..3
    BY InformersAre
  <2>2. QED
    BY <2>1, LayoutAssumption DEF Configuration
<1>2. ASSUME NEW i \in 1..3, NEW s \in InformerLists[i], NEW o \in ToSet(List(dir, s).objects)
      PROVE  /\ o.kind = Discovery[<<s.type, "v1">>]
             /\ o.ns = s.ns
  <2>1. s.type # Namespaces /\ s.version = "v1" /\ IsWellKept(dir, s)
    BY <1>1, InformersAre
  <2>2. LiesIn(dir, s, o)
    BY <1>1, <1>2, <2>1, ListYields
  <2>3. PICK p \in LookedAt(dir, s) : dir[p] # Broken /\ o \in ToSet(ObjectsOf(dir[p]))
    BY <2>2 DEF LiesIn
  <2>4. o.kind = Discovery[<<s.type, "v1">>] /\ o.ns = p.ns
    BY <2>1, <2>3 DEF IsWellKept, AsListed
  <2>5. p \in DOMAIN dir /\ p.type = s.type /\ p.ns \in ToSet(Places(dir, s.ns))
    BY DEF LookedAt
  <2>6. p.ns = s.ns
    <3>1. CASE s.ns # None
      BY <1>1, <2>5, <3>1, PlacesHold
    <3>2. CASE s.ns = None
      BY <1>1, <2>5, <3>2, InformersAre
    <3>3. QED
      BY <3>1, <3>2
  <2>7. QED
    BY <2>4, <2>6
<1>3. /\ maps \in InformerLists[2] /\ config \in InformerLists[1]
      /\ maps.type = "configmaps" /\ maps.ns = Authentication /\ maps.version = "v1"
      /\ maps.labels = {} /\ maps.without = {}
      /\ config.type = Configuration /\ config.ns = None /\ config.version = "v1"
      /\ config.labels = {} /\ config.without = {}
  BY InformersAre DEF Everything
<1>4. ASSUME NEW s, s \in {maps, config}, NEW name, name # None
      PROVE  ToSet(Get(dir, Id(s.type, s.ns, name)).objects) = {o \in ToSet(List(dir, s).objects) : o.name = name}
  <2> DEFINE id == Id(s.type, s.ns, name)
  <2>1. /\ id = [type |-> s.type, version |-> s.version, ns |-> id.ns, name |-> id.name]
        /\ id.ns = s.ns /\ id.name = name
    BY <1>3, <1>4 DEF Id
  <2>2. PICK i \in 1..3 : s \in InformerLists[i]
    BY <1>3, <1>4
  <2>3. s.type # Namespaces /\ s.labels = {} /\ s.without = {} /\ List(dir, s).status = "ok" /\ IsWellKept(dir, s)
    BY <1>1, <2>2, InformersAre
  <2>4. s.ns \in ToSet(Places(dir, s.ns)) /\ \A p \in LookedAt(dir, s) : p.ns = s.ns
    <3>1. CASE s = maps
      BY <1>1, <1>3, <3>1, PlacesHold DEF LookedAt, Authentication, None
    <3>2. CASE s = config
      BY <1>1, <1>3, <3>2, PlacesHold DEF LookedAt
    <3>3. QED
      BY <1>4, <3>1, <3>2
  <2>5. \A p, q \in LookedAt(dir, s) : p.name = None => q.name = None
    BY <2>4 DEF OneStorage, LookedAt
  <2> HIDE DEF id
  <2>6. ToSet(Get(dir, id).objects) = {o \in ToSet(List(dir, s).objects) : o.name = id.name}
    BY <1>1, <1>4, <2>1, <2>3, <2>4, <2>5, ListAnswersGet
  <2>7. QED
    BY <2>1, <2>6 DEF id
<1>5. ASSUME NEW o
      PROVE  /\ o \in Everywhere(dir) /\ o.kind = "ConfigMap" /\ o.ns = Authentication
                    <=> o \in ToSet(List(dir, maps).objects)
             /\ o \in Everywhere(dir) /\ o.kind = "AuthenticationOperator" /\ o.ns = None
                    <=> o \in ToSet(List(dir, config).objects)
  <2>1. ASSUME NEW i \in 1..3, NEW s \in InformerLists[i], o \in ToSet(List(dir, s).objects)
        PROVE  /\ o.kind = "ConfigMap" /\ o.ns = Authentication => s = maps
               /\ o.kind = "AuthenticationOperator" => s = config
    <3>1. o.kind = Discovery[<<s.type, "v1">>] /\ o.ns = s.ns
      BY <1>2, <2>1
    <3>2. /\ s = Everything(s.type, s.ns)
          /\ s.type \in {"configmaps", "secrets"} \/ (s.type = Configuration /\ s.ns = None)
      BY InformersAre
    <3>3. QED
      BY <3>1, <3>2, DiscoveryAssumption DEF Configuration
  <2>2. /\ o \in ToSet(List(dir, maps).objects) =>
               o \in Everywhere(dir) /\ o.kind = "ConfigMap" /\ o.ns = Authentication
        /\ o \in ToSet(List(dir, config).objects) =>
               o \in Everywhere(dir) /\ o.kind = "AuthenticationOperator" /\ o.ns = None
    BY <1>2, <1>3, InputIsListed, DiscoveryAssumption DEF Configuration
  <2>3. QED
    BY <2>1, <2>2, InputIsListed
<1> HIDE DEF maps, config
<1>6. ASSUME NEW name \in {Foo, FailCheck}
      PROVE  Known(Everywhere(dir), "ConfigMap", Authentication, name) = ToSet(Get(dir, MapId(name)).objects)
  <2>1. name # None
    BY DEF Foo, FailCheck, None
  <2>2. Id(maps.type, maps.ns, name) = MapId(name)
    BY <1>3 DEF MapId
  <2>3. ToSet(Get(dir, MapId(name)).objects) = {o \in ToSet(List(dir, maps).objects) : o.name = name}
    BY <1>4, <2>1, <2>2
  <2>4. QED
    BY <1>5, <2>3 DEF Known
<1>7. OperatorConfig(Everywhere(dir)) = ToSet(Get(dir, ConfigResource(Configuration)).objects)
  <2>1. Cluster # None
    BY DEF Cluster, None
  <2>2. ToSet(Get(dir, ConfigResource(Configuration)).objects) = {o \in ToSet(List(dir, config).objects) : o.name = Cluster}
    BY <1>3, <1>4, <2>1 DEF ConfigResource
  <2>3. QED
    BY <1>5, <2>2 DEF OperatorConfig, Known
<1>8. QED
  BY <1>6, <1>7

\* What was read of a must-gather for the operator: of which version and
\* types, and by whom a config map was asked for.
LEMMA ReadForSample ==
    ASSUME NEW src, IsDirectory(src), IsConsistent(src, Needed), ~ReadRequired(src, Needed).failed,
           NEW r \in ToSet(ReadRequired(src, Needed).instances)
    PROVE  /\ r.object.version = "v1" /\ r.type # Configuration
           /\ \/ r.object.ns = OauthApiserver
              \/ \E id \in Wanted(src, Needed) :
                    /\ FromGet(src, id, r) /\ r.object.ns = id.ns /\ r.object.name = id.name
<1>1. IsList(Needed) /\ r \in ToSet(AllFound(Reads(src, Needed)))
  BY NeededIs, InstancesHold
<1>2. CASE \E id \in Wanted(src, Needed) : FromGet(src, id, r)
  <2>1. PICK id \in Wanted(src, Needed) : FromGet(src, id, r)
    BY <1>2
  <2> DEFINE answer == Get(src, id)
  <2>2. r.type = id.type /\ r.object \in ToSet(answer.objects)
    BY <2>1 DEF FromGet
  <2>3. id.version = "v1" /\ id.type # Configuration
    BY WantedIs
  <2>4. r.object.ns = id.ns /\ r.object.name = id.name
    BY <2>2 DEF IsConsistent
  <2>5. r.object.version = "v1"
    <3> HIDE DEF answer
    <3>1. answer = Get(src, id)
      BY DEF answer
    <3>2. PICK o : answer.objects = <<o>> /\ o.version = id.version
      BY <2>2, <3>1, GetYields, Nothing1
    <3>3. QED
      BY <2>2, <2>3, <3>2, Singleton
  <2>6. QED
    BY <2>1, <2>2, <2>3, <2>4, <2>5
<1>3. CASE \E s \in ToSet(Needed.selected) : FromList(src, s, r)
  <2>1. PICK s \in ToSet(Needed.selected) : r.type = s.type /\ r.object \in ToSet(List(src, s).objects)
    BY <1>3 DEF FromList
  <2>2. s.type \in {"configmaps", "secrets"} /\ s.version = "v1" /\ s.ns = OauthApiserver
    BY NeededIs DEF Revisions
  <2>3. s.type # Configuration /\ s.type # Namespaces /\ s.ns # None
    BY <2>2 DEF Configuration, Namespaces, OauthApiserver, None
  <2>4. List(src, s).status = "ok"
    <3>1. List(src, s).status # "error"
      BY <1>1, ReadFails DEF Readable
    <3>2. QED
      BY <3>1, ListYields
  <2>5. AsListed(src, s)
    BY <2>3, <2>4 DEF IsConsistent
  <2>6. PICK p \in LookedAt(src, s) : src[p] # Broken /\ r.object \in ToSet(ObjectsOf(src[p]))
    BY <2>1, <2>3, ListYields DEF LiesIn
  <2>7. r.object.ns = p.ns /\ r.object.version = "v1"
    BY <2>2, <2>5, <2>6 DEF AsListed
  <2>8. p.ns = OauthApiserver
    BY <2>2, <2>3, PlacesHold DEF LookedAt
  <2>9. QED
    BY <2>1, <2>3, <2>7, <2>8
<1>4. QED
  BY <1>1, <1>2, <1>3, FoundIsAskedFor

\* Of what is pruned the caches hold what a get finds in the must-gather, but
\* for the operator's configuration, which is not there.
LEMMA PrunedIsKnown ==
    ASSUME NEW input \in Inputs, input.pruned, NEW src, src = Content[input.source],
           NEW dir, dir = Pruned(src, Needed), ~ReadRequired(src, Needed).failed,
           OneVersion(ReadRequired(src, Needed).instances),
           \A i \in 1..3 : \A s \in InformerLists[i] : List(dir, s).status = "ok"
    PROVE  /\ \A name \in {Foo, FailCheck} :
                 Known(Everywhere(dir), "ConfigMap", Authentication, name) = ToSet(Get(src, MapId(name)).objects)
           /\ OperatorConfig(Everywhere(dir)) = {}
<1> DEFINE maps == Everything("configmaps", Authentication)
           config == Everything(Configuration, None)
           set == ReadRequired(src, Needed).instances
<1>1. /\ IsDirectory(src) /\ IsDirectory(dir) /\ IsConsistent(src, Needed) /\ IsList(Needed)
      /\ \A r \in ToSet(set) : TypesOf(r.object) = {r.type}
  <2>1. IsConsistent(src, Needed) /\ IsKnown(src, Needed) /\ IsDirectory(src)
    BY LayoutAssumption
  <2>2. IsDirectory(DirectoryOf(input)) /\ DirectoryOf(input) = dir
    BY SampleAssumption DEF DirectoryOf
  <2>3. QED
    BY <2>1, <2>2, NeededIs DEF IsKnown
<1>2. /\ IsSequence(set) /\ KindsAreTypes(set) /\ ToSet(set) = ToSet(AllFound(Reads(src, Needed)))
  BY <1>1, InstancesHold
<1>3. /\ \A p \in DOMAIN dir : \E r \in ToSet(set) : p = FileOf(set, r).path /\ dir[p] = FileOf(set, r).content
      /\ \A r \in ToSet(set) : FileOf(set, r).path \in DOMAIN dir /\ dir[FileOf(set, r).path] = FileOf(set, r).content
  BY <1>1, PrunedHolds
<1>4. /\ maps \in InformerLists[2] /\ config \in InformerLists[1]
      /\ maps.type = "configmaps" /\ maps.ns = Authentication /\ maps.version = "v1"
      /\ maps.labels = {} /\ maps.without = {} /\ maps.type # Namespaces
      /\ config.type = Configuration /\ config.ns = None /\ config.version = "v1" /\ config.type # Namespaces
  BY InformersAre DEF Everything
<1> HIDE DEF maps, config, set
<1>5. \A r \in ToSet(set) :
          /\ r.object.version = "v1" /\ r.type # Configuration
          /\ \/ r.object.ns = OauthApiserver
             \/ \E id \in Wanted(src, Needed) :
                   /\ FromGet(src, id, r) /\ r.object.ns = id.ns /\ r.object.name = id.name
  BY <1>1, ReadForSample DEF set
<1>6. ASSUME NEW r \in ToSet(set)
      PROVE  /\ ObjectsOf(FileOf(set, r).content) = FileOf(set, r).content.items
             /\ FileOf(set, r).content.kind = r.object.kind
             /\ FileOf(set, r).path = ListFile(r.object.ns, r.type)
             /\ ToSet(FileOf(set, r).content.items) = {q.object : q \in Alike(set, r)}
  <2>1. /\ ObjectsOf(FileOf(set, r).content) = FileOf(set, r).content.items
        /\ FileOf(set, r).content.kind = r.object.kind
    BY DEF FileOf, ObjectsOf
  <2>2. QED
    BY <1>2, <2>1, FileHolds
<1>7. ASSUME NEW o \in Everywhere(dir) PROVE \E r \in ToSet(set) : r.object = o
  <2>1. PICK i \in 1..3 : \E s \in InformerLists[i] : o \in ToSet(List(dir, s).objects)
    BY <1>7, InputIsListed
  <2>2. PICK s \in InformerLists[i] : o \in ToSet(List(dir, s).objects)
    BY <2>1
  <2>3. s.type # Namespaces
    BY InformersAre
  <2>4. LiesIn(dir, s, o)
    BY <1>1, <2>2, <2>3, ListYields
  <2>5. PICK p \in LookedAt(dir, s) : o \in ToSet(ObjectsOf(dir[p]))
    BY <2>4 DEF LiesIn
  <2>6. PICK q \in ToSet(set) : dir[p] = FileOf(set, q).content
    BY <1>3, <2>5 DEF LookedAt
  <2>7. QED
    BY <1>6, <2>5, <2>6 DEF Alike
<1>8. <<"configmaps", "v1">> \in DOMAIN Discovery /\ <<Configuration, "v1">> \in DOMAIN Discovery
  BY <1>1, <1>4, ListYields
<1>9. ASSUME NEW r \in ToSet(set)
      PROVE  /\ r.object.kind = "ConfigMap" => r.type = "configmaps"
             /\ r.object.kind # "AuthenticationOperator"
  <2>1. ASSUME NEW type, <<type, "v1">> \in DOMAIN Discovery, Discovery[<<type, "v1">>] = r.object.kind
        PROVE  r.type = type
    <3> DEFINE d == <<type, "v1">>
    <3>1. d[1] = type /\ d[2] = r.object.version /\ d \in DOMAIN Discovery /\ Discovery[d] = r.object.kind
      BY <1>5, <2>1
    <3> HIDE DEF d
    <3>2. type \in TypesOf(r.object)
      BY <3>1 DEF TypesOf
    <3>3. QED
      BY <1>1, <3>2 DEF set
  <2>2. QED
    BY <1>5, <1>8, <2>1, DiscoveryAssumption DEF Configuration
<1>10. OperatorConfig(Everywhere(dir)) = {}
  BY <1>7, <1>9 DEF OperatorConfig, Known
<1>11. ASSUME NEW name \in {Foo, FailCheck}, NEW o \in Known(Everywhere(dir), "ConfigMap", Authentication, name)
       PROVE  o \in ToSet(Get(src, MapId(name)).objects)
  <2>1. o \in Everywhere(dir) /\ o.kind = "ConfigMap" /\ o.ns = Authentication /\ o.name = name
    BY <1>11 DEF Known
  <2>2. PICK r \in ToSet(set) : r.object = o
    BY <1>7, <2>1
  <2>3. r.type = "configmaps"
    BY <1>9, <2>1, <2>2
  <2>4. PICK id \in Wanted(src, Needed) : FromGet(src, id, r) /\ r.object.ns = id.ns /\ r.object.name = id.name
    BY <1>5, <2>1, <2>2 DEF Authentication, OauthApiserver
  <2>5. id = MapId(name)
    BY <2>1, <2>2, <2>3, <2>4, WantedIs DEF FromGet, MapId, Id
  <2>6. QED
    BY <2>2, <2>4, <2>5 DEF FromGet
<1>12. ASSUME NEW name \in {Foo, FailCheck}, NEW o \in ToSet(Get(src, MapId(name)).objects)
       PROVE  o \in Known(Everywhere(dir), "ConfigMap", Authentication, name)
  <2> DEFINE r == [type |-> "configmaps", object |-> o]
             f == FileOf(set, r)
             p == ListFile(Authentication, "configmaps")
  <2>1. MapId(name) \in Wanted(src, Needed) /\ MapId(name).type = "configmaps"
        /\ MapId(name).ns = Authentication /\ MapId(name).name = name
    BY NeededIs DEF Wanted, MapId, Id
  <2>2. o.ns = Authentication /\ o.name = name
    BY <1>1, <1>12, <2>1 DEF IsConsistent
  <2>3. r \in ToSet(set)
    BY <1>1, <1>2, <1>12, <2>1, WantedIsFound
  <2>4. r.object = o /\ r.type = "configmaps"
    OBVIOUS
  <2> HIDE DEF r
  <2>5. f.path = p /\ ObjectsOf(f.content) = f.content.items /\ f.content.kind = o.kind
        /\ o \in ToSet(f.content.items)
    BY <1>6, <2>2, <2>3, <2>4 DEF Alike
  <2>6. p \in DOMAIN dir /\ dir[p] = f.content
    BY <1>3, <2>3, <2>5
  <2>7. ToSet(Places(dir, maps.ns)) = {Authentication}
    BY <1>1, <1>4, PlacesHold DEF Authentication, None
  <2>8. p \in LookedAt(dir, maps) /\ p.name = None
    BY <1>4, <2>6, <2>7 DEF LookedAt, ListFile
  <2>9. \A q \in LookedAt(dir, maps) : q.name = None => q = p
    BY <1>1, <1>4, <2>7 DEF LookedAt, ListFile, IsDirectory
  <2> HIDE DEF f, p
  <2>10. HasLists(dir, maps) /\ List(dir, maps).status = "ok"
    BY <1>4, <2>8 DEF HasLists
  <2>11. /\ ToSet(List(dir, maps).objects) =
                UNION {ToSet(ObjectsOf(dir[x])) : x \in {q \in LookedAt(dir, maps) : q.name = None <=> HasLists(dir, maps)}}
         /\ \E x \in LookedAt(dir, maps) : x.name = None /\ dir[x].kind = Discovery[<<maps.type, maps.version>>]
    <3>1. ASSUME NEW s, s = maps
          PROVE  /\ ToSet(List(dir, s).objects) =
                        UNION {ToSet(ObjectsOf(dir[x])) : x \in {q \in LookedAt(dir, s) : q.name = None <=> HasLists(dir, s)}}
                 /\ \E x \in LookedAt(dir, s) : x.name = None /\ dir[x].kind = Discovery[<<s.type, s.version>>]
      <4>1. /\ s.type # Namespaces /\ s.labels = {} /\ s.without = {} /\ List(dir, s).status = "ok"
            /\ HasLists(dir, s)
        BY <1>4, <2>10, <3>1
      <4>2. QED
        BY <1>1, <4>1, ListHas
    <3>2. QED
      BY <3>1
  <2>12. o \in ToSet(List(dir, maps).objects)
    BY <2>5, <2>6, <2>8, <2>10, <2>11
  <2>13. o.kind = "ConfigMap"
    BY <1>4, <2>5, <2>6, <2>9, <2>11, DiscoveryAssumption
  <2>14. o \in Everywhere(dir)
    BY <1>4, <2>12, InputIsListed
  <2>15. QED
    BY <2>2, <2>13, <2>14 DEF Known
<1>13. QED
  BY <1>10, <1>11, <1>12

\* What was listed tells every controller what a get from the must-gather does.
LEMMA DecidesOnFacts ==
    ASSUME SampleInv, \A i \in 1..3 : \A s \in InformerLists[i] : List(directory, s).status = "ok",
           OneStorage(Content[given.source]), NEW c
    PROVE  SyncOf(c, Input) = SyncOf(c, Facts)
<1> DEFINE src == Content[given.source]
           foo == ToSet(Get(src, MapId(Foo)).objects)
           check == ToSet(Get(src, MapId(FailCheck)).objects)
           config == IF given.pruned THEN {} ELSE ToSet(Get(src, ConfigResource(Configuration)).objects)
<1>1. /\ given \in Inputs /\ directory = DirectoryOf(given) /\ Input = Everywhere(directory)
      /\ given.pruned => /\ ~ReadRequired(src, Needed).failed
                         /\ OneVersion(ReadRequired(src, Needed).instances)
  BY DEF SampleInv, SampleTypes, Input
<1>2. /\ \A name \in {Foo, FailCheck} :
            Known(Input, "ConfigMap", Authentication, name) = ToSet(Get(src, MapId(name)).objects)
      /\ OperatorConfig(Input) = config
  <2>1. CASE given.pruned
    <3>1. directory = Pruned(src, Needed)
      BY <1>1, <2>1 DEF DirectoryOf
    <3>2. QED
      BY <1>1, <2>1, <3>1, PrunedIsKnown
  <2>2. CASE ~given.pruned
    <3>1. directory = src
      BY <1>1, <2>2 DEF DirectoryOf
    <3>2. QED
      BY <1>1, <2>2, <3>1, WholeIsKnown
  <2>3. QED
    BY <2>1, <2>2
<1>3. Facts = (foo \cup check) \cup config
  <2>1. Facts = UNION {ToSet(Get(src, id).objects) :
                    id \in {MapId(Foo), MapId(FailCheck)}
                           \cup (IF given.pruned THEN {} ELSE {ConfigResource(Configuration)})}
    BY DEF Facts, MapId, Configuration
  <2>2. QED
    BY <2>1
<1> HIDE DEF src, foo, check, config
<1>4. /\ Known(Input, "ConfigMap", Authentication, Foo) = foo
      /\ Known(Input, "ConfigMap", Authentication, FailCheck) = check
      /\ Known(Input, "AuthenticationOperator", None, Cluster) = config
  BY <1>2 DEF OperatorConfig, foo, check
<1>5. /\ \A o \in foo : o.kind = "ConfigMap" /\ o.ns = Authentication /\ o.name = Foo
      /\ \A o \in check : o.kind = "ConfigMap" /\ o.ns = Authentication /\ o.name = FailCheck
      /\ \A o \in config : o.kind = "AuthenticationOperator" /\ o.ns = None /\ o.name = Cluster
  BY <1>4 DEF Known
<1>6. /\ Known(Facts, "ConfigMap", Authentication, Foo) = foo
      /\ Known(Facts, "ConfigMap", Authentication, FailCheck) = check
      /\ Known(Facts, "AuthenticationOperator", None, Cluster) = config
  BY <1>3, <1>5 DEF Known, Foo, FailCheck
<1>7. /\ FooMap(Input) = FooMap(Facts) /\ OperatorConfig(Input) = OperatorConfig(Facts)
      /\ Known(Input, "ConfigMap", Authentication, FailCheck) = Known(Facts, "ConfigMap", Authentication, FailCheck)
  BY <1>4, <1>6 DEF FooMap, OperatorConfig
<1>8. QED
  BY <1>7 DEF SyncOf, SyncDemo, SyncFailureGenerator, SyncRemoveStaleConditions, SyncResourceSync

\* When RunOnce has returned, the invariant says of every controller that is
\* enabled what DecisionFromMustGather does.
LEMMA DecidedAtTheEnd ==
    ASSUME SampleInv, DecisionInv, Returned, OneStorage(Content[given.source])
    PROVE  LET decided(n) == SyncOf(n, Facts)
               in_time == {n \in ToSet(registered) : IsEnabled(n)} \ late
           IN  /\ ToSet(output) = UNION {ToSet(decided(n).writes) : n \in in_time}
               /\ Cardinality(ToSet(output)) = Len(output)
               /\ \A i \in DOMAIN report :
                     report[i].status = CASE report[i].name \in in_time -> StatusFor(decided(report[i].name).how)
                                          [] report[i].name \in late    -> "Failed"
                                          [] OTHER                      -> "Skipped"
<1> DEFINE decided(n) == SyncOf(n, Facts)
           in_time == {n \in ToSet(registered) : IsEnabled(n)} \ late
<1>1. /\ stage = "returned" /\ running = NoController /\ RunInv
      /\ registered \in Seq(Names) /\ mutations \in Seq(Entry) /\ next \in Nat
      /\ outcome \in [Names -> {"none", "ok", "error", "panic"}]
      /\ next > Len(registered) /\ synced = 1..3
  BY InformersAre DEF Returned, SampleInv, RunInv, LoopTypeOK, Looping, Reporting, DecisionInv, CachesHold
<1>2. \A i \in 1..3 : \A s \in InformerLists[i] : List(directory, s).status = "ok"
  BY <1>1 DEF SampleInv, FilledByLists, Listed
<1>3. \A n : decided(n) = SyncOf(n, Input)
  BY <1>2, DecidesOnFacts
<1>4. \A n \in Names : Ran(n) <=> outcome[n] # "none"
  BY <1>1, NamesAreNames DEF Ran
<1>5. in_time = Settled
  <2>1. ASSUME NEW n \in ToSet(registered), IsEnabled(n) PROVE n \in Names /\ Ran(n)
    <3>1. PICK i \in 1..Len(registered) : registered[i] = n
      BY <1>1 DEF ToSet
    <3>2. i \in 1..(next - 1) /\ n \in Names
      BY <1>1, <3>1
    <3>3. QED
      BY <1>4, <2>1, <3>1, <3>2 DEF DecisionInv, RanInLoop
  <2>2. Settled = {n \in Names : Ran(n) /\ n \notin late}
    BY <1>1, NamesAreNames DEF Settled
  <2>3. QED
    BY <2>1, <2>2 DEF DecisionInv, RanInLoop
<1> HIDE DEF decided, in_time
<1>6. output = mutations
  BY DEF DecisionInv, LogHasTheirs
<1>7. ToSet(output) = UNION {ToSet(decided(n).writes) : n \in in_time}
  BY <1>3, <1>5, <1>6 DEF DecisionInv, LogHasTheirs
<1>8. Cardinality(ToSet(output)) = Len(output)
  <2>1. ~HasDuplicates(mutations)
    BY <1>1 DEF DecisionInv, LogHasTheirs, HasDuplicates
  <2>2. QED
    BY <1>1, <1>6, <2>1, DistinctCount
<1>9. ASSUME NEW i \in DOMAIN report
      PROVE  report[i].status = CASE report[i].name \in in_time -> StatusFor(decided(report[i].name).how)
                                  [] report[i].name \in late    -> "Failed"
                                  [] OTHER                      -> "Skipped"
  <2> DEFINE n == report[i].name
  <2>1. n \in Names /\ report[i].status = StatusOf[outcome[n]]
    <3>1. /\ ToSet(report) = ToSet(results) /\ DOMAIN results = DOMAIN registered
          /\ \A j \in DOMAIN results :
                results[j] = [name |-> registered[j], status |-> StatusOf[outcome[registered[j]]]]
      BY <1>1, ReportOfResults
    <3>2. PICK j \in DOMAIN results : report[i] = results[j]
      BY <3>1 DEF ToSet
    <3>3. registered[j] \in Names
      BY <1>1, <3>1, <3>2
    <3>4. QED
      BY <3>1, <3>2, <3>3
  <2> HIDE DEF n
  <2>2. CASE n \in in_time
    <3>1. outcome[n] = SyncOf(n, Input).how
      BY <1>4, <1>5, <2>1, <2>2 DEF DecisionInv, DoesAsDecided, Settled
    <3>2. decided(n).how \in {"ok", "error"} /\ decided(n) = SyncOf(n, Input)
      BY <1>3, <2>1, NamesAreTheSamples, SyncPlans DEF SampleInv, SampleTypes, Input
    <3>3. StatusOf[outcome[n]] = StatusFor(decided(n).how)
      BY <3>1, <3>2 DEF StatusOf, StatusFor
    <3>4. n \notin late
      BY <1>5, <2>2 DEF Settled
    <3>5. QED
      BY <2>1, <2>2, <3>3, <3>4 DEF n
  <2>3. CASE n \in late
    <3>1. n \notin in_time /\ outcome[n] = "error"
      BY <1>4, <1>5, <2>1, <2>3 DEF DecisionInv, DoesAsDecided, HasRun, Settled
    <3>2. QED
      BY <2>1, <2>3, <3>1 DEF n, StatusOf
  <2>4. CASE n \notin in_time /\ n \notin late
    <3>1. outcome[n] = "none"
      BY <1>1, <1>4, <1>5, <2>1, <2>4, NamesAreNames DEF Settled
    <3>2. QED
      BY <2>1, <2>4, <3>1 DEF n, StatusOf
  <2>5. QED
    BY <2>2, <2>3, <2>4
<1>10. QED
  BY <1>7, <1>8, <1>9 DEF decided, in_time

\* A controller decides from the input alone, whichever have run before it: each
\* ends and writes as what was listed tells it to, unless its deadline is over
\* first, and the log has these writes, each once, and nothing else.
THEOREM DecidesAlone == SampleSpec => []DecisionInv
<1>1. QED
  BY DecisionInit, DecisionStep, SampleInvariant, PTL DEF SampleSpec

\* DecisionFromMustGather: whatever the order of the controllers, whether the
\* must-gather is whole or pruned, and whichever deadlines pass, the output has
\* the writes that its objects call for, each once, and the report the outcomes.
THEOREM DecidedFromInput == SampleSpec => []DecisionFromMustGather
<1>1. SampleInv /\ DecisionInv => DecisionFromMustGather
  BY DecidedAtTheEnd DEF DecisionFromMustGather
<1>2. QED
  BY <1>1, SampleInvariant, DecidesAlone, PTL

=============================================================================
