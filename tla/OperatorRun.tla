----------------------------- MODULE OperatorRun -----------------------------
(***************************************************************************)
(* One execution of SimpleOperatorStarter.RunOnce: start the informers,    *)
(* wait for their caches, check the registered controllers and the         *)
(* --controllers flag, run every enabled controller once in a random       *)
(* order, report on each and return what they wrote                        *)
(* (libraryapplyconfiguration/operator_launch_helpers.go).                 *)
(*                                                                         *)
(* The controllers are code of the operator, not of this repository: while *)
(* one runs it may write, leave goroutines behind whose writes arrive at   *)
(* any later time, return, fail, panic, or never come back.  A write is    *)
(* atomic here: MutationTracker implements the atomic log this module uses *)
(* as the sequence mutations.                                              *)
(***************************************************************************)
EXTENDS Naturals, FiniteSets, SequencesExt

CONSTANTS
    Registrations,   \* lists of controller names an operator may register
    FlagLists,       \* values the --controllers flag may have
    NumInformers,    \* informer factories of the operator
    Write,           \* what a controller may write
    MaxWrites        \* bound: writes a behaviour begins

\* Controllers are named by positive numbers in the order in which
\* strings.Compare orders their names.  NoController is the empty name, which
\* requests carry whose context is not the controller's.
NoController == 0

ASSUME RegistrationAssumption == Registrations \subseteq Seq(Nat \ {NoController})

\* An element of the flag: "*", a name, or a name to leave out.
Star == [kind |-> "*", name |-> NoController]
On(name) == [kind |-> "on", name |-> name]
Off(name) == [kind |-> "off", name |-> name]

ASSUME FlagAssumption ==
    FlagLists \subseteq Seq({Star} \cup [kind: {"on", "off"}, name: Nat])
ASSUME BoundAssumption == NumInformers \in Nat /\ MaxWrites \in Nat

VARIABLES
    registered,      \* ControllerNamedRunOnceFns
    flags,           \* input.Controllers
    stage,           \* "informers", "running" or "returned"
    started,         \* informers started, in the order of the list
    synced,          \* informers whose cache is filled
    waited,          \* informers whose WaitForCacheSync has returned
    next,            \* index of the next controller of the loop
    running,         \* the controller in its RunOnce, or NoController
    expired,         \* its one-second context is over
    results,         \* ControllerResults
    failed,          \* the controllers errs has an error of
    mutations,       \* the log of the mutation tracker
    inFlight,        \* requests of goroutines on their way to the tracker
    begun,           \* writes begun so far (for MaxWrites)
    report, output,  \* the results and mutations RunOnce returns
    rejected,        \* RunOnce returned nil, nil and an error
    outcome,         \* how each controller's RunOnce ended (history)
    acked            \* the writes controllers saw succeed, and where (history)

informerVars == <<started, synced, waited>>
loopVars == <<next, running, expired, results, failed, outcome>>
writeVars == <<mutations, inFlight, begun, acked>>
returnVars == <<report, output, rejected>>
vars == <<registered, flags, stage, informerVars, loopVars, writeVars, returnVars>>

Names == UNION {ToSet(r) : r \in Registrations}
Status == {"Unknown", "Succeeded", "Skipped", "Failed", "Panicked"}
Entry == [controller: Names \cup {NoController}, write: Write]
Result == [name: Names, status: Status]

LoopTypeOK ==
    /\ registered \in Seq(Names)
    /\ flags \in FlagLists
    /\ stage \in {"informers", "running", "returned"}
    /\ started \in 0..NumInformers /\ synced \subseteq 1..NumInformers /\ waited \in 0..NumInformers
    /\ next \in Nat \ {0}
    /\ running \in Names \cup {NoController}
    /\ expired \in BOOLEAN
    /\ results \in Seq(Result)
    /\ failed \subseteq Names
    /\ mutations \in Seq(Entry)
    /\ inFlight \subseteq Entry
    /\ begun \in 0..MaxWrites
    /\ output \in Seq(Entry)
    /\ rejected \in BOOLEAN
    /\ outcome \in [Names -> {"none", "ok", "error", "panic"}]
    /\ acked \subseteq [at: Nat, entry: Entry]

TypeOK == LoopTypeOK /\ report \in Seq(Result)

Init ==
    /\ registered \in Registrations
    /\ flags \in FlagLists
    /\ stage = "informers"
    /\ started = 0 /\ synced = {} /\ waited = 0
    /\ next = 1 /\ running = NoController /\ expired = FALSE
    /\ results = <<>> /\ failed = {}
    /\ mutations = <<>> /\ inFlight = {} /\ begun = 0
    /\ report = <<>> /\ output = <<>> /\ rejected = FALSE
    /\ outcome = [n \in Names |-> "none"]
    /\ acked = {}

-----------------------------------------------------------------------------
(* Informers.                                                              *)

StartInformer ==
    /\ stage = "informers"
    /\ started < NumInformers
    /\ started' = started + 1
    /\ UNCHANGED <<registered, flags, stage, synced, waited, loopVars, writeVars, returnVars>>

\* The reflector of a started informer fills its cache.
CacheSyncs(i) ==
    /\ i <= started
    /\ i \notin synced
    /\ synced' = synced \cup {i}
    /\ UNCHANGED <<registered, flags, stage, started, waited, loopVars, writeVars, returnVars>>

\* The context is never cancelled while the command runs, so
\* WaitForCacheSync returns only when the cache is filled.
WaitForCacheSync ==
    /\ stage = "informers"
    /\ started = NumInformers
    /\ waited < NumInformers
    /\ waited + 1 \in synced
    /\ waited' = waited + 1
    /\ UNCHANGED <<registered, flags, stage, started, synced, loopVars, writeVars, returnVars>>

(* Checks before any controller runs.                                      *)

HasDuplicates(names) == \E i, j \in DOMAIN names : i < j /\ names[i] = names[j]

\* validateControllersFromFlags: every name of the flag is a registered one.
FlagsAreKnown(names) == \A i \in DOMAIN flags : flags[i].kind # "*" => flags[i].name \in ToSet(names)

\* Variant: the informers have been started, nothing more.
InformersStarted == stage = "informers" /\ started = NumInformers

CachesReady == stage = "informers" /\ waited = NumInformers /\ started = NumInformers

Reject ==
    /\ CachesReady
    /\ HasDuplicates(registered) \/ ~FlagsAreKnown(registered)
    /\ rejected' = TRUE
    /\ stage' = "returned"
    /\ UNCHANGED <<registered, flags, informerVars, loopVars, writeVars, report, output>>

\* rand.Shuffle: any order of the registered controllers, in place.
Shuffle(names) ==
    {[i \in DOMAIN names |-> names[f[i]]] : f \in Bijection(DOMAIN names, DOMAIN names)}

StartLoop ==
    /\ CachesReady
    /\ ~HasDuplicates(registered)
    /\ FlagsAreKnown(registered)
    /\ registered' \in Shuffle(registered)
    /\ stage' = "running"
    /\ UNCHANGED <<flags, informerVars, loopVars, writeVars, returnVars>>

-----------------------------------------------------------------------------
(* The loop over the controllers.                                          *)

\* Variant: "*" is looked at first.
IsEnabledByStar(name) == Star \in ToSet(flags) \/ On(name) \in ToSet(flags)

\* isControllerEnabled: the first element that names the controller decides,
\* and "*" stands for all that none names.
Mentions(flag, name) == flag.kind # "*" /\ flag.name = name
IsEnabled(name) ==
    \/ \E i \in DOMAIN flags : flags[i] = On(name) /\ \A j \in 1..(i - 1) : ~Mentions(flags[j], name)
    \/ Star \in ToSet(flags) /\ \A i \in DOMAIN flags : ~Mentions(flags[i], name)

InLoop == stage = "running" /\ running = NoController /\ next <= Len(registered)

SkipController ==
    /\ InLoop
    /\ ~IsEnabled(registered[next])
    /\ results' = Append(results, [name |-> registered[next], status |-> "Skipped"])
    /\ next' = next + 1
    /\ UNCHANGED <<registered, flags, stage, informerVars, running, expired, failed, outcome,
                   writeVars, returnVars>>

BeginController ==
    /\ InLoop
    /\ IsEnabled(registered[next])
    /\ running' = registered[next]
    /\ expired' = FALSE
    /\ UNCHANGED <<registered, flags, stage, informerVars, next, results, failed, outcome,
                   writeVars, returnVars>>

\* Variant: the controller is given a context without a timeout.
NoDeadline == FALSE

\* The one-second timeout of localCtx.  It interrupts nothing by itself.
Deadline ==
    /\ running # NoController
    /\ ~expired
    /\ expired' = TRUE
    /\ UNCHANGED <<registered, flags, stage, informerVars, next, running, results, failed, outcome,
                   writeVars, returnVars>>

\* The contexts a running controller's requests can have: its own until the
\* deadline, and that of an event recorder, which names no controller.
LiveContexts == {NoController} \cup (IF expired THEN {} ELSE {running})

\* A write the controller waits for.
SyncWrite(c, w) ==
    /\ running # NoController
    /\ c \in LiveContexts
    /\ begun < MaxWrites
    /\ begun' = begun + 1
    /\ LET entry == [controller |-> c, write |-> w] IN
           /\ mutations' = Append(mutations, entry)
           /\ acked' = acked \cup {[at |-> Len(mutations) + 1, entry |-> entry]}
    /\ UNCHANGED <<registered, flags, stage, informerVars, loopVars, inFlight, returnVars>>

\* A write that the controller leaves to a goroutine.  Its context is looked
\* at only when the request is built (client-go's withRetry.Before), so the
\* request can reach the tracker after the controller has returned.
SpawnWrite(c, w) ==
    /\ running # NoController
    /\ c \in LiveContexts
    /\ begun < MaxWrites
    /\ begun' = begun + 1
    /\ inFlight' = inFlight \cup {[controller |-> c, write |-> w]}
    /\ UNCHANGED <<registered, flags, stage, informerVars, loopVars, mutations, acked, returnVars>>

\* Variants: a late write replaces the last one, and the returned mutations
\* share the tracker's lists.
ReplacesLast(e) ==
    /\ e \in inFlight
    /\ inFlight' = inFlight \ {e}
    /\ mutations' = IF mutations = <<>> THEN <<e>> ELSE [mutations EXCEPT ![Len(mutations)] = e]
    /\ UNCHANGED <<registered, flags, stage, informerVars, loopVars, begun, acked, returnVars>>
RecordsInShared(e) ==
    /\ e \in inFlight
    /\ inFlight' = inFlight \ {e}
    /\ mutations' = Append(mutations, e)
    /\ output' = IF stage = "returned" THEN mutations' ELSE output
    /\ UNCHANGED <<registered, flags, stage, informerVars, loopVars, begun, acked, report, rejected>>

GoroutineRecords(e) ==
    /\ e \in inFlight
    /\ inFlight' = inFlight \ {e}
    /\ mutations' = Append(mutations, e)
    /\ UNCHANGED <<registered, flags, stage, informerVars, loopVars, begun, acked, returnVars>>

\* Variants: the status a panic leaves is the one set before the controller
\* was called, or none at all.
StatusBeforePanic(how) == IF how = "error" THEN "Failed" ELSE "Succeeded"
NoStatusForPanic(how) == IF how = "panic" THEN "" ELSE IF how = "error" THEN "Failed" ELSE "Succeeded"

StatusFor(how) == CASE how = "ok" -> "Succeeded" [] how = "error" -> "Failed" [] how = "panic" -> "Panicked"

\* The controller's RunOnce ends; the deferred function reports on it.  Only
\* an error is added to errs, a panic is not.
ControllerEnds(how) ==
    /\ running # NoController
    /\ results' = Append(results, [name |-> running, status |-> StatusFor(how)])
    /\ failed' = IF how = "error" THEN failed \cup {running} ELSE failed
    /\ outcome' = [outcome EXCEPT ![running] = how]
    /\ running' = NoController
    /\ next' = next + 1
    /\ UNCHANGED <<registered, flags, stage, informerVars, expired, writeVars, returnVars>>

\* Variant: the results stay in the order of the shuffle.
AsRun(rs) == rs

\* CanonicalizeApplyConfigurationRunResult: in place i the result before which
\* i - 1 others come.  The names are distinct, so the comparison never gets to
\* the status.
Before(rs, r) == {q \in ToSet(rs) : q.name < r.name}
Canonical(rs) == [i \in DOMAIN rs |-> CHOOSE r \in ToSet(rs) : Cardinality(Before(rs, r)) = i - 1]

\* Sort the results, take GetMutations' deep copy, join the errors.
ReturnResults ==
    /\ stage = "running"
    /\ running = NoController
    /\ next > Len(registered)
    /\ report' = Canonical(results)
    /\ output' = mutations
    /\ stage' = "returned"
    /\ UNCHANGED <<registered, flags, informerVars, loopVars, writeVars, rejected>>

Finished == stage = "returned" /\ inFlight = {} /\ synced = 1..started /\ UNCHANGED vars

Loop == SkipController \/ BeginController \/ ReturnResults
Controller == \/ \E c \in Names \cup {NoController}, w \in Write : SyncWrite(c, w) \/ SpawnWrite(c, w)
              \/ \E how \in {"ok", "error", "panic"} : ControllerEnds(how)

Next == \/ StartInformer \/ WaitForCacheSync \/ Reject \/ StartLoop
        \/ \E i \in 1..NumInformers : CacheSyncs(i)
        \/ Loop \/ Deadline \/ Controller
        \/ \E e \in inFlight : GoroutineRecords(e)
        \/ Finished

Spec == Init /\ [][Next]_vars

\* The goroutine of RunOnce keeps running; the timer fires.  Nothing makes a
\* cache fill: a reflector whose list fails tries again and again.
RunOnceFairness ==
    /\ WF_vars(StartInformer \/ WaitForCacheSync \/ Reject \/ StartLoop \/ Loop)
    /\ WF_vars(Deadline)

FairSpec == Spec /\ RunOnceFairness

-----------------------------------------------------------------------------

Returned == stage = "returned" /\ ~rejected

\* The report has exactly one result per registered controller, in the order
\* of the names, whatever the order they ran in and however they ended.
ReportIsComplete ==
    Returned => /\ {report[i].name : i \in DOMAIN report} = ToSet(registered)
                /\ \A i, j \in DOMAIN report : i < j => report[i].name < report[j].name

\* The report and the errors tell of each controller what happened to it: a
\* controller that did not run is Skipped, an error is reported and returned,
\* a panic of one controller is reported and stops no other.
StatusOf == [none |-> "Skipped", ok |-> "Succeeded", error |-> "Failed", panic |-> "Panicked"]
ReportTellsOutcome ==
    Returned => /\ \A i \in DOMAIN report : report[i].status = StatusOf[outcome[report[i].name]]
                /\ failed = {n \in Names : outcome[n] = "error"}

\* Neither a controller that the flag disables nor any controller of a rejected
\* run ever runs or leaves a mutation under its name.
Ran(n) == running = n \/ outcome[n] # "none"
Allowed(n) == /\ On(n) \in ToSet(flags) \/ (Star \in ToSet(flags) /\ Off(n) \notin ToSet(flags))
              /\ Cardinality(ToSet(registered)) = Len(registered)
              /\ \A flag \in ToSet(flags) \ {Star} : flag.name \in ToSet(registered)
OnlyEnabledRun ==
    /\ \A n \in Names : Ran(n) => Allowed(n)
    /\ \A i \in DOMAIN mutations :
           mutations[i].controller # NoController => Ran(mutations[i].controller)

\* "wait for sync so that when NamedRunOnce is called the listers will be
\* ready" (operator_launch_helpers.go:44): no controller reads a cache that is
\* still being filled.
ListersAreReady == running # NoController => synced = 1..NumInformers

\* Every write that a controller saw succeed is in the mutations RunOnce
\* returns, at its place in the log, whatever goroutines write meanwhile.
SyncWritesAreReturned ==
    Returned => \A a \in acked : a.at \in DOMAIN output /\ output[a.at] = a.entry

\* What RunOnce has returned does not change any more, although goroutines
\* that controllers left behind still write to the tracker.
ReturnedIsFrozen == [][stage = "returned" => UNCHANGED <<report, output, failed, rejected>>]_vars

\* RunOnce returns if the controllers honour their deadline - none runs for ever
\* with its context over - or else hangs in the wait for one cache that is never
\* filled ("TODO add timeout", operator_launch_helpers.go:45), for which neither
\* controllers nor flags are to blame.  The code does not enforce the deadline,
\* so it is a premise and no fairness of the specification.
HonoursDeadline == []<>~(running # NoController /\ expired)
WaitsForCache == /\ stage = "informers" /\ started = NumInformers
                 /\ waited < NumInformers /\ waited + 1 \notin synced
RunOnceReturns == HonoursDeadline => <>(stage = "returned") \/ <>[]WaitsForCache

=============================================================================
