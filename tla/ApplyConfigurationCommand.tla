---------------------- MODULE ApplyConfigurationCommand ----------------------
(***************************************************************************)
(* The apply-configuration command: applyConfigurationOptions.Run          *)
(* (libraryapplyconfiguration/options.go) around RunOnce.  It makes the    *)
(* output directory, asks for the output resources the operator declares,  *)
(* runs the controllers (OperatorRun), validates and filters their         *)
(* mutations, writes the directory of each cluster type, that of the       *)
(* unspecified mutations and the controller results, and exits.            *)
(*                                                                         *)
(* The process may be killed between any two steps or in the middle of     *)
(* writing a file (the test harness kills it after five seconds), and      *)
(* writing a file may fail.  A file is written in one step; a truncated    *)
(* one is what a kill or a failure may leave of it.                        *)
(***************************************************************************)
EXTENDS OperatorRun, MutationFilter, OutputDirectory

CONSTANTS
    OutputResources,   \* what outputResourcesFn may declare
    Leftovers,         \* what the output directory may hold when Run begins
    MaxFaults          \* bound: failing file operations of a behaviour

\* A path is a record with these fields.
PathFields == {"dir", "action", "ns", "resource", "prefix", "base", "file"}
Directory == ClusterType \cup {"Unspecified"}
IsOutputPath(p) ==
    p = ResultsFile \/ (p = [field \in PathFields |-> p[field]] /\ p.dir \in Directory)

ASSUME CommandAssumption ==
    /\ MaxFaults \in Nat
    /\ \A left \in Leftovers : \A p \in DOMAIN left : IsOutputPath(p)
    /\ \A w \in Write : Accepted(w) /\ w.body # Truncated
    /\ \A o \in OutputResources : DOMAIN o = ClusterType

\* A pointer that is nil.
Nil == [nil |-> TRUE]

VARIABLES
    step,        \* where Run is
    allowed,     \* allAllowedOutputResources
    errs,        \* the kinds of errors Run has collected
    before,      \* the files the output directory had before
    written,     \* the files this run has written, whole or truncated
    todo,        \* requests still to be written: [dir, req]
    writing,     \* files of the current request still to be written
    faults,      \* failures so far (for MaxFaults)
    exit         \* "none" while the process lives

cmdVars == <<step, allowed, errs, before, written, todo, writing, faults, exit>>
allVars == <<vars, cmdVars>>

\* The output directory: Run makes it unless it is there, and empties nothing,
\* so that a file stays what an earlier run made it until it is written again.
files == [p \in DOMAIN before \cup DOMAIN written |->
             IF p \in DOMAIN written THEN written[p] ELSE before[p]]

Step == {"mkdir", "resources", "apply", "check", "write", "results", "done", "exit"}
ErrorKind == {"mkdir", "resources", "controllers", "unspecified", "write"}

\* The request the tracker stores for a write of a controller.
RequestOf(entry) == [Serialize(entry.write) EXCEPT !.controller = entry.controller]

CmdTypeOK ==
    /\ TypeOK
    /\ step \in Step
    /\ allowed \in OutputResources \cup {Nil}
    /\ errs \subseteq ErrorKind
    /\ before \in Leftovers
    /\ \A p \in DOMAIN written : IsOutputPath(p)
    /\ \A i \in DOMAIN todo : todo[i].dir \in Directory
    /\ Len(writing) <= 3
    /\ faults \in 0..MaxFaults
    /\ exit \in {"none", "ok", "error", "panic", "killed"}

CmdInit ==
    /\ Init
    /\ step = "mkdir"
    /\ allowed = Nil
    /\ errs = {}
    /\ before \in Leftovers /\ written = <<>>
    /\ todo = <<>> /\ writing = <<>>
    /\ faults = 0
    /\ exit = "none"

Alive == exit = "none"

-----------------------------------------------------------------------------

MakeOutputDirectory ==
    /\ Alive /\ step = "mkdir"
    /\ \/ /\ step' = "resources"
          /\ UNCHANGED <<errs, faults, exit>>
       \/ /\ faults < MaxFaults
          /\ faults' = faults + 1
          /\ errs' = {"mkdir"}
          /\ step' = "exit" /\ exit' = "error"
    /\ UNCHANGED <<vars, allowed, before, written, todo, writing>>

\* outputResourcesFn returns the declared resources, or nil and an error.
GetOutputResources ==
    /\ Alive /\ step = "resources"
    /\ \/ allowed' \in OutputResources /\ UNCHANGED <<errs, faults>>
       \/ /\ faults < MaxFaults
          /\ faults' = faults + 1
          /\ errs' = errs \cup {"resources"}
          /\ UNCHANGED allowed
    /\ step' = "apply"
    /\ UNCHANGED <<vars, before, written, todo, writing, exit>>

\* applyConfigurationFn, a step of RunOnce at a time.  The goroutines that
\* controllers left behind go on until the process ends.
RunOnceStep ==
    /\ Alive
    /\ \/ step = "apply"
       \/ step \in {"check", "write", "results", "done"} /\ \E e \in inFlight : GoroutineRecords(e)
    /\ Next
    /\ vars' # vars
    /\ UNCHANGED cmdVars

RunOnceDone ==
    /\ Alive /\ step = "apply"
    /\ stage = "returned"
    /\ errs' = IF rejected \/ failed # {} THEN errs \cup {"controllers"} ELSE errs
    /\ step' = "check"
    /\ UNCHANGED <<vars, allowed, before, written, todo, writing, faults, exit>>

\* UnspecifiedOutputResources is called before anything is checked: nil
\* mutations or nil output resources are dereferenced.
PanicOnNil ==
    /\ Alive /\ step = "check"
    /\ rejected \/ allowed = Nil
    /\ step' = "exit" /\ exit' = "panic"
    /\ UNCHANGED <<vars, allowed, errs, before, written, todo, writing, faults>>

-----------------------------------------------------------------------------

\* The raw mutations, in the order of the tracker's lists.
Mutations == [i \in DOMAIN output |-> RequestOf(output[i])]
Views == FilterAll(SameView(ToSet(Mutations)), allowed)
UnspecifiedMutations == Unspecified(SameView(ToSet(Mutations)), allowed)

\* Variant: only what passed the filters is validated.
FilteredIsSpecified == IsValid(Views, allowed)

\* "also validate the raw results because filtering may have eliminated "bad"
\* output."
AllIsSpecified == IsValid(SameView(ToSet(Mutations)), allowed) /\ IsValid(Views, allowed)

\* Where the mutations are that a set of requests consists of.
Places(requests) == {i \in DOMAIN Mutations : Mutations[i] \in requests}

\* AllRequests: the lists of the actions one after the other, the actions in
\* the order of a Go map.
ActionsTogether(order) ==
    \A i, j \in DOMAIN order :
        i < j /\ Mutations[order[i]].action = Mutations[order[j]].action =>
            /\ order[i] < order[j]
            /\ \A k \in i..j : Mutations[order[k]].action = Mutations[order[i]].action
Listings(requests) ==
    LET places == 1..Cardinality(Places(requests))
    IN  {[i \in places |-> Mutations[order[i]]] :
            order \in {f \in Bijection(places, Places(requests)) : ActionsTogether(f)}}

\* Variant: the name of the cluster type is left out.
InNoDirectory(dir, reqs) == [i \in DOMAIN reqs |-> [dir |-> "", req |-> reqs[i]]]

InDirectory(dir, reqs) == [i \in DOMAIN reqs |-> [dir |-> dir, req |-> reqs[i]]]

\* Validate the raw mutations, filter them, and go on to write: the three
\* cluster types in order, then the unspecified mutations, if any, which
\* UnspecifiedOutputResources lists once per cluster type.
ValidateAndFilter ==
    /\ Alive /\ step = "check"
    /\ ~rejected /\ allowed # Nil
    /\ errs' = IF AllIsSpecified THEN errs ELSE errs \cup {"unspecified"}
    /\ \E c \in Listings(Views["Configuration"]),
          m \in Listings(Views["Management"]),
          u \in Listings(Views["UserWorkload"]),
          x, y, z \in Listings(UnspecifiedMutations) :
          todo' = InDirectory("Configuration", c) \o InDirectory("Management", m)
                  \o InDirectory("UserWorkload", u) \o InDirectory("Unspecified", x \o y \o z)
    /\ step' = "write"
    /\ UNCHANGED <<vars, allowed, before, written, writing, faults, exit>>

\* The next request: its parent directory is made, or the request is left out.
NextRequest ==
    /\ Alive /\ step = "write"
    /\ writing = <<>> /\ todo # <<>>
    /\ todo' = Tail(todo)
    /\ \/ /\ writing' = FilesOf(Head(todo).dir, Head(todo).req)
          /\ UNCHANGED <<errs, faults>>
       \/ /\ faults < MaxFaults
          /\ faults' = faults + 1
          /\ errs' = errs \cup {"write"}
          /\ UNCHANGED writing
    /\ UNCHANGED <<vars, step, allowed, before, written, exit>>

\* A file is written, or not at all, or truncated; either way the next follows.
WriteNextFile ==
    /\ Alive /\ step = "write"
    /\ writing # <<>>
    /\ writing' = Tail(writing)
    /\ \/ /\ written' = WriteFile(written, Head(writing).path, Head(writing).content)
          /\ UNCHANGED <<errs, faults>>
       \/ /\ faults < MaxFaults
          /\ faults' = faults + 1
          /\ errs' = errs \cup {"write"}
          /\ written' \in {written, WriteFile(written, Head(writing).path, Truncated)}
    /\ UNCHANGED <<vars, step, allowed, before, todo, exit>>

\* Variant: the results are written while the last request's files are not.
AllBegun ==
    /\ Alive /\ step = "write"
    /\ todo = <<>>
    /\ step' = "results"
    /\ UNCHANGED <<vars, allowed, errs, before, written, todo, writing, faults, exit>>

AllWritten ==
    /\ Alive /\ step = "write"
    /\ todo = <<>> /\ writing = <<>>
    /\ step' = "results"
    /\ UNCHANGED <<vars, allowed, errs, before, written, todo, writing, faults, exit>>

\* controller-results.yaml is the last file.
WriteResults ==
    /\ Alive /\ step = "results"
    /\ \/ /\ written' = WriteFile(written, ResultsFile, [results |-> report])
          /\ UNCHANGED <<errs, faults>>
       \/ /\ faults < MaxFaults
          /\ faults' = faults + 1
          /\ errs' = errs \cup {"write"}
          /\ written' \in {written, WriteFile(written, ResultsFile, Truncated)}
    /\ step' = "done"
    /\ UNCHANGED <<vars, allowed, before, todo, writing, exit>>

\* Variant: an error of writing is only logged.
ExitUnlessRunFailed ==
    /\ Alive /\ step = "done"
    /\ step' = "exit"
    /\ exit' = IF errs \subseteq {"write"} THEN "ok" ELSE "error"
    /\ UNCHANGED <<vars, allowed, errs, before, written, todo, writing, faults>>

\* The process exits, with the error of everything that went wrong.
Exit ==
    /\ Alive /\ step = "done"
    /\ step' = "exit"
    /\ exit' = IF errs = {} THEN "ok" ELSE "error"
    /\ UNCHANGED <<vars, allowed, errs, before, written, todo, writing, faults>>

\* SIGKILL, possibly while a file is being written.
Kill ==
    /\ Alive
    /\ exit' = "killed"
    /\ written' \in {written}
         \cup (IF step = "write" /\ writing # <<>>
               THEN {WriteFile(written, Head(writing).path, Truncated)} ELSE {})
         \cup (IF step = "results" THEN {WriteFile(written, ResultsFile, Truncated)} ELSE {})
    /\ UNCHANGED <<vars, step, allowed, errs, before, todo, writing, faults>>

Exited == ~Alive /\ UNCHANGED allVars

CmdStep == \/ MakeOutputDirectory \/ GetOutputResources \/ RunOnceDone \/ PanicOnNil
           \/ ValidateAndFilter \/ NextRequest \/ WriteNextFile \/ AllWritten
           \/ WriteResults \/ Exit

CmdNext == CmdStep \/ RunOnceStep \/ Kill \/ Exited

CmdSpec == CmdInit /\ [][CmdNext]_allVars

\* The process runs until it exits or is killed, and its timers fire.  Nothing
\* makes an informer fill its cache, a controller write or come back, or the
\* process be killed.
InRunOnce == Alive /\ step = "apply" /\ UNCHANGED cmdVars

CmdFairness ==
    /\ WF_allVars(\/ CmdStep
                  \/ InRunOnce /\ (StartInformer \/ WaitForCacheSync \/ Reject \/ StartLoop \/ Loop))
    /\ WF_allVars(InRunOnce /\ Deadline)

FairCmdSpec == CmdSpec /\ CmdFairness

-----------------------------------------------------------------------------
(* Properties.                                                             *)

\* Two requests that a directory can tell apart: they differ in the action, in
\* what the file system sees of the object, or in the hash of the content.
Apart(r, s) == \/ r.action # s.action \/ r.resource # s.resource
               \/ SafeName[r.ns] # SafeName[s.ns] \/ BaseName(r) # BaseName(s)
               \/ Prefix(r) # Prefix(s)
AllApart == \A r, s \in ToSet(Mutations) : r # s => Apart(r, s)

FilesIn(dir) == {p \in DOMAIN files : p.dir = dir}

\* This run has written its results.  (Those of an earlier run, in a directory
\* that was not emptied, are no sign of anything.)
HasResults == ResultsFile \in DOMAIN written /\ written[ResultsFile] # Truncated

\* What is in a file is of an earlier run.
Kept(p) == p \in DOMAIN before /\ p \notin DOMAIN written

\* Exit status 0 is a promise about the whole run: no controller failed, the
\* results are there and are those of this run, whatever was there before, and
\* every mutation the run returned went to a cluster type - none was dropped by
\* the filters or put aside as unspecified; a file among the unspecified ones
\* can only be of an earlier run.
ExitOkMeansComplete ==
    exit = "ok" => /\ failed = {}
                   /\ ResultsFile \in DOMAIN files /\ files[ResultsFile] = [results |-> report]
                   /\ UNION {Views[ct] : ct \in ClusterType} = ToSet(Mutations)
                   /\ \A p \in FilesIn("Unspecified") : Kept(p)

\* A directory stands for a set of mutations if what is read back from it are
\* these and, untouched, those bodies of earlier runs that share no file with
\* them.  But an options file that was at the place of a mutation without
\* options is taken for its own; and a directory in which a name looks like that
\* of a body file, or in which an earlier run left half a mutation, cannot be
\* read at all, although "not all file are body files, so those can be nil"
\* (mutation_directory_reader.go:80).
StaleBodies(dir, requests) ==
    {p \in BodyPaths(before, dir) : \A r \in requests : p # PathOf(dir, r, "body")}
AsRead(dir, r) ==
    [r EXCEPT !.options = IF @ = Empty THEN ReadOptions(before, PathOf(dir, r, "options")) ELSE @]
StandsFor(dir, requests) ==
    LET stale == StaleBodies(dir, requests) IN
    /\ ReadsBack(files, dir) <=> /\ \A r \in requests : ToSet(BaseName(r)) \cap BodyLike = {}
                                 /\ \A p \in stale : Readable(before, p)
    /\ ReadsBack(files, dir) =>
          ReadRequests(files, dir) = {AsRead(dir, r) : r \in requests} \cup {FileRequest(before, p) : p \in stale}

\* The results file is written last.  Once a run has written it as a whole, and
\* nothing failed to be written - even if the process is killed afterwards, and
\* whatever else went wrong - each directory stands for the mutations of its
\* cluster type, and the directory Unspecified for the rest.
ResultsMeanAllIsWritten ==
    HasResults /\ "write" \notin errs /\ AllApart =>
        /\ \A ct \in ClusterType : StandsFor(ct, Views[ct])
        /\ StandsFor("Unspecified", UnspecifiedMutations)

\* Killed at any moment, over whatever an earlier run left: the command leaves
\* no metadata next to a body of another request.  Leaving options and truncated
\* files aside, what can be read of a directory was there before as a whole, or
\* is a mutation this run returned, at its own place, of which what this run has
\* not written yet was there before.  (A truncated metadata file beside a good
\* body is possible: of a mutation that is written a second time, as those of
\* the directory Unspecified always are.)
WholeFile(p) == p \in DOMAIN files /\ files[p] # Truncated
PartialOutputIsGenuine ==
    AllApart =>
        \A dir \in Directory : \A p \in BodyPaths(files, dir) :
            LET m == At(p, "metadata") IN
            Readable(files, p) /\ WholeFile(p) /\ WholeFile(m) =>
                \/ Kept(p) /\ Kept(m)
                \/ \E r \in ToSet(Mutations) :
                      /\ p = PathOf(dir, r, "body")
                      /\ Kept(p) \/ files[p] = r.body
                      /\ Kept(m) \/ files[m] = Metadata(r)

\* Whatever this run has written to the directory of a cluster type, at any
\* moment: an object in a body there is one the output resources declare for
\* that cluster type - judged by the object itself, not by the URL it was sent
\* to.
Declares(list, resource, object) ==
    \/ resource \in EventResource /\ object.ns \in list.eventing
    \/ [resource |-> resource, ns |-> object.ns, name |-> object.name] \in list.exact
    \/ [resource |-> resource, ns |-> object.ns, generatedName |-> object.generateName] \in list.generated

OnlyDeclaredObjects ==
    \A ct \in ClusterType : \A p \in BodyPaths(files, ct) :
        Readable(files, p) /\ HasObjectBody(p.action) /\ p.action # "Delete" /\ files[p] # Truncated
        => Kept(p) \/ Declares(allowed[ct], p.resource, files[p])

\* The command is, for the process that runs it, one that decides, writes what
\* it decided file after file with the results last, and exits with 0 only if
\* it left nothing out.  The harness of the tests relies on no more.
FilesOfAll(jobs) == FlattenSeq([i \in DOMAIN jobs |-> FilesOf(jobs[i].dir, jobs[i].req)])
Unwritten == IF step \notin {"write", "results"} THEN <<>>
             ELSE writing \o FilesOfAll(todo) \o <<[path |-> ResultsFile, content |-> [results |-> report]]>>
ProcessStatus == CASE exit = "ok"                  -> "zero"
                   [] exit \in {"error", "panic"} -> "nonzero"
                   [] exit = "killed"              -> "killed"
                   [] OTHER -> IF step \in {"write", "results", "done"} THEN "writing" ELSE "starting"
Process == INSTANCE CommandProcess WITH
    out <- files, pending <- Unwritten, clean <- "write" \notin errs, status <- ProcessStatus
ImplementsProcess == Process!ProcessSpec

\* The process comes to an end, by itself, if its controllers honour their
\* deadline, or else waits for ever for the cache of an informer: no failure of
\* a file operation, and nothing an earlier run left, makes it wait or start over.
CommandEnds == HonoursDeadline => \/ <>~Alive
                                  \/ <>[](Alive /\ step = "apply" /\ WaitsForCache)

-----------------------------------------------------------------------------
(* What comments of the code say and the code does not do.                 *)

\* "applyConfiguration is required" (apply_configuration.go:68): nil mutations
\* are an error of the command.
NeverPanics == exit # "panic"

\* "all mutations are stored and it's up to the caller to decide what to do"
\* (write_roundtripper.go:24), in files whose hash is there "to deconflict
\* filenames" (serialized_request.go:325): nothing is lost on the way to disk.
AllMutationsAreStored ==
    exit = "ok" => \A ct \in ClusterType : Views[ct] \subseteq ReadRequests(files, ct)

\* generatedNameResources "are also honored on non-creates, via prefix
\* matching, but *only* on resource with generatedNames"
\* (libraryoutputresources/types.go:25).
GeneratedNamesAreHonored ==
    step = "write" => \A ct \in ClusterType : \A r \in ToSet(Mutations) :
        r.generateName # NoName
        /\ [resource |-> r.resource, ns |-> r.ns, generatedName |-> r.generateName]
              \in allowed[ct].generated
        => r \in Views[ct]

=============================================================================
