----------------------------- MODULE CommandProofs -----------------------------
(***************************************************************************)
(* Proofs about ApplyConfigurationCommand for every operator, every list   *)
(* of output resources and any number of faults: what exit status 0 and    *)
(* the results file promise, and what any interruption may leave on disk.  *)
(* The run itself is that of OperatorRunProofs.                            *)
(***************************************************************************)
EXTENDS ApplyConfigurationCommand, OperatorRunProofs, SequenceLemmas

\* What is to be written to a directory, once the run has been decided.
Planned(dir) == IF dir = "Unspecified" THEN UnspecifiedMutations ELSE Views[dir]
Job == {j \in [dir: Directory, req: ToSet(Mutations)] : j.req \in Planned(j.dir)}
File(dir, req, file, content) == [path |-> PathOf(dir, req, file), content |-> content]
FileSet(dir, req) ==
    {File(dir, req, "metadata", Metadata(req)), File(dir, req, "body", req.body)}
      \cup (IF req.options = Empty THEN {} ELSE {File(dir, req, "options", [options |-> req.options])})
PlannedFile == UNION {FileSet(j.dir, j.req) : j \in Job}
ResultsContent == [results |-> report]

\* The run has ended well enough for its mutations to be written.
Decided == stage = "returned" /\ ~rejected /\ allowed \in OutputResources

CmdTypes ==
    /\ step \in Step /\ errs \subseteq ErrorKind /\ faults \in 0..MaxFaults
    /\ allowed \in OutputResources \cup {Nil}
    /\ exit \in {"none", "ok", "error", "panic", "killed"}
    /\ todo \in Seq(Job) /\ writing \in Seq(PlannedFile) /\ Len(writing) <= 3

\* Nothing is planned or written before it is decided, nothing is left to do
\* after the last request, and the process is over in the last step.
Phases ==
    /\ step \in {"mkdir", "resources", "apply", "check"} =>
          todo = <<>> /\ writing = <<>> /\ written = <<>> /\ "write" \notin errs
    /\ step \in {"results", "done", "exit"} => todo = <<>> /\ writing = <<>>
    /\ step \in {"check", "write", "results", "done"} => stage = "returned"
    /\ step \in {"write", "results", "done"} \/ written # <<>> \/ exit = "ok" => Decided
    /\ exit = "ok" => step = "exit" /\ errs = {}
    /\ step = "exit" => ~Alive

\* Every reason not to exit with 0 is among the errors by the time it matters.
ErrorsAreKept ==
    /\ (step \in {"check", "write", "results", "done"} \/ exit = "ok") /\ "controllers" \notin errs =>
          failed = {} /\ ~rejected
    /\ (step \in {"write", "results", "done"} \/ exit = "ok") /\ "unspecified" \notin errs => AllIsSpecified
    /\ (step = "done" \/ exit = "ok") /\ "write" \notin errs =>
          ResultsFile \in DOMAIN written /\ written[ResultsFile] = ResultsContent

\* All that is on disk was planned, whole or truncated, and the results come
\* after everything else.
OnDisk ==
    \A p \in DOMAIN written :
        \/ p = ResultsFile /\ step \in {"results", "done", "exit"} /\ (step = "results" => ~Alive)
           /\ written[p] \in {Truncated, ResultsContent}
           /\ (step = "results" => written[p] = Truncated)
        \/ \E f \in PlannedFile : p = f.path /\ written[p] \in {Truncated, f.content}

\* While all goes well, each planned request is still to come, or each of its
\* files is about to be written or on disk as a whole.
Arrived(f) == f.path \in DOMAIN written /\ written[f.path] = f.content
Progress ==
    "write" \notin errs /\ AllApart /\ ((step = "write" /\ Alive) \/ step \in {"results", "done"} \/ HasResults) =>
        \A dir \in Directory : \A r \in Planned(dir) :
            \/ [dir |-> dir, req |-> r] \in ToSet(todo)
            \/ \A f \in FileSet(dir, r) : f \in ToSet(writing) \/ Arrived(f)

CmdInv == CmdTypes /\ Phases /\ ErrorsAreKept /\ OnDisk /\ Progress

-----------------------------------------------------------------------------
(* Lemmas: the filters.                                                    *)

\* The combined list lets through exactly what one of the lists lets through.
LEMMA CombinedMatches ==
    ASSUME NEW req, NEW lists
    PROVE  MatchesFilter(req, Combined(lists))
             <=> \E ct \in ClusterType : MatchesFilter(req, lists[ct])
BY DEF MatchesFilter, Combined

\* Filtered mutations always pass the second validation of
\* applyConfigurationOptions.Run (options.go:61): it cannot add an error.
THEOREM FilteredIsValid ==
    ASSUME NEW views, NEW lists
    PROVE  IsValid(FilterAll(views, lists), lists)
<1> DEFINE filtered == FilterAll(views, lists)
           all == UNION {filtered[ct] : ct \in ClusterType}
<1>1. ASSUME NEW req \in all PROVE MatchesFilter(req, Combined(lists))
  <2>1. PICK ct \in ClusterType : req \in filtered[ct]
    OBVIOUS
  <2>2. MatchesFilter(req, lists[ct])
    BY <2>1 DEF FilterAll, Filter
  <2>3. QED
    BY <2>2, CombinedMatches
<1>2. QED
  BY <1>1 DEF IsValid, Unspecified, Filter

\* Every mutation of a run ends up in the view of a cluster type or among the
\* unspecified ones, and never in both, so writing the three views and the
\* Unspecified directory loses none.
THEOREM ViewsAndUnspecifiedPartition ==
    ASSUME NEW reqs, NEW lists, NEW req \in reqs
    PROVE  (\E ct \in ClusterType : req \in FilterAll(SameView(reqs), lists)[ct])
             <=> req \notin Unspecified(SameView(reqs), lists)
<1>1. \A ct \in ClusterType :
          req \in FilterAll(SameView(reqs), lists)[ct] <=> MatchesFilter(req, lists[ct])
  BY DEF FilterAll, SameView, Filter
<1>2. UNION {SameView(reqs)[ct] : ct \in ClusterType} = reqs
  BY DEF SameView, ClusterType
<1>3. req \in Unspecified(SameView(reqs), lists)
        <=> ~MatchesFilter(req, Combined(lists))
  BY <1>2 DEF Unspecified, Filter
<1>4. QED
  BY <1>1, <1>3, CombinedMatches

-----------------------------------------------------------------------------
(* Lemmas: files.                                                          *)

\* The files of a request are its metadata, its body and, if it has any, its
\* options.
LEMMA FilesOfRequest ==
    ASSUME NEW dir, NEW req
    PROVE  /\ FilesOf(dir, req) \in Seq(FileSet(dir, req))
           /\ Len(FilesOf(dir, req)) <= 3
           /\ ToSet(FilesOf(dir, req)) = FileSet(dir, req)
<1> DEFINE m == File(dir, req, "metadata", Metadata(req))
           b == File(dir, req, "body", req.body)
           o == File(dir, req, "options", [options |-> req.options])
<1>1. FilesOf(dir, req) = <<m, b>> \o (IF req.options = Empty THEN <<>> ELSE <<o>>)
  BY DEF FilesOf, File
<1>2. FileSet(dir, req) = IF req.options = Empty THEN {m, b} ELSE {m, b, o}
  BY DEF FileSet
<1> HIDE DEF m, b, o
<1>3. <<m, b>> \o <<>> = <<m, b>> /\ <<m, b>> \o <<o>> = <<m, b, o>>
  BY TwoAndNone, TwoAndOne
<1>4. /\ <<m, b>> \in Seq({m, b}) /\ <<m, b, o>> \in Seq({m, b, o})
      /\ Len(<<m, b>>) = 2 /\ Len(<<m, b, o>>) = 3
  OBVIOUS
<1>5. ToSet(<<m, b>>) = {m, b} /\ ToSet(<<m, b, o>>) = {m, b, o}
  <2>1. DOMAIN <<m, b>> = {1, 2} /\ DOMAIN <<m, b, o>> = {1, 2, 3}
    OBVIOUS
  <2>2. QED
    BY <2>1 DEF ToSet
<1>6. CASE req.options = Empty
  BY <1>1, <1>2, <1>3, <1>4, <1>5, <1>6
<1>7. CASE req.options # Empty
  <2>1. FilesOf(dir, req) = <<m, b, o>> /\ FileSet(dir, req) = {m, b, o}
    BY <1>1, <1>2, <1>3, <1>7
  <2>2. QED
    BY <2>1, <1>4, <1>5
<1>8. QED
  BY <1>6, <1>7

\* A path tells its directory and its kind of file, and the paths of one
\* request differ in nothing else.
LEMMA Paths ==
    ASSUME NEW dir, NEW req, NEW file
    PROVE  /\ PathOf(dir, req, file).dir = dir /\ PathOf(dir, req, file).file = file
           /\ PathOf(dir, req, file).base = BaseName(req)
           /\ PathOf(dir, req, file).action = req.action /\ PathOf(dir, req, file).resource = req.resource
           /\ PathOf(dir, req, file) # ResultsFile
           /\ \A other : At(PathOf(dir, req, file), other) = PathOf(dir, req, other)
BY DEF PathOf, At, ResultsFile

\* A path is a record of its fields, and so are those beside it.
LEMMA PathIsRecord ==
    ASSUME NEW dir, NEW req, NEW file
    PROVE  PathOf(dir, req, file) = [field \in PathFields |-> PathOf(dir, req, file)[field]]
BY DEF PathOf, PathFields

\* The file beside a file of a request is one of that request.
LEMMA BesidePath ==
    ASSUME NEW p, IsOutputPath(p), NEW file, NEW dir, NEW req, NEW other, p.file = file,
           At(p, other) = PathOf(dir, req, other), p # ResultsFile
    PROVE  p = PathOf(dir, req, file)
<1>1. p = [field \in PathFields |-> p[field]]
  BY DEF IsOutputPath
<1>2. \A field \in PathFields \ {"file"} : p[field] = PathOf(dir, req, file)[field]
  <2>1. \A field \in PathFields \ {"file"} : At(p, other)[field] = p[field]
    BY <1>1 DEF At
  <2>2. \A field \in PathFields \ {"file"} : PathOf(dir, req, other)[field] = PathOf(dir, req, file)[field]
    BY DEF PathOf, PathFields
  <2>3. QED
    BY <2>1, <2>2
<1>3. p["file"] = PathOf(dir, req, file)["file"]
  BY Paths
<1>4. QED
  BY <1>1, <1>2, <1>3, PathIsRecord

\* Requests of the run that are apart have no file in common.
LEMMA ApartFiles ==
    ASSUME AllApart, NEW r \in ToSet(Mutations), NEW s \in ToSet(Mutations),
           NEW d, NEW e, NEW f, NEW g, PathOf(d, r, f) = PathOf(e, s, g)
    PROVE  r = s /\ d = e /\ f = g
<1>1. d = e /\ f = g
  BY Paths
<1>2. /\ r.action = s.action /\ SafeName[r.ns] = SafeName[s.ns] /\ r.resource = s.resource
      /\ Prefix(r) = Prefix(s) /\ BaseName(r) = BaseName(s)
  BY DEF PathOf
<1>3. QED
  BY <1>1, <1>2 DEF AllApart, Apart

\* What a file of a request is.
LEMMA FileKinds ==
    ASSUME NEW dir, NEW req, NEW f \in FileSet(dir, req)
    PROVE  /\ f.path = PathOf(dir, req, f.path.file)
           /\ \/ f.path.file = "metadata" /\ f.content = Metadata(req)
              \/ f.path.file = "body" /\ f.content = req.body
              \/ f.path.file = "options" /\ f.content = [options |-> req.options] /\ req.options # Empty
BY Paths DEF FileSet, File

\* What a file of the plan is.
LEMMA PlannedFiles ==
    ASSUME NEW f \in PlannedFile
    PROVE  \E j \in Job :
              /\ j.req \in ToSet(Mutations) /\ f \in FileSet(j.dir, j.req)
              /\ f.path = PathOf(j.dir, j.req, f.path.file)
              /\ \/ f.path.file = "metadata" /\ f.content = Metadata(j.req)
                 \/ f.path.file = "body" /\ f.content = j.req.body
                 \/ f.path.file = "options" /\ f.content = [options |-> j.req.options] /\ j.req.options # Empty
<1>1. PICK j \in Job : f \in FileSet(j.dir, j.req)
  BY DEF PlannedFile
<1>2. /\ f.path = PathOf(j.dir, j.req, f.path.file)
      /\ \/ f.path.file = "metadata" /\ f.content = Metadata(j.req)
         \/ f.path.file = "body" /\ f.content = j.req.body
         \/ f.path.file = "options" /\ f.content = [options |-> j.req.options] /\ j.req.options # Empty
  BY <1>1, FileKinds
<1>3. QED
  BY <1>1, <1>2 DEF Job

\* Files of the plan with the same path are the same if all requests are apart.
LEMMA SameFile ==
    ASSUME AllApart, NEW f \in PlannedFile, NEW g \in PlannedFile, f.path = g.path
    PROVE  f.content = g.content
<1>1. PICK j \in Job :
         /\ j.req \in ToSet(Mutations) /\ f.path = PathOf(j.dir, j.req, f.path.file)
         /\ \/ f.path.file = "metadata" /\ f.content = Metadata(j.req)
            \/ f.path.file = "body" /\ f.content = j.req.body
            \/ f.path.file = "options" /\ f.content = [options |-> j.req.options]
  BY PlannedFiles
<1>2. PICK k \in Job :
         /\ k.req \in ToSet(Mutations) /\ g.path = PathOf(k.dir, k.req, g.path.file)
         /\ \/ g.path.file = "metadata" /\ g.content = Metadata(k.req)
            \/ g.path.file = "body" /\ g.content = k.req.body
            \/ g.path.file = "options" /\ g.content = [options |-> k.req.options]
  BY PlannedFiles
<1>3. PathOf(j.dir, j.req, f.path.file) = PathOf(k.dir, k.req, g.path.file)
  BY <1>1, <1>2
<1>4. j.req = k.req /\ f.path.file = g.path.file
  BY <1>1, <1>2, <1>3, ApartFiles
<1>5. QED
  BY <1>1, <1>2, <1>4

\* The output directory: what this run wrote covers what was there before.
LEMMA Overlay ==
    /\ DOMAIN files = DOMAIN before \cup DOMAIN written
    /\ \A p \in DOMAIN written : files[p] = written[p]
    /\ \A p \in DOMAIN before : p \notin DOMAIN written => files[p] = before[p]
BY DEF files

\* Writing a file of this run writes it to the directory.
LEMMA FilesKept == ASSUME before' = before, written' = written PROVE files' = files
BY DEF files

LEMMA FilesWritten ==
    ASSUME before' = before, NEW path, NEW content, written' = WriteFile(written, path, content)
    PROVE  files' = WriteFile(files, path, content)
<1>1. files' = [p \in DOMAIN before \cup DOMAIN written' |-> IF p \in DOMAIN written' THEN written'[p] ELSE before[p]]
  BY DEF files
<1>2. /\ DOMAIN written' = DOMAIN written \cup {path} /\ written'[path] = content
      /\ \A p \in DOMAIN written : p # path => written'[p] = written[p]
  BY DEF WriteFile
<1>3. WriteFile(files, path, content) = [p \in DOMAIN files \cup {path} |-> IF p = path THEN content ELSE files[p]]
  BY DEF WriteFile
<1>4. ASSUME NEW p \in DOMAIN before \cup DOMAIN written'
      PROVE  (IF p \in DOMAIN written' THEN written'[p] ELSE before[p]) = (IF p = path THEN content ELSE files[p])
  BY <1>2, Overlay
<1>5. DOMAIN files \cup {path} = DOMAIN before \cup DOMAIN written'
  BY <1>2, Overlay
<1>6. QED
  BY <1>1, <1>3, <1>4, <1>5

\* The contents of mutations, metadata and results are none of a truncated file.
LEMMA NothingIsTruncated ==
    /\ ResultsContent # Truncated
    /\ \A req : Metadata(req) # Truncated
    /\ \A options : [options |-> options] # Truncated
<1>1. ResultsContent # Truncated
  <2>1. DOMAIN ResultsContent = {"results"} /\ DOMAIN Truncated = {"truncated"}
    BY DEF ResultsContent, Truncated
  <2>2. QED
    BY <2>1
<1>2. ASSUME NEW req PROVE Metadata(req) # Truncated
  <2>1. "action" \in DOMAIN Metadata(req) /\ "action" \notin DOMAIN Truncated
    BY DEF Metadata, MetadataFields, Truncated
  <2>2. QED
    BY <2>1
<1>3. ASSUME NEW options PROVE [options |-> options] # Truncated
  <2>1. DOMAIN [options |-> options] = {"options"} /\ DOMAIN Truncated = {"truncated"}
    BY DEF Truncated
  <2>2. QED
    BY <2>1
<1>4. QED
  BY <1>1, <1>2, <1>3

-----------------------------------------------------------------------------
(* Lemmas: the plan.                                                       *)

\* The command runs the controllers as OperatorRun does.
LEMMA CommandRuns == [CmdNext]_allVars => [Next]_vars
<1>1. CASE CmdStep
  BY <1>1 DEF CmdStep, MakeOutputDirectory, GetOutputResources, RunOnceDone, PanicOnNil,
              ValidateAndFilter, NextRequest, WriteNextFile, AllWritten, WriteResults, Exit
<1>2. CASE RunOnceStep
  BY <1>2 DEF RunOnceStep
<1>3. CASE Kill
  BY <1>3 DEF Kill
<1>4. CASE Exited \/ UNCHANGED allVars
  BY <1>4 DEF Exited, allVars
<1>5. QED
  BY <1>1, <1>2, <1>3, <1>4 DEF CmdNext

\* The plan follows from what was returned and declared.
LEMMA PlanKept ==
    ASSUME UNCHANGED <<output, allowed>>
    PROVE  /\ Mutations' = Mutations /\ Job' = Job /\ PlannedFile' = PlannedFile
           /\ \A dir : Planned(dir)' = Planned(dir)
           /\ AllApart' = AllApart /\ AllIsSpecified' = AllIsSpecified
<1>1. Mutations' = Mutations
  BY DEF Mutations
<1>2. Views' = Views /\ UnspecifiedMutations' = UnspecifiedMutations
  BY <1>1 DEF Views, UnspecifiedMutations
<1>3. \A dir : Planned(dir)' = Planned(dir)
  BY <1>2 DEF Planned
<1>4. Job' = Job
  BY <1>1, <1>3 DEF Job
<1>5. PlannedFile' = PlannedFile
  BY <1>4 DEF PlannedFile
<1>6. AllApart' = AllApart
  BY <1>1 DEF AllApart
<1>7. AllIsSpecified' = AllIsSpecified
  BY <1>1, <1>2 DEF AllIsSpecified
<1>8. QED
  BY <1>1, <1>3, <1>4, <1>5, <1>6, <1>7

\* What is planned for a directory are mutations of the run.
LEMMA PlannedIsReturned == ASSUME NEW dir \in Directory PROVE Planned(dir) \subseteq ToSet(Mutations)
<1>1. ASSUME NEW ct \in ClusterType PROVE Views[ct] \subseteq ToSet(Mutations)
  BY DEF Views, FilterAll, Filter, SameView
<1>2. UnspecifiedMutations \subseteq ToSet(Mutations)
  BY DEF UnspecifiedMutations, Unspecified, SameView, ClusterType
<1>3. QED
  BY <1>1, <1>2 DEF Planned, Directory

\* A request planned for a directory is a job.
LEMMA PlannedIsJob ==
    ASSUME NEW dir \in Directory, NEW r \in Planned(dir)
    PROVE  [dir |-> dir, req |-> r] \in Job
BY PlannedIsReturned DEF Job

\* The files of a job are planned ones.
LEMMA FilesArePlanned == ASSUME NEW j \in Job PROVE FileSet(j.dir, j.req) \subseteq PlannedFile
BY DEF PlannedFile

\* No mutation is written where the results go.
LEMMA PlannedPaths ==
    ASSUME NEW f \in PlannedFile
    PROVE  f.path # ResultsFile /\ \E j \in Job : f \in FileSet(j.dir, j.req) /\ f.path.dir = j.dir
<1>1. PICK j \in Job : f \in FileSet(j.dir, j.req)
  BY DEF PlannedFile
<1>2. f.path = PathOf(j.dir, j.req, f.path.file)
  BY <1>1, FileKinds, Zenon
<1>3. f.path # ResultsFile /\ f.path.dir = j.dir
  BY <1>2, Paths
<1>4. QED
  BY <1>1, <1>3

\* A list of requests holds each of them, and nothing else.
LEMMA ListingHolds ==
    ASSUME output \in Seq(Entry), NEW V \in SUBSET ToSet(Mutations), NEW l \in Listings(V)
    PROVE  l \in Seq(V) /\ ToSet(l) = V
<1> DEFINE n == Cardinality(Places(V))
<1>1. DOMAIN Mutations = 1..Len(output) /\ Len(output) \in Nat
  BY DEF Mutations
<1>2. n \in Nat
  <2>1. Places(V) \subseteq 1..Len(output)
    BY <1>1 DEF Places
  <2>2. IsFiniteSet(1..Len(output))
    BY <1>1, FS_Interval
  <2>3. IsFiniteSet(Places(V))
    BY <2>1, <2>2, FS_Subset
  <2>4. QED
    BY <2>3, FS_CardinalityType
<1>3. PICK f \in Bijection(1..n, Places(V)) : l = [i \in 1..n |-> Mutations[f[i]]]
  BY DEF Listings
<1>4. /\ \A i \in 1..n : f[i] \in Places(V)
      /\ \A k \in Places(V) : \E i \in 1..n : f[i] = k
  BY DEF Bijection, Injection, Surjection
<1> HIDE DEF n
<1>5. \A i \in 1..n : l[i] \in V
  BY <1>3, <1>4 DEF Places
<1>6. l \in Seq(V) /\ DOMAIN l = 1..n
  BY <1>2, <1>3, <1>5
<1>7. ASSUME NEW v \in V PROVE v \in ToSet(l)
  <2>1. PICK k \in DOMAIN Mutations : Mutations[k] = v
    BY DEF ToSet
  <2>2. PICK i \in 1..n : f[i] = k
    BY <2>1, <1>4 DEF Places
  <2>3. QED
    BY <1>3, <1>6, <2>1, <2>2 DEF ToSet
<1>8. QED
  BY <1>5, <1>6, <1>7 DEF ToSet

\* The jobs of one directory.
LEMMA DirectoryHolds ==
    ASSUME NEW dir \in Directory, NEW l \in Seq(Planned(dir)), ToSet(l) = Planned(dir)
    PROVE  /\ InDirectory(dir, l) \in Seq(Job)
           /\ ToSet(InDirectory(dir, l)) = {[dir |-> dir, req |-> r] : r \in Planned(dir)}
<1>1. DOMAIN l = 1..Len(l) /\ Len(l) \in Nat
  OBVIOUS
<1>2. \A i \in 1..Len(l) : [dir |-> dir, req |-> l[i]] \in Job
  BY PlannedIsJob
<1>3. InDirectory(dir, l) \in Seq(Job)
  BY <1>1, <1>2 DEF InDirectory
<1>4. ASSUME NEW r \in Planned(dir) PROVE [dir |-> dir, req |-> r] \in ToSet(InDirectory(dir, l))
  <2>1. PICK i \in DOMAIN l : l[i] = r
    BY DEF ToSet
  <2>2. QED
    BY <2>1 DEF InDirectory, ToSet
<1>5. ASSUME NEW j \in ToSet(InDirectory(dir, l)) PROVE j \in {[dir |-> dir, req |-> r] : r \in Planned(dir)}
  BY <1>1 DEF InDirectory, ToSet
<1>6. QED
  BY <1>3, <1>4, <1>5

-----------------------------------------------------------------------------
(* The invariant.                                                          *)

\* The invariant of the command holds at the start.
LEMMA CmdInvInit == CmdInit => CmdInv
BY CommandAssumption
   DEF CommandAssumption, CmdInit, CmdInv, CmdTypes, Phases, ErrorsAreKept, OnDisk, Progress, HasResults,
       Alive, Step

\* The invariant speaks of the command, of what the run has returned, and of
\* nothing else.
LEMMA CmdInvKept ==
    ASSUME CmdInv, UNCHANGED <<cmdVars, stage, report, output, failed, rejected>>
    PROVE  CmdInv'
<1>1. UNCHANGED <<step, allowed, errs, written, todo, writing, faults, exit>>
  BY DEF cmdVars
<1>2. CmdTypes'
  BY <1>1, PlanKept DEF CmdInv, CmdTypes
<1>3. Phases'
  BY <1>1 DEF CmdInv, Phases, Decided, Alive
<1>4. ErrorsAreKept'
  BY <1>1, PlanKept DEF CmdInv, ErrorsAreKept, ResultsContent
<1>5. OnDisk'
  BY <1>1, PlanKept DEF CmdInv, OnDisk, ResultsContent, Alive
<1>6. Progress'
  BY <1>1, PlanKept DEF CmdInv, Progress, Arrived, HasResults, Alive
<1>7. QED
  BY <1>2, <1>3, <1>4, <1>5, <1>6 DEF CmdInv

\* Before the mutations are filtered.
LEMMA EarlySteps ==
    ASSUME CmdInv, MakeOutputDirectory \/ GetOutputResources \/ RunOnceDone \/ PanicOnNil
    PROVE  CmdInv'
<1>1. /\ step \in {"mkdir", "resources", "apply", "check"}
      /\ written = <<>> /\ todo = <<>> /\ writing = <<>> /\ UNCHANGED <<vars, written, todo, writing>>
  BY DEF MakeOutputDirectory, GetOutputResources, RunOnceDone, PanicOnNil, CmdInv, Phases
<1>2. step' \in {"resources", "apply", "check", "exit"} /\ exit' # "ok"
  BY DEF MakeOutputDirectory, GetOutputResources, RunOnceDone, PanicOnNil, Alive
<1>3. CmdTypes'
  <2> USE DEF MakeOutputDirectory, GetOutputResources, RunOnceDone, PanicOnNil, CmdInv, CmdTypes
  <2>1. /\ allowed' \in OutputResources \cup {Nil}
        /\ faults' \in 0..MaxFaults
        /\ errs' \subseteq ErrorKind
    <3>1. allowed' \in OutputResources \cup {Nil}
      OBVIOUS
    <3>2. faults' \in 0..MaxFaults
      BY CommandAssumption DEF CommandAssumption
    <3>3. errs' \subseteq ErrorKind
      BY DEF ErrorKind
    <3>4. QED
      BY <3>1, <3>2, <3>3
  <2>2. exit' \in {"none", "ok", "error", "panic", "killed"} /\ step' \in Step
    BY <1>2 DEF Step
  <2>3. todo' = <<>> /\ writing' = <<>>
    BY <1>1
  <2>4. QED
    BY <2>1, <2>2, <2>3 DEF CmdTypes
<1>4. Phases'
  <2>1. step' = "check" => stage' = "returned"
    BY <1>1 DEF MakeOutputDirectory, GetOutputResources, RunOnceDone, PanicOnNil, vars
  <2>2. step' = "exit" => ~Alive'
    BY DEF MakeOutputDirectory, GetOutputResources, RunOnceDone, PanicOnNil, Alive
  <2>3. "write" \notin errs'
    BY <1>1 DEF MakeOutputDirectory, GetOutputResources, RunOnceDone, PanicOnNil, CmdInv, Phases
  <2>4. QED
    BY <1>1, <1>2, <2>1, <2>2, <2>3 DEF Phases
<1>5. ErrorsAreKept'
  <2>1. step' = "check" => RunOnceDone
    BY DEF MakeOutputDirectory, GetOutputResources, PanicOnNil
  <2>2. step' = "check" /\ "controllers" \notin errs' => failed' = {} /\ ~rejected'
    BY <2>1 DEF RunOnceDone, vars, loopVars, returnVars
  <2>3. QED
    BY <1>2, <2>2 DEF ErrorsAreKept
<1>6. (OnDisk /\ Progress)'
  BY <1>1, <1>2 DEF OnDisk, Progress, HasResults
<1>7. QED
  BY <1>3, <1>4, <1>5, <1>6 DEF CmdInv

\* A step of the controllers, or of the goroutines they left behind.
LEMMA RunSteps ==
    ASSUME CmdInv, RunInv, RunOnceStep
    PROVE  CmdInv'
<1>1. UNCHANGED cmdVars /\ [Next]_vars /\ Alive
  BY DEF RunOnceStep
<1>2. CASE step = "apply"
  <2>1. /\ written' = <<>> /\ todo' = <<>> /\ writing' = <<>> /\ step' = "apply"
        /\ UNCHANGED <<allowed, errs, faults, exit>> /\ exit = "none" /\ "write" \notin errs
    BY <1>1, <1>2 DEF cmdVars, Alive, CmdInv, Phases
  <2>2. CmdTypes'
    BY <2>1 DEF CmdInv, CmdTypes, Step
  <2>3. Phases'
    BY <2>1 DEF Phases
  <2>4. (OnDisk /\ Progress /\ ErrorsAreKept)'
    BY <2>1 DEF OnDisk, Progress, ErrorsAreKept, HasResults
  <2>5. QED
    BY <2>2, <2>3, <2>4 DEF CmdInv
<1>3. CASE step \in {"check", "write", "results", "done"}
  <2>1. stage = "returned"
    BY <1>3 DEF CmdInv, Phases
  <2>2. UNCHANGED <<stage, report, output, failed, rejected>>
    BY <1>1, <2>1, ReturnedStays
  <2>3. QED
    BY <1>1, <2>2, CmdInvKept
<1>4. QED
  BY <1>2, <1>3 DEF RunOnceStep

\* What is left to do after the filters is every job of the plan.
LEMMA AllJobsAreListed ==
    ASSUME output \in Seq(Entry), ValidateAndFilter
    PROVE  todo' \in Seq(Job) /\ ToSet(todo') = Job
<1>1. PICK c \in Listings(Views["Configuration"]), m \in Listings(Views["Management"]),
           u \in Listings(Views["UserWorkload"]), x, y, z \in Listings(UnspecifiedMutations) :
           todo' = InDirectory("Configuration", c) \o InDirectory("Management", m)
                   \o InDirectory("UserWorkload", u) \o InDirectory("Unspecified", x \o y \o z)
  BY DEF ValidateAndFilter
<1>2. /\ Planned("Configuration") = Views["Configuration"] /\ Planned("Management") = Views["Management"]
      /\ Planned("UserWorkload") = Views["UserWorkload"] /\ Planned("Unspecified") = UnspecifiedMutations
  BY DEF Planned
<1>3. Directory = {"Configuration", "Management", "UserWorkload", "Unspecified"}
  BY DEF Directory, ClusterType
<1> DEFINE JobsOf(dir) == {[dir |-> dir, req |-> r] : r \in Planned(dir)}
           C == InDirectory("Configuration", c)
           M == InDirectory("Management", m)
           U == InDirectory("UserWorkload", u)
           X == InDirectory("Unspecified", x \o y \o z)
<1>4. C \in Seq(Job) /\ ToSet(C) = JobsOf("Configuration")
  BY <1>1, <1>2, <1>3, PlannedIsReturned, ListingHolds, DirectoryHolds
<1>5. M \in Seq(Job) /\ ToSet(M) = JobsOf("Management")
  BY <1>1, <1>2, <1>3, PlannedIsReturned, ListingHolds, DirectoryHolds
<1>6. U \in Seq(Job) /\ ToSet(U) = JobsOf("UserWorkload")
  BY <1>1, <1>2, <1>3, PlannedIsReturned, ListingHolds, DirectoryHolds
<1>7. X \in Seq(Job) /\ ToSet(X) = JobsOf("Unspecified")
  <2> DEFINE V == UnspecifiedMutations
  <2>1. /\ x \in Seq(V) /\ ToSet(x) = V /\ y \in Seq(V) /\ ToSet(y) = V /\ z \in Seq(V) /\ ToSet(z) = V
    BY <1>1, <1>2, <1>3, PlannedIsReturned, ListingHolds
  <2> HIDE DEF V
  <2>2. x \o y \o z \in Seq(V) /\ ToSet(x \o y \o z) = (ToSet(x) \cup ToSet(y)) \cup ToSet(z)
    BY <2>1, ThreeHold
  <2>3. x \o y \o z \in Seq(UnspecifiedMutations) /\ ToSet(x \o y \o z) = UnspecifiedMutations
    BY <2>1, <2>2 DEF V
  <2>4. QED
    BY <1>2, <1>3, <2>3, DirectoryHolds
<1> HIDE DEF C, M, U, X
<1>8. C \o M \o U \in Seq(Job) /\ ToSet(C \o M \o U) = (ToSet(C) \cup ToSet(M)) \cup ToSet(U)
  BY <1>4, <1>5, <1>6, ThreeHold
<1>9. C \o M \o U \o X \in Seq(Job) /\ ToSet(C \o M \o U \o X) = ToSet(C \o M \o U) \cup ToSet(X)
  <2> DEFINE CMU == C \o M \o U
  <2>1. CMU \in Seq(Job)
    BY <1>8
  <2> HIDE DEF CMU
  <2>2. CMU \o X \in Seq(Job) /\ ToSet(CMU \o X) = ToSet(CMU) \cup ToSet(X)
    BY <1>7, <2>1, ConcatHolds
  <2>3. QED
    BY <2>2 DEF CMU
<1>10. todo' = C \o M \o U \o X
  BY <1>1 DEF C, M, U, X
<1>11. ASSUME NEW j \in Job PROVE j \in JobsOf(j.dir) /\ j.dir \in Directory
  BY DEF Job
<1>12. /\ todo' \in Seq(Job)
       /\ \A j : j \in ToSet(todo') <=> \E dir \in Directory : j \in JobsOf(dir)
  BY <1>3, <1>4, <1>5, <1>6, <1>7, <1>8, <1>9, <1>10
<1>13. \A j : j \in Job <=> \E dir \in Directory : j \in JobsOf(dir)
  BY <1>11, PlannedIsJob
<1>14. QED
  BY <1>12, <1>13

\* The mutations are validated and filtered.
LEMMA ValidateStep ==
    ASSUME CmdInv, RunInv, ValidateAndFilter
    PROVE  CmdInv'
<1>1. output \in Seq(Entry)
  BY DEF RunInv, LoopTypeOK
<1>2. /\ UNCHANGED <<vars, allowed, written, writing, faults, exit>> /\ UNCHANGED <<output, allowed>>
      /\ step = "check" /\ step' = "write" /\ exit = "none" /\ ~rejected /\ allowed # Nil
      /\ written = <<>> /\ writing = <<>> /\ stage = "returned"
  BY DEF ValidateAndFilter, CmdInv, Phases, vars, returnVars, Alive
<1>3. todo' \in Seq(Job') /\ ToSet(todo') = Job'
  BY <1>1, <1>2, AllJobsAreListed, PlanKept
<1>4. CmdTypes'
  <2>1. /\ allowed' \in OutputResources \cup {Nil} /\ faults' \in 0..MaxFaults /\ exit' = "none"
        /\ step' \in Step /\ writing' = <<>>
    BY <1>2 DEF CmdInv, CmdTypes, Step
  <2>2. errs' \subseteq ErrorKind
    BY DEF ValidateAndFilter, CmdInv, CmdTypes, ErrorKind
  <2>3. QED
    BY <1>3, <2>1, <2>2 DEF CmdTypes
<1>5. Phases'
  <2>1. stage' = "returned" /\ ~rejected' /\ allowed' \in OutputResources
    BY <1>2 DEF CmdInv, CmdTypes, vars, returnVars
  <2>2. QED
    BY <1>2, <2>1 DEF Phases, Decided
<1>6. ErrorsAreKept'
  <2>1. "controllers" \notin errs' => failed' = {} /\ ~rejected'
    BY <1>2 DEF ValidateAndFilter, CmdInv, ErrorsAreKept, vars, loopVars, returnVars
  <2>2. "unspecified" \notin errs' => AllIsSpecified'
    BY <1>2, PlanKept DEF ValidateAndFilter
  <2>3. QED
    BY <1>2, <2>1, <2>2 DEF ErrorsAreKept
<1>7. OnDisk'
  BY <1>2 DEF OnDisk
<1>8. Progress'
  <2>1. ASSUME NEW dir \in Directory, NEW r \in Planned(dir) PROVE [dir |-> dir, req |-> r] \in ToSet(todo')
    BY <1>2, <1>3, <2>1, PlannedIsJob, PlanKept
  <2>2. \A dir \in Directory : \A r \in Planned(dir)' : [dir |-> dir, req |-> r] \in ToSet(todo')
    BY <1>2, <2>1, PlanKept
  <2>3. QED
    BY <2>2 DEF Progress
<1>9. QED
  BY <1>4, <1>5, <1>6, <1>7, <1>8 DEF CmdInv

\* The files of the next request are to be written, or it is left out.
LEMMA NextRequestStep ==
    ASSUME CmdInv, NextRequest
    PROVE  CmdInv'
<1>1. /\ UNCHANGED <<vars, step, allowed, written, exit>> /\ UNCHANGED <<output, allowed>>
      /\ step = "write" /\ exit = "none" /\ writing = <<>> /\ todo # <<>> /\ todo' = Tail(todo)
      /\ UNCHANGED <<stage, report, failed, rejected>>
  BY DEF NextRequest, vars, returnVars, loopVars, Alive
<1>2. /\ Head(todo) \in Job /\ Tail(todo) \in Seq(Job)
      /\ ToSet(todo) = {Head(todo)} \cup ToSet(Tail(todo))
  BY <1>1, TailHolds DEF CmdInv, CmdTypes
<1> DEFINE j == Head(todo)
<1>3. /\ FilesOf(j.dir, j.req) \in Seq(PlannedFile) /\ Len(FilesOf(j.dir, j.req)) <= 3
      /\ ToSet(FilesOf(j.dir, j.req)) = FileSet(j.dir, j.req)
  BY <1>2, FilesOfRequest, FilesArePlanned, SeqMonotonic
<1> HIDE DEF j
<1>4. \/ writing' = FilesOf(j.dir, j.req) /\ UNCHANGED <<errs, faults>>
      \/ writing' = <<>> /\ faults < MaxFaults /\ faults' = faults + 1 /\ errs' = errs \cup {"write"}
  BY <1>1 DEF NextRequest, j
<1>5. CmdTypes'
  <2>1. todo' \in Seq(Job') /\ writing' \in Seq(PlannedFile') /\ Len(writing') <= 3
    <3>1. todo' \in Seq(Job) /\ Job' = Job /\ PlannedFile' = PlannedFile
      BY <1>1, <1>2, PlanKept
    <3>2. writing' \in Seq(PlannedFile) /\ Len(writing') <= 3
      <4>1. CASE writing' = FilesOf(j.dir, j.req)
        BY <1>3, <4>1
      <4>2. CASE writing' = <<>>
        BY <4>2, EmptySeq
      <4>3. QED
        BY <1>4, <4>1, <4>2
    <3>3. QED
      BY <3>1, <3>2
  <2>2. faults' \in 0..MaxFaults
    BY <1>4, CommandAssumption DEF CommandAssumption, CmdInv, CmdTypes
  <2>3. errs' \subseteq ErrorKind
    BY <1>4 DEF CmdInv, CmdTypes, ErrorKind
  <2>4. QED
    BY <1>1, <2>1, <2>2, <2>3 DEF CmdInv, CmdTypes
<1>6. Phases'
  BY <1>1 DEF CmdInv, Phases, Decided
<1>7. ErrorsAreKept'
  BY <1>1, <1>4, PlanKept DEF CmdInv, ErrorsAreKept
<1>8. OnDisk'
  BY <1>1, PlanKept DEF CmdInv, OnDisk
<1>9. Progress'
  <2>1. SUFFICES ASSUME "write" \notin errs', AllApart, NEW dir \in Directory, NEW r \in Planned(dir)
                 PROVE  \/ [dir |-> dir, req |-> r] \in ToSet(todo')
                        \/ \A f \in FileSet(dir, r) : f \in ToSet(writing') \/ Arrived(f)'
    BY <1>1, PlanKept DEF Progress
  <2>2. "write" \notin errs /\ writing' = FilesOf(j.dir, j.req)
    BY <1>4, <2>1
  <2>3. \/ [dir |-> dir, req |-> r] \in ToSet(todo)
        \/ \A f \in FileSet(dir, r) : f \in ToSet(writing) \/ Arrived(f)
    BY <1>1, <2>1, <2>2 DEF CmdInv, Progress, Alive
  <2>4. CASE [dir |-> dir, req |-> r] \in ToSet(todo)
    <3>1. [dir |-> dir, req |-> r] = j \/ [dir |-> dir, req |-> r] \in ToSet(todo')
      BY <1>1, <1>2, <2>4 DEF j
    <3>2. [dir |-> dir, req |-> r] = j => ToSet(writing') = FileSet(dir, r)
      BY <1>3, <2>2 DEF j
    <3>3. QED
      BY <3>1, <3>2
  <2>5. CASE \A f \in FileSet(dir, r) : f \in ToSet(writing) \/ Arrived(f)
    <3>1. ToSet(writing) = {}
      BY <1>1 DEF ToSet
    <3>2. QED
      BY <1>1, <2>5, <3>1 DEF Arrived
  <2>6. QED
    BY <2>3, <2>4, <2>5
<1>10. QED
  BY <1>5, <1>6, <1>7, <1>8, <1>9 DEF CmdInv

\* The next file is written, left out or truncated.
LEMMA WriteStep ==
    ASSUME CmdInv, WriteNextFile
    PROVE  CmdInv'
<1>1. /\ UNCHANGED <<vars, step, allowed, todo, exit>> /\ UNCHANGED <<output, allowed>>
      /\ step = "write" /\ exit = "none" /\ writing # <<>> /\ writing' = Tail(writing)
      /\ UNCHANGED <<stage, report, failed, rejected>>
  BY DEF WriteNextFile, vars, returnVars, loopVars, Alive
<1>2. /\ Head(writing) \in PlannedFile /\ Tail(writing) \in Seq(PlannedFile)
      /\ Len(Tail(writing)) = Len(writing) - 1
      /\ ToSet(writing) = {Head(writing)} \cup ToSet(Tail(writing))
  BY <1>1, TailHolds DEF CmdInv, CmdTypes
<1> DEFINE h == Head(writing)
<1>3. \/ written' = WriteFile(written, h.path, h.content) /\ UNCHANGED <<errs, faults>>
      \/ /\ written' \in {written, WriteFile(written, h.path, Truncated)}
         /\ faults < MaxFaults /\ faults' = faults + 1 /\ errs' = errs \cup {"write"}
  BY DEF WriteNextFile
<1> HIDE DEF h
<1>4. CmdTypes'
  <2>1. todo' \in Seq(Job') /\ writing' \in Seq(PlannedFile')
    BY <1>1, <1>2, PlanKept DEF CmdInv, CmdTypes
  <2>2. faults' \in 0..MaxFaults
    BY <1>3, CommandAssumption DEF CommandAssumption, CmdInv, CmdTypes
  <2>3. errs' \subseteq ErrorKind
    BY <1>3 DEF CmdInv, CmdTypes, ErrorKind
  <2>4. Len(writing') <= 3
    <3>1. Len(writing) \in Nat /\ Len(writing) <= 3
      BY DEF CmdInv, CmdTypes
    <3>2. QED
      BY <1>1, <1>2, <3>1
  <2>5. QED
    BY <1>1, <2>1, <2>2, <2>3, <2>4 DEF CmdInv, CmdTypes
<1>5. Phases'
  BY <1>1 DEF CmdInv, Phases, Decided
<1>6. ErrorsAreKept'
  BY <1>1, <1>3, PlanKept DEF CmdInv, ErrorsAreKept
<1>7. \A p \in DOMAIN written : \E f \in PlannedFile : p = f.path /\ written[p] \in {Truncated, f.content}
  BY <1>1 DEF CmdInv, OnDisk
<1>8. ASSUME NEW p \in DOMAIN written'
      PROVE  \E f \in PlannedFile : p = f.path /\ written'[p] \in {Truncated, f.content}
  <2>1. CASE p \in DOMAIN written /\ written'[p] = written[p]
    BY <1>7, <2>1
  <2>2. CASE p = h.path /\ written'[p] \in {Truncated, h.content}
    BY <1>2, <2>2 DEF h
  <2>3. CASE written' = written
    BY <1>8, <2>1, <2>3
  <2>4. ASSUME NEW content \in {Truncated, h.content}, written' = WriteFile(written, h.path, content)
        PROVE  (p = h.path /\ written'[p] = content) \/ (p \in DOMAIN written /\ written'[p] = written[p])
    <3>1. /\ DOMAIN written' = DOMAIN written \cup {h.path} /\ written'[h.path] = content
          /\ \A q \in DOMAIN written : q # h.path => written'[q] = written[q]
      BY <2>4 DEF WriteFile
    <3>2. p = h.path \/ p \in DOMAIN written
      BY <1>8, <3>1
    <3>3. QED
      BY <3>1, <3>2
  <2>5. QED
    BY <1>3, <2>1, <2>2, <2>3, <2>4
<1>9. OnDisk'
  BY <1>1, <1>8, PlanKept DEF OnDisk
<1>10. Progress'
  <2>1. SUFFICES ASSUME "write" \notin errs', AllApart, NEW dir \in Directory, NEW r \in Planned(dir)
                 PROVE  \/ [dir |-> dir, req |-> r] \in ToSet(todo')
                        \/ \A f \in FileSet(dir, r) : f \in ToSet(writing') \/ Arrived(f)'
    BY <1>1, PlanKept DEF Progress
  <2>2. "write" \notin errs /\ written' = WriteFile(written, h.path, h.content)
    BY <1>3, <2>1
  <2>3. /\ DOMAIN written' = DOMAIN written \cup {h.path} /\ written'[h.path] = h.content
        /\ \A q \in DOMAIN written : q # h.path => written'[q] = written[q]
    BY <2>2 DEF WriteFile
  <2>4. \/ [dir |-> dir, req |-> r] \in ToSet(todo)
        \/ \A f \in FileSet(dir, r) : f \in ToSet(writing) \/ Arrived(f)
    BY <1>1, <2>1, <2>2 DEF CmdInv, Progress, Alive
  <2>5. ASSUME NEW f \in FileSet(dir, r), f \in ToSet(writing) \/ Arrived(f)
        PROVE  f \in ToSet(writing') \/ Arrived(f)'
    <3>1. CASE f = h
      BY <2>3, <3>1 DEF Arrived
    <3>2. CASE f # h /\ f \in ToSet(writing)
      BY <1>1, <1>2, <3>2 DEF h
    <3>3. CASE Arrived(f) /\ f.path # h.path
      BY <2>3, <3>3 DEF Arrived
    <3>4. CASE Arrived(f) /\ f.path = h.path
      <4>1. f \in PlannedFile
        BY <2>1, PlannedIsJob, FilesArePlanned
      <4>2. f.content = h.content
        BY <1>2, <2>1, <3>4, <4>1, SameFile DEF h
      <4>3. QED
        BY <2>3, <3>4, <4>2 DEF Arrived
    <3>5. QED
      BY <2>5, <3>1, <3>2, <3>3, <3>4
  <2>6. QED
    BY <1>1, <2>4, <2>5
<1>11. QED
  BY <1>4, <1>5, <1>6, <1>9, <1>10 DEF CmdInv

\* All mutations have been dealt with, and only the results are left.
LEMMA AllWrittenStep ==
    ASSUME CmdInv, AllWritten
    PROVE  CmdInv'
<1>1. /\ UNCHANGED <<vars, allowed, errs, written, todo, writing, faults, exit>> /\ UNCHANGED <<output, allowed>>
      /\ step = "write" /\ step' = "results" /\ exit = "none" /\ todo = <<>> /\ writing = <<>>
      /\ UNCHANGED <<stage, report, failed, rejected>>
  BY DEF AllWritten, vars, returnVars, loopVars, Alive
<1>2. CmdTypes'
  BY <1>1, PlanKept DEF CmdInv, CmdTypes, Step
<1>3. Phases'
  BY <1>1 DEF CmdInv, Phases, Decided
<1>4. ErrorsAreKept'
  BY <1>1, PlanKept DEF CmdInv, ErrorsAreKept
<1>5. OnDisk'
  BY <1>1, PlanKept DEF CmdInv, OnDisk
<1>6. Progress'
  BY <1>1, PlanKept DEF CmdInv, Progress, Arrived, Alive
<1>7. QED
  BY <1>2, <1>3, <1>4, <1>5, <1>6 DEF CmdInv

\* The results are written, left out or truncated.
LEMMA ResultsStep ==
    ASSUME CmdInv, WriteResults
    PROVE  CmdInv'
<1>1. /\ UNCHANGED <<vars, allowed, todo, writing, exit>> /\ UNCHANGED <<output, allowed>>
      /\ step = "results" /\ step' = "done" /\ exit = "none" /\ todo = <<>> /\ writing = <<>>
      /\ UNCHANGED <<stage, report, failed, rejected>>
  BY DEF WriteResults, vars, returnVars, loopVars, Alive, CmdInv, Phases
<1>2. \/ written' = WriteFile(written, ResultsFile, ResultsContent) /\ UNCHANGED <<errs, faults>>
      \/ /\ written' \in {written, WriteFile(written, ResultsFile, Truncated)}
         /\ faults < MaxFaults /\ faults' = faults + 1 /\ errs' = errs \cup {"write"}
  BY DEF WriteResults, ResultsContent
<1>3. \/ written' = written
      \/ /\ DOMAIN written' = DOMAIN written \cup {ResultsFile} /\ written'[ResultsFile] \in {Truncated, ResultsContent}
         /\ ("write" \notin errs' => written'[ResultsFile] = ResultsContent)
         /\ \A q \in DOMAIN written : q # ResultsFile => written'[q] = written[q]
  <2>1. CASE written' = WriteFile(written, ResultsFile, ResultsContent)
    BY <2>1 DEF WriteFile
  <2>2. CASE written' = WriteFile(written, ResultsFile, Truncated) /\ "write" \in errs'
    BY <2>2 DEF WriteFile
  <2>3. QED
    BY <1>2, <2>1, <2>2
<1>4. CmdTypes'
  <2>1. faults' \in 0..MaxFaults
    BY <1>2, CommandAssumption DEF CommandAssumption, CmdInv, CmdTypes
  <2>2. errs' \subseteq ErrorKind
    BY <1>2 DEF CmdInv, CmdTypes, ErrorKind
  <2>3. QED
    BY <1>1, <2>1, <2>2, PlanKept DEF CmdInv, CmdTypes, Step
<1>5. Phases'
  BY <1>1 DEF CmdInv, Phases, Decided
<1>6. \A p \in DOMAIN written : \E f \in PlannedFile : p = f.path /\ written[p] \in {Truncated, f.content}
  BY <1>1 DEF CmdInv, OnDisk, Alive
<1>7. ResultsFile \notin DOMAIN written
  BY <1>6, PlannedPaths
<1>8. ResultsContent' = ResultsContent
  BY <1>1 DEF ResultsContent
<1>9. ErrorsAreKept'
  <2>1. "write" \notin errs' => ResultsFile \in DOMAIN written' /\ written'[ResultsFile] = ResultsContent
    <3>1. CASE "write" \notin errs'
      <4>1. written' = WriteFile(written, ResultsFile, ResultsContent)
        BY <1>2, <3>1
      <4>2. QED
        BY <4>1 DEF WriteFile
    <3>2. QED
      BY <3>1
  <2>2. "controllers" \notin errs' => failed' = {} /\ ~rejected'
    BY <1>1, <1>2 DEF CmdInv, ErrorsAreKept
  <2>3. "unspecified" \notin errs' => AllIsSpecified'
    BY <1>1, <1>2, PlanKept DEF CmdInv, ErrorsAreKept
  <2>4. QED
    BY <1>8, <2>1, <2>2, <2>3 DEF ErrorsAreKept
<1>10. OnDisk'
  <2>1. ASSUME NEW p \in DOMAIN written', p # ResultsFile
        PROVE  \E f \in PlannedFile : p = f.path /\ written'[p] \in {Truncated, f.content}
    <3>1. p \in DOMAIN written /\ written'[p] = written[p]
      BY <1>3, <2>1
    <3>2. QED
      BY <1>6, <3>1
  <2>2. ResultsFile \in DOMAIN written' => written'[ResultsFile] \in {Truncated, ResultsContent}
    BY <1>3, <1>7
  <2>3. QED
    BY <1>1, <1>8, <2>1, <2>2, PlanKept DEF OnDisk
<1>11. Progress'
  <2>1. SUFFICES ASSUME "write" \notin errs', AllApart, NEW dir \in Directory, NEW r \in Planned(dir),
                        NEW f \in FileSet(dir, r)
                 PROVE  Arrived(f)'
    BY <1>1, PlanKept DEF Progress
  <2>2. Arrived(f)
    <3>1. "write" \notin errs
      BY <1>2, <2>1
    <3>2. ToSet(todo) = {} /\ ToSet(writing) = {}
      BY <1>1 DEF ToSet
    <3>3. QED
      BY <1>1, <2>1, <3>1, <3>2 DEF CmdInv, Progress
  <2>3. f.path # ResultsFile
    BY <2>1, PlannedIsJob, FilesArePlanned, PlannedPaths
  <2>4. QED
    BY <1>3, <2>2, <2>3 DEF Arrived
<1>12. QED
  BY <1>4, <1>5, <1>9, <1>10, <1>11 DEF CmdInv

\* The process exits.
LEMMA ExitStep ==
    ASSUME CmdInv, Exit
    PROVE  CmdInv'
<1>1. /\ UNCHANGED <<vars, allowed, errs, written, todo, writing, faults>> /\ UNCHANGED <<output, allowed>>
      /\ step = "done" /\ step' = "exit" /\ exit = "none" /\ exit' = (IF errs = {} THEN "ok" ELSE "error")
      /\ UNCHANGED <<stage, report, failed, rejected>>
  BY DEF Exit, vars, returnVars, loopVars, Alive
<1>2. CmdTypes'
  BY <1>1, PlanKept DEF CmdInv, CmdTypes, Step
<1>3. Phases'
  BY <1>1 DEF CmdInv, Phases, Decided, Alive
<1>4. ErrorsAreKept'
  BY <1>1, PlanKept DEF CmdInv, ErrorsAreKept, ResultsContent
<1>5. OnDisk'
  BY <1>1, PlanKept DEF CmdInv, OnDisk, ResultsContent
<1>6. Progress'
  BY <1>1, PlanKept DEF CmdInv, Progress, Arrived
<1>7. QED
  BY <1>2, <1>3, <1>4, <1>5, <1>6 DEF CmdInv

\* The process is killed, possibly while it writes a file.
LEMMA KillStep ==
    ASSUME CmdInv, Kill
    PROVE  CmdInv'
<1>1. /\ UNCHANGED <<vars, step, allowed, errs, todo, writing, faults>> /\ UNCHANGED <<output, allowed>>
      /\ exit = "none" /\ exit' = "killed" /\ step # "exit"
      /\ UNCHANGED <<stage, report, failed, rejected>>
  BY DEF Kill, vars, returnVars, loopVars, Alive, CmdInv, Phases
<1> DEFINE h == Head(writing)
<1>2. \/ written' = written
      \/ step = "write" /\ writing # <<>> /\ written' = WriteFile(written, h.path, Truncated)
      \/ step = "results" /\ written' = WriteFile(written, ResultsFile, Truncated)
  BY DEF Kill
<1>3. step = "write" /\ writing # <<>> => h \in PlannedFile
  BY TailHolds DEF CmdInv, CmdTypes
<1> HIDE DEF h
<1>4. \/ written' = written
      \/ /\ step = "write" /\ h \in PlannedFile
         /\ DOMAIN written' = DOMAIN written \cup {h.path} /\ written'[h.path] = Truncated
         /\ \A q \in DOMAIN written : q # h.path => written'[q] = written[q]
      \/ /\ step = "results"
         /\ DOMAIN written' = DOMAIN written \cup {ResultsFile} /\ written'[ResultsFile] = Truncated
         /\ \A q \in DOMAIN written : q # ResultsFile => written'[q] = written[q]
  <2>1. CASE step = "write" /\ writing # <<>> /\ written' = WriteFile(written, h.path, Truncated)
    BY <1>3, <2>1 DEF WriteFile
  <2>2. CASE step = "results" /\ written' = WriteFile(written, ResultsFile, Truncated)
    BY <2>2 DEF WriteFile
  <2>3. QED
    BY <1>2, <2>1, <2>2
<1>5. CmdTypes'
  BY <1>1, PlanKept DEF CmdInv, CmdTypes
<1>6. Phases'
  <2>1. step \in {"mkdir", "resources", "apply", "check"} => written' = <<>>
    BY <1>4 DEF CmdInv, Phases
  <2>2. written' # <<>> => Decided
    <3>1. step \in Step /\ step # "exit"
      BY <1>1 DEF CmdInv, CmdTypes
    <3>2. QED
      BY <2>1, <3>1 DEF CmdInv, Phases, Step
  <2>3. QED
    BY <1>1, <2>1, <2>2 DEF CmdInv, Phases, Decided, Alive
<1>7. ErrorsAreKept'
  <2>1. step = "done" => written' = written
    BY <1>4
  <2>2. QED
    BY <1>1, <2>1, PlanKept DEF CmdInv, ErrorsAreKept, ResultsContent
<1>8. ASSUME NEW p \in DOMAIN written, step # "done"
      PROVE  \E f \in PlannedFile : p = f.path /\ written[p] \in {Truncated, f.content}
  BY <1>1, <1>8 DEF CmdInv, OnDisk, Alive
<1>9. OnDisk'
  <2>1. CASE written' = written
    BY <1>1, <2>1, PlanKept DEF CmdInv, OnDisk, ResultsContent, Alive
  <2>2. ASSUME written' # written, NEW p \in DOMAIN written'
        PROVE  \/ p = ResultsFile /\ step = "results" /\ written'[p] = Truncated
               \/ \E f \in PlannedFile : p = f.path /\ written'[p] \in {Truncated, f.content}
    <3>1. step # "done"
      BY <1>4, <2>2
    <3>2. CASE p \in DOMAIN written /\ written'[p] = written[p]
      BY <1>8, <3>1, <3>2
    <3>3. CASE p = h.path /\ h \in PlannedFile /\ written'[p] = Truncated
      BY <3>3
    <3>4. QED
      BY <1>4, <2>2, <3>2, <3>3
  <2>3. CASE written' # written
    BY <1>1, <2>2, <2>3, PlanKept DEF OnDisk, Alive
  <2>4. QED
    BY <2>1, <2>3
<1>10. Progress'
  <2>1. ASSUME step = "write" PROVE ~HasResults'
    <3>1. \A p \in DOMAIN written : p # ResultsFile
      BY <1>8, <2>1, PlannedPaths
    <3>2. h \in PlannedFile => h.path # ResultsFile
      BY PlannedPaths
    <3>3. ResultsFile \notin DOMAIN written'
      BY <1>4, <2>1, <3>1, <3>2
    <3>4. QED
      BY <3>3 DEF HasResults
  <2>2. SUFFICES ASSUME "write" \notin errs, AllApart, step # "write",
                        step \in {"results", "done"} \/ HasResults',
                        NEW dir \in Directory, NEW r \in Planned(dir)
                 PROVE  \/ [dir |-> dir, req |-> r] \in ToSet(todo)
                        \/ \A f \in FileSet(dir, r) : f \in ToSet(writing) \/ Arrived(f)'
    BY <1>1, <2>1, PlanKept DEF Progress, Alive
  <2>3. step \in {"results", "done"}
    <3>1. CASE step \in {"mkdir", "resources", "apply", "check"}
      <4>1. written' = <<>>
        BY <1>4, <3>1 DEF CmdInv, Phases
      <4>2. QED
        BY <2>2, <4>1 DEF HasResults
    <3>2. QED
      BY <1>1, <2>2, <3>1 DEF CmdInv, CmdTypes, Step
  <2>4. \/ [dir |-> dir, req |-> r] \in ToSet(todo)
        \/ \A f \in FileSet(dir, r) : f \in ToSet(writing) \/ Arrived(f)
    BY <2>2, <2>3 DEF CmdInv, Progress
  <2>5. ASSUME NEW f \in FileSet(dir, r), Arrived(f) PROVE Arrived(f)'
    <3>1. f.path # ResultsFile
      BY <2>2, PlannedIsJob, FilesArePlanned, PlannedPaths
    <3>2. QED
      BY <1>4, <2>3, <2>5, <3>1 DEF Arrived
  <2>6. QED
    BY <2>4, <2>5
<1>11. QED
  BY <1>5, <1>6, <1>7, <1>9, <1>10 DEF CmdInv

\* What was there before does not depend on what the run does.
LEMMA BeforeStays == [CmdNext]_allVars => before' = before
BY DEF CmdNext, CmdStep, MakeOutputDirectory, GetOutputResources, RunOnceDone, PanicOnNil,
       ValidateAndFilter, NextRequest, WriteNextFile, AllWritten, WriteResults, Exit,
       RunOnceStep, Kill, Exited, allVars, cmdVars

\* The invariant holds in every state of the command.
THEOREM CommandInvariant == CmdSpec => [](RunInv /\ CmdInv /\ before \in Leftovers)
<1>1. CmdInit => RunInv /\ CmdInv /\ before \in Leftovers
  BY RunInvInit, CmdInvInit DEF CmdInit
<1>2. RunInv /\ CmdInv /\ before \in Leftovers /\ [CmdNext]_allVars
        => (RunInv /\ CmdInv /\ before \in Leftovers)'
  <2>1. RunInv /\ [CmdNext]_allVars => RunInv'
    BY CommandRuns, TypesStep, StagesStep, EnabledStep, AcknowledgedStep, ReportingStep DEF RunInv
  <2>2. ASSUME RunInv, CmdInv, CmdStep PROVE CmdInv'
    BY <2>2, EarlySteps, ValidateStep, NextRequestStep, WriteStep, AllWrittenStep, ResultsStep, ExitStep
       DEF CmdStep
  <2>3. ASSUME CmdInv, Exited \/ UNCHANGED allVars PROVE CmdInv'
    BY <2>3, CmdInvKept DEF Exited, allVars, vars, loopVars, returnVars
  <2>4. QED
    BY <2>1, <2>2, <2>3, RunSteps, KillStep, BeforeStays DEF CmdNext
<1>3. QED
  BY <1>1, <1>2, PTL DEF CmdSpec

-----------------------------------------------------------------------------
(* The theorems.                                                           *)

\* All variables, those of the run included, have their types.
THEOREM CommandTypes == CmdSpec => []CmdTypeOK
<1>1. ASSUME RunInv, CmdInv, before \in Leftovers PROVE CmdTypeOK
  <2>1. ASSUME NEW p \in DOMAIN written PROVE IsOutputPath(p)
    <3>1. CASE p = ResultsFile
      BY <3>1 DEF IsOutputPath
    <3>2. ASSUME NEW f \in PlannedFile, p = f.path PROVE IsOutputPath(p)
      <4>1. PICK j \in Job : p = PathOf(j.dir, j.req, f.path.file)
        BY <3>2, PlannedFiles
      <4>2. j.dir \in Directory
        BY DEF Job
      <4>3. QED
        BY <4>1, <4>2, Paths, PathIsRecord DEF IsOutputPath
    <3>3. QED
      BY <1>1, <3>1, <3>2 DEF CmdInv, OnDisk
  <2>2. \A i \in DOMAIN todo : todo[i].dir \in Directory
    BY <1>1 DEF CmdInv, CmdTypes, Job
  <2>3. QED
    BY <1>1, <2>1, <2>2, RunInvTypes DEF CmdTypeOK, CmdInv, CmdTypes
<1>2. QED
  BY <1>1, CommandInvariant, PTL

\* Whatever the controllers write, the resources declare and the file system
\* refuses: a command that exits with 0 left no mutation of its run out.
THEOREM ExitOk == CmdSpec => []ExitOkMeansComplete
<1>1. ASSUME CmdInv, exit = "ok"
      PROVE  /\ failed = {}
             /\ ResultsFile \in DOMAIN files /\ files[ResultsFile] = [results |-> report]
             /\ UNION {Views[ct] : ct \in ClusterType} = ToSet(Mutations)
             /\ \A p \in FilesIn("Unspecified") : Kept(p)
  <2>1. errs = {} /\ step = "exit"
    BY <1>1 DEF CmdInv, Phases
  <2>2. failed = {} /\ ResultsFile \in DOMAIN files /\ files[ResultsFile] = [results |-> report]
    BY <1>1, <2>1, Overlay DEF CmdInv, ErrorsAreKept, ResultsContent
  <2>3. UnspecifiedMutations = {}
    BY <1>1, <2>1 DEF CmdInv, ErrorsAreKept, AllIsSpecified, IsValid, UnspecifiedMutations
  <2>4. ASSUME NEW req \in ToSet(Mutations) PROVE \E ct \in ClusterType : req \in Views[ct]
    BY <2>3, ViewsAndUnspecifiedPartition DEF Views, UnspecifiedMutations
  <2>5. ASSUME NEW ct \in ClusterType PROVE Views[ct] \subseteq ToSet(Mutations)
    BY PlannedIsReturned DEF Planned, Directory, ClusterType
  <2>6. ASSUME NEW p \in FilesIn("Unspecified"), p \in DOMAIN written PROVE FALSE
    <3>1. p \in DOMAIN written /\ p.dir = "Unspecified"
      BY <2>6 DEF FilesIn
    <3>2. p # ResultsFile
      BY <3>1 DEF ResultsFile
    <3>3. PICK j \in Job : p.dir = j.dir
      BY <1>1, <3>1, <3>2, PlannedPaths DEF CmdInv, OnDisk
    <3>4. QED
      BY <2>3, <3>1, <3>3 DEF Job, Planned
  <2>7. \A p \in FilesIn("Unspecified") : Kept(p)
    BY <2>6, Overlay DEF FilesIn, Kept
  <2>8. QED
    BY <2>2, <2>4, <2>5, <2>7
<1>2. CmdInv => ExitOkMeansComplete
  BY <1>1 DEF ExitOkMeansComplete
<1>3. QED
  BY <1>2, CommandInvariant, PTL

\* What the body of a mutation is.
LEMMA Bodies ==
    ASSUME output \in Seq(Entry), NEW r \in ToSet(Mutations)
    PROVE  \E h \in Write : \E c :
              /\ r = [Serialize(h) EXCEPT !.controller = c]
              /\ r.action = ActionOf(h) /\ r.resource = h.resource /\ r.ns = h.ns /\ r.body = h.body
              /\ r.name = (IF ActionOf(h) = "Create" THEN h.body.name ELSE h.name)
              /\ r.generateName = (IF HasObjectBody(ActionOf(h)) THEN h.body.generateName ELSE NoName)
<1>1. PICK i \in DOMAIN output : r = RequestOf(output[i])
  BY DEF ToSet, Mutations
<1>2. output[i].write \in Write
  <2>1. output[i] \in Entry
    BY <1>1
  <2>2. QED
    BY <2>1 DEF Entry
<1>3. r = [Serialize(output[i].write) EXCEPT !.controller = output[i].controller]
  BY <1>1 DEF RequestOf
<1>4. QED
  BY <1>2, <1>3 DEF Serialize

\* A body of this run is that of one of its mutations, at the place of it.
LEMMA WrittenBody ==
    ASSUME CmdInv, NEW p \in DOMAIN written, p.file = "body", written[p] # Truncated
    PROVE  \E r \in ToSet(Mutations) :
              p = PathOf(p.dir, r, "body") /\ written[p] = r.body /\ [dir |-> p.dir, req |-> r] \in Job
<1>1. p # ResultsFile
  BY DEF ResultsFile
<1>2. PICK f \in PlannedFile : p = f.path /\ written[p] = f.content
  BY <1>1 DEF CmdInv, OnDisk
<1>3. PICK j \in Job :
          /\ j.req \in ToSet(Mutations)
          /\ f.path = PathOf(j.dir, j.req, f.path.file)
          /\ f.path.file = "body" => f.content = j.req.body
  BY PlannedFiles
<1>4. p = PathOf(j.dir, j.req, "body") /\ written[p] = j.req.body
  BY <1>2, <1>3
<1>5. j.dir = p.dir /\ j = [dir |-> p.dir, req |-> j.req]
  BY <1>4, Paths DEF Job
<1>6. QED
  BY <1>3, <1>4, <1>5

\* And so are its metadata.
LEMMA WrittenMetadata ==
    ASSUME CmdInv, NEW p \in DOMAIN written, p.file = "metadata", written[p] # Truncated
    PROVE  \E r \in ToSet(Mutations) : p = PathOf(p.dir, r, "metadata") /\ written[p] = Metadata(r)
<1>1. p # ResultsFile
  BY DEF ResultsFile
<1>2. PICK f \in PlannedFile : p = f.path /\ written[p] = f.content
  BY <1>1 DEF CmdInv, OnDisk
<1>3. PICK j \in Job :
          /\ j.req \in ToSet(Mutations)
          /\ f.path = PathOf(j.dir, j.req, f.path.file)
          /\ f.path.file = "metadata" => f.content = Metadata(j.req)
  BY PlannedFiles
<1>4. p = PathOf(j.dir, j.req, "metadata") /\ written[p] = Metadata(j.req) /\ j.dir = p.dir
  BY <1>2, <1>3, Paths
<1>5. QED
  BY <1>3, <1>4

\* Killed at any moment, after any failures, and over whatever was there before:
\* what this run has put in place of a body or of its metadata is of a mutation
\* of this run that belongs there.
THEOREM PartialOutput == CmdSpec => []PartialOutputIsGenuine
<1>1. ASSUME CmdInv, before \in Leftovers, AllApart, NEW dir \in Directory, NEW p \in BodyPaths(files, dir),
             NEW m, m = At(p, "metadata"), Readable(files, p), WholeFile(p), WholeFile(m)
      PROVE  \/ Kept(p) /\ Kept(m)
             \/ \E r \in ToSet(Mutations) :
                   /\ p = PathOf(dir, r, "body")
                   /\ Kept(p) \/ files[p] = r.body
                   /\ Kept(m) \/ files[m] = Metadata(r)
  <2>1. /\ p \in DOMAIN files /\ p.dir = dir /\ p.file = "body" /\ files[p] # Truncated
        /\ m \in DOMAIN files /\ files[m] # Truncated
    BY <1>1 DEF BodyPaths, Readable, WholeFile
  <2>2. CASE p \in DOMAIN written
    <3>1. PICK r \in ToSet(Mutations) : p = PathOf(dir, r, "body") /\ files[p] = r.body
      BY <1>1, <2>1, <2>2, WrittenBody, Overlay
    <3>2. CASE m \notin DOMAIN written
      BY <2>1, <3>1, <3>2, Overlay DEF Kept
    <3>3. CASE m \in DOMAIN written
      <4>1. m = PathOf(dir, r, "metadata")
        BY <1>1, <3>1, Paths
      <4>2. m.file = "metadata" /\ written[m] # Truncated
        BY <2>1, <3>3, <4>1, Paths, Overlay
      <4>3. PICK q \in ToSet(Mutations) : m = PathOf(m.dir, q, "metadata") /\ written[m] = Metadata(q)
        BY <1>1, <3>3, <4>2, WrittenMetadata
      <4>4. q = r
        BY <1>1, <4>1, <4>3, ApartFiles
      <4>5. QED
        BY <3>1, <3>3, <4>3, <4>4, Overlay
    <3>4. QED
      BY <3>2, <3>3
  <2>3. CASE p \notin DOMAIN written
    <3>1. Kept(p)
      BY <2>1, <2>3, Overlay DEF Kept
    <3>2. CASE m \notin DOMAIN written
      BY <2>1, <3>1, <3>2, Overlay DEF Kept
    <3>3. CASE m \in DOMAIN written
      <4>1. IsOutputPath(p) /\ p # ResultsFile
        BY <1>1, <2>1, <3>1, CommandAssumption DEF CommandAssumption, Kept, ResultsFile
      <4>2. m.file = "metadata" /\ m.dir = dir
        <5>1. p = [field \in PathFields |-> p[field]]
          BY <4>1 DEF IsOutputPath
        <5>2. QED
          BY <1>1, <2>1, <5>1 DEF At, PathFields
      <4>3. PICK r \in ToSet(Mutations) : m = PathOf(dir, r, "metadata") /\ written[m] = Metadata(r)
        BY <1>1, <2>1, <3>3, <4>2, WrittenMetadata, Overlay
      <4>4. p = PathOf(dir, r, "body")
        BY <1>1, <2>1, <4>1, <4>3, BesidePath
      <4>5. QED
        BY <3>1, <3>3, <4>3, <4>4, Overlay
    <3>4. QED
      BY <3>2, <3>3
  <2>4. QED
    BY <2>2, <2>3
<1>2. CmdInv /\ before \in Leftovers => PartialOutputIsGenuine
  BY <1>1 DEF PartialOutputIsGenuine
<1>3. QED
  BY <1>2, CommandInvariant, PTL

\* Whatever was sent to whatever URL: an object this run has written to the
\* directory of a cluster type is one that the list of that cluster type declares.
THEOREM DeclaredOnly == CmdSpec => []OnlyDeclaredObjects
<1>1. ASSUME RunInv, CmdInv, NEW ct \in ClusterType, NEW p \in BodyPaths(files, ct),
             Readable(files, p), HasObjectBody(p.action), p.action # "Delete", files[p] # Truncated, ~Kept(p)
      PROVE  Declares(allowed[ct], p.resource, files[p])
  <2>1. p \in DOMAIN written /\ p.dir = ct /\ p.file = "body" /\ written[p] = files[p]
    BY <1>1, Overlay DEF BodyPaths, Readable, Kept
  <2>2. ct # "Unspecified"
    BY DEF ClusterType
  <2>3. PICK r \in ToSet(Mutations) :
            p = PathOf(ct, r, "body") /\ files[p] = r.body /\ [dir |-> ct, req |-> r] \in Job
    BY <1>1, <2>1, WrittenBody
  <2>4. PICK j \in Job : j.dir = ct /\ j.req = r
    BY <2>3
  <2>5. p = PathOf(j.dir, j.req, "body") /\ files[p] = j.req.body
    BY <2>3, <2>4
  <2>6. j.dir = ct /\ p.action = j.req.action /\ p.resource = j.req.resource
    BY <2>4, <2>5, Paths
  <2>7. j.req \in ToSet(Mutations) /\ MatchesFilter(j.req, allowed[ct])
    BY <2>2, <2>6 DEF Job, Planned, Views, FilterAll, Filter
  <2>8. output \in Seq(Entry)
    BY <1>1 DEF RunInv, LoopTypeOK
  <2>9. PICK h \in Write :
              /\ j.req.action = ActionOf(h) /\ j.req.resource = h.resource /\ j.req.ns = h.ns /\ j.req.body = h.body
              /\ j.req.name = (IF ActionOf(h) = "Create" THEN h.body.name ELSE h.name)
              /\ j.req.generateName = (IF HasObjectBody(ActionOf(h)) THEN h.body.generateName ELSE NoName)
    BY <2>7, <2>8, Bodies
  <2>10. BodyAgreesWithURL(h)
    BY <1>1, <2>6, <2>9, CommandAssumption DEF CommandAssumption, Accepted
  <2>11. /\ j.req.ns = h.body.ns /\ j.req.name = h.body.name
         /\ j.req.generateName = h.body.generateName
    BY <1>1, <2>6, <2>9, <2>10 DEF BodyAgreesWithURL
  <2>12. QED
    BY <2>5, <2>6, <2>7, <2>9, <2>11 DEF MatchesFilter, Declares
<1>2. RunInv /\ CmdInv => OnlyDeclaredObjects
  BY <1>1 DEF OnlyDeclaredObjects
<1>3. QED
  BY <1>2, CommandInvariant, PTL

\* A file of the plan other than those of a request is not at its paths.
LEMMA FileAt ==
    ASSUME AllApart, NEW f \in PlannedFile, NEW dir, NEW r \in ToSet(Mutations), NEW file,
           f.path = PathOf(dir, r, file)
    PROVE  f \in FileSet(dir, r) /\ f.path.file = file
<1>1. PICK j \in Job : /\ j.req \in ToSet(Mutations) /\ f \in FileSet(j.dir, j.req)
                       /\ f.path = PathOf(j.dir, j.req, f.path.file)
  BY PlannedFiles
<1>2. PathOf(j.dir, j.req, f.path.file) = PathOf(dir, r, file)
  BY <1>1
<1>3. j.req = r /\ j.dir = dir /\ f.path.file = file
  BY <1>1, <1>2, ApartFiles
<1>4. QED
  BY <1>1, <1>3

\* With the results in place and no error, everything planned is on disk, and
\* this run has written nothing else.
LEMMA ResultsComeLast ==
    ASSUME CmdInv, HasResults, "write" \notin errs, AllApart
    PROVE  /\ \A dir \in Directory : \A r \in Planned(dir) : \A f \in FileSet(dir, r) : Arrived(f)
           /\ \A p \in DOMAIN written : p # ResultsFile => \E f \in PlannedFile : p = f.path /\ written[p] = f.content
<1>1. ResultsFile \in DOMAIN written
  BY DEF HasResults
<1>2. step \in {"results", "done", "exit"}
  BY <1>1, PlannedPaths DEF CmdInv, OnDisk
<1>3. ToSet(todo) = {} /\ ToSet(writing) = {}
  <2>1. todo = <<>> /\ writing = <<>>
    BY <1>2 DEF CmdInv, Phases
  <2>2. QED
    BY <2>1 DEF ToSet
<1>4. \A dir \in Directory : \A r \in Planned(dir) : \A f \in FileSet(dir, r) : Arrived(f)
  BY <1>3 DEF CmdInv, Progress
<1>5. ASSUME NEW p \in DOMAIN written, p # ResultsFile
      PROVE  \E f \in PlannedFile : p = f.path /\ written[p] = f.content
  <2>1. PICK f \in PlannedFile : p = f.path
    BY <1>5 DEF CmdInv, OnDisk
  <2>2. Arrived(f)
    BY <1>4 DEF PlannedFile, Job
  <2>3. QED
    BY <2>1, <2>2 DEF Arrived
<1>6. QED
  BY <1>4, <1>5

\* A file this run has written to a directory is one of a request planned for it.
LEMMA WrittenIsPlanned ==
    ASSUME CmdInv, HasResults, "write" \notin errs, AllApart, NEW dir \in Directory,
           NEW p \in DOMAIN written, p.dir = dir
    PROVE  \E r \in Planned(dir) : p = PathOf(dir, r, p.file)
<1>1. p # ResultsFile
  BY DEF ResultsFile, Directory, ClusterType
<1>2. PICK f \in PlannedFile : p = f.path
  BY <1>1, ResultsComeLast
<1>3. PICK j \in Job : f.path = PathOf(j.dir, j.req, f.path.file)
  BY PlannedFiles
<1>4. j.dir = dir
  BY <1>2, <1>3, Paths
<1>5. QED
  BY <1>2, <1>3, <1>4 DEF Job

\* A request whose files have arrived is read back as it was, or with options
\* that an earlier run left in their place.
LEMMA RequestIsRead ==
    ASSUME CmdInv, output \in Seq(Entry), HasResults, "write" \notin errs, AllApart,
           NEW dir \in Directory, NEW r \in Planned(dir)
    PROVE  /\ PathOf(dir, r, "metadata") \in DOMAIN files /\ PathOf(dir, r, "body") \in DOMAIN files
           /\ files[PathOf(dir, r, "body")] = r.body
           /\ FileRequest(files, PathOf(dir, r, "body")) = AsRead(dir, r)
<1>1. r \in ToSet(Mutations)
  BY PlannedIsReturned
<1>2. \A f \in FileSet(dir, r) : Arrived(f)
  BY ResultsComeLast
<1> DEFINE b == PathOf(dir, r, "body")
           m == PathOf(dir, r, "metadata")
           o == PathOf(dir, r, "options")
           options == IF r.options = Empty THEN ReadOptions(before, o) ELSE r.options
<1>3. m \in DOMAIN files /\ files[m] = Metadata(r) /\ b \in DOMAIN files /\ files[b] = r.body
  <2>1. Arrived(File(dir, r, "metadata", Metadata(r))) /\ Arrived(File(dir, r, "body", r.body))
    BY <1>2 DEF FileSet
  <2>2. m \in DOMAIN written /\ written[m] = Metadata(r) /\ b \in DOMAIN written /\ written[b] = r.body
    BY <2>1 DEF Arrived, File
  <2>3. QED
    BY <2>2, Overlay
<1>4. At(b, "metadata") = m /\ At(b, "options") = o
  BY Paths
<1>5. ReadMetadata(files, m) = Metadata(r)
  BY <1>3, NothingIsTruncated DEF ReadMetadata
<1>6. ReadOptions(files, o) = options
  <2>1. CASE r.options # Empty
    <3>1. Arrived(File(dir, r, "options", [options |-> r.options]))
      BY <1>2, <2>1 DEF FileSet
    <3>2. o \in DOMAIN files /\ files[o] = [options |-> r.options]
      BY <3>1, Overlay DEF Arrived, File
    <3>3. QED
      BY <2>1, <3>2, NothingIsTruncated DEF ReadOptions
  <2>2. CASE r.options = Empty
    <3>1. ASSUME o \in DOMAIN written PROVE FALSE
      <4>1. PICK f \in PlannedFile : o = f.path
        BY <3>1, Paths, ResultsComeLast
      <4>2. f \in FileSet(dir, r) /\ f.path.file = "options"
        BY <1>1, <4>1, FileAt
      <4>3. QED
        BY <2>2, <4>2, FileKinds
    <3>2. /\ o \in DOMAIN files <=> o \in DOMAIN before
          /\ o \in DOMAIN before => files[o] = before[o]
      BY <3>1, Overlay
    <3>3. QED
      BY <2>2, <3>2 DEF ReadOptions
  <2>3. QED
    BY <2>1, <2>2
<1> HIDE DEF options
<1>7. /\ DOMAIN r = MetadataFields \cup {"body", "options"}
      /\ r = [field \in DOMAIN r |-> r[field]]
  BY <1>1, Bodies DEF Serialize, MetadataFields
<1>8. FileRequest(files, b) = [field \in MetadataFields \cup {"body", "options"} |->
            CASE field = "body"    -> r.body
              [] field = "options" -> options
              [] OTHER             -> Metadata(r)[field]]
  BY <1>3, <1>4, <1>5, <1>6 DEF FileRequest
<1>9. AsRead(dir, r) = [field \in DOMAIN r |-> IF field = "options" THEN options ELSE r[field]]
  BY <1>7 DEF AsRead, options
<1>10. ASSUME NEW field \in MetadataFields \cup {"body", "options"}
       PROVE  FileRequest(files, b)[field] = AsRead(dir, r)[field]
  BY <1>7, <1>8, <1>9 DEF Metadata, MetadataFields
<1>11. FileRequest(files, b) = AsRead(dir, r)
  BY <1>7, <1>8, <1>9, <1>10
<1>12. QED
  BY <1>3, <1>11

\* This run has written none of the files of an earlier body that is at the
\* place of none of its own.
LEMMA StaleIsUntouched ==
    ASSUME CmdInv, before \in Leftovers, HasResults, "write" \notin errs, AllApart, NEW dir \in Directory,
           NEW p \in StaleBodies(dir, Planned(dir)), p.file = "body", NEW file \in {"metadata", "body", "options"}
    PROVE  At(p, file) \notin DOMAIN written
<1>1. p \in DOMAIN before /\ p.dir = dir /\ \A r \in Planned(dir) : p # PathOf(dir, r, "body")
  BY DEF StaleBodies, BodyPaths
<1>2. IsOutputPath(p) /\ p # ResultsFile
  BY <1>1, CommandAssumption DEF CommandAssumption, ResultsFile, Directory, ClusterType
<1>3. p = [field \in PathFields |-> p[field]]
  BY <1>2 DEF IsOutputPath
<1>4. At(p, file).dir = dir /\ At(p, file).file = file
  BY <1>1, <1>3 DEF At, PathFields
<1>5. SUFFICES ASSUME At(p, file) \in DOMAIN written PROVE FALSE
  OBVIOUS
<1>6. PICK r \in Planned(dir) : At(p, file) = PathOf(dir, r, file)
  BY <1>4, <1>5, WrittenIsPlanned
<1>7. p = PathOf(dir, r, "body")
  BY <1>2, <1>6, BesidePath
<1>8. QED
  BY <1>1, <1>7

\* So it is read, or not, as it was before.
LEMMA StaleIsRead ==
    ASSUME CmdInv, before \in Leftovers, HasResults, "write" \notin errs, AllApart, NEW dir \in Directory,
           NEW p \in StaleBodies(dir, Planned(dir))
    PROVE  /\ Readable(files, p) <=> Readable(before, p)
           /\ Readable(files, p) => FileRequest(files, p) = FileRequest(before, p)
<1>1. CASE p.file # "body"
  BY <1>1 DEF Readable
<1>2. CASE p.file = "body"
  <2> DEFINE m == At(p, "metadata")
             o == At(p, "options")
  <2>1. p \in DOMAIN before /\ p.dir = dir
    BY DEF StaleBodies, BodyPaths
  <2>2. p = At(p, "body")
    <3>1. IsOutputPath(p) /\ p # ResultsFile
      BY <2>1, CommandAssumption DEF CommandAssumption, ResultsFile, Directory, ClusterType
    <3>2. p = [field \in PathFields |-> p[field]]
      BY <3>1 DEF IsOutputPath
    <3>3. QED
      BY <1>2, <3>2 DEF At
  <2>3. p \notin DOMAIN written /\ m \notin DOMAIN written /\ o \notin DOMAIN written
    BY <1>2, <2>2, StaleIsUntouched
  <2>4. files[p] = before[p]
    BY <2>1, <2>3, Overlay
  <2>5. m \in DOMAIN files <=> m \in DOMAIN before
    BY <2>3, Overlay
  <2>6. m \in DOMAIN before => ReadMetadata(files, m) = ReadMetadata(before, m)
    BY <2>3, Overlay DEF ReadMetadata
  <2>7. ReadOptions(files, o) = ReadOptions(before, o)
    BY <2>3, Overlay DEF ReadOptions
  <2> HIDE DEF m, o
  <2>8. Readable(files, p) <=> Readable(before, p)
    BY <2>4, <2>5 DEF Readable, m
  <2>9. Readable(files, p) => m \in DOMAIN before
    BY <2>5 DEF Readable, m
  <2>10. Readable(files, p) => FileRequest(files, p) = FileRequest(before, p)
    BY <2>4, <2>6, <2>7, <2>9 DEF FileRequest, m, o
  <2>11. QED
    BY <2>8, <2>10
<1>3. QED
  BY <1>1, <1>2

\* A directory with the files of its requests stands for them, and for what was
\* left there before.
LEMMA DirectoryStands ==
    ASSUME CmdInv, before \in Leftovers, output \in Seq(Entry), HasResults, "write" \notin errs, AllApart,
           NEW dir \in Directory
    PROVE  StandsFor(dir, Planned(dir))
<1> DEFINE stale == StaleBodies(dir, Planned(dir))
           Body(r) == PathOf(dir, r, "body")
<1>1. ASSUME NEW r \in Planned(dir), ToSet(BaseName(r)) \cap BodyLike # {}
      PROVE  ~ReadsBack(files, dir)
  <2> DEFINE p == PathOf(dir, r, "metadata")
  <2>1. p \in DOMAIN files
    BY RequestIsRead
  <2>2. p.dir = dir /\ p.base = BaseName(r) /\ p.file = "metadata"
    BY Paths
  <2>3. p \in BodyPaths(files, dir) /\ ~Readable(files, p)
    BY <1>1, <2>1, <2>2 DEF BodyPaths, Readable
  <2>4. QED
    BY <2>3 DEF ReadsBack
<1>2. ASSUME \A r \in Planned(dir) : ToSet(BaseName(r)) \cap BodyLike = {}
      PROVE  /\ ReadsBack(files, dir) <=> \A p \in stale : Readable(before, p)
             /\ ReadsBack(files, dir) =>
                   ReadRequests(files, dir)
                     = {AsRead(dir, r) : r \in Planned(dir)} \cup {FileRequest(before, p) : p \in stale}
  <2>1. ASSUME NEW p \in BodyPaths(files, dir), p \notin stale
        PROVE  \E r \in Planned(dir) : p = Body(r)
    <3>1. CASE p \in DOMAIN written
      <4>1. PICK r \in Planned(dir) : p = PathOf(dir, r, p.file)
        BY <3>1, WrittenIsPlanned DEF BodyPaths
      <4>2. p.base = BaseName(r)
        BY <4>1, Paths
      <4>3. p.file = "body"
        BY <1>2, <4>2 DEF BodyPaths
      <4>4. QED
        BY <4>1, <4>3
    <3>2. CASE p \notin DOMAIN written
      <4>1. p \in BodyPaths(before, dir)
        BY <3>2, Overlay DEF BodyPaths
      <4>2. QED
        BY <2>1, <4>1 DEF StaleBodies
    <3>3. QED
      BY <3>1, <3>2
  <2>2. stale \subseteq BodyPaths(files, dir)
    BY Overlay DEF StaleBodies, BodyPaths
  <2>3. ASSUME NEW r \in Planned(dir) PROVE Body(r) \in BodyPaths(files, dir)
    BY RequestIsRead, Paths DEF BodyPaths
  <2>4. ASSUME NEW r \in Planned(dir) PROVE Readable(files, Body(r))
    <3> DEFINE p == Body(r)
    <3>1. At(p, "metadata") \in DOMAIN files /\ p.file = "body"
      BY RequestIsRead, Paths
    <3>2. r.body # Truncated
      BY PlannedIsReturned, Bodies, CommandAssumption DEF CommandAssumption
    <3>3. files[p] # Truncated
      BY <3>2, RequestIsRead
    <3>4. QED
      BY <3>1, <3>3 DEF Readable
  <2>5. \A r \in Planned(dir) : FileRequest(files, Body(r)) = AsRead(dir, r)
    BY RequestIsRead
  <2>6. \A p \in stale : /\ Readable(files, p) <=> Readable(before, p)
                         /\ Readable(files, p) => FileRequest(files, p) = FileRequest(before, p)
    BY StaleIsRead
  <2> HIDE DEF stale, Body
  <2>7. ReadsBack(files, dir) <=> \A p \in stale : Readable(before, p)
    BY <2>1, <2>2, <2>4, <2>6 DEF ReadsBack
  <2>8. ASSUME ReadsBack(files, dir)
        PROVE  ReadRequests(files, dir)
                 = {AsRead(dir, r) : r \in Planned(dir)} \cup {FileRequest(before, p) : p \in stale}
    <3>1. \A p \in stale : FileRequest(files, p) = FileRequest(before, p)
      BY <2>2, <2>6, <2>8 DEF ReadsBack
    <3>2. BodyPaths(files, dir) = {Body(r) : r \in Planned(dir)} \cup stale
      BY <2>1, <2>2, <2>3
    <3>3. QED
      BY <2>5, <3>1, <3>2 DEF ReadRequests
  <2>9. QED
    BY <2>7, <2>8
<1>3. QED
  BY <1>1, <1>2 DEF StandsFor

\* Whoever finds the complete results of this run and was told of no write
\* error reads back all that the run decided, and of what was there before no
\* more than lay at no place of this run; whatever else failed and whenever the
\* process came to its end.
THEOREM ResultsComplete == CmdSpec => []ResultsMeanAllIsWritten
<1>1. ASSUME RunInv, CmdInv, before \in Leftovers, HasResults, "write" \notin errs, AllApart
      PROVE  /\ \A ct \in ClusterType : StandsFor(ct, Views[ct])
             /\ StandsFor("Unspecified", UnspecifiedMutations)
  <2>1. \A dir \in Directory : StandsFor(dir, Planned(dir))
    BY <1>1, DirectoryStands DEF RunInv, LoopTypeOK
  <2>2. /\ \A ct \in ClusterType : ct \in Directory /\ Planned(ct) = Views[ct]
        /\ "Unspecified" \in Directory /\ Planned("Unspecified") = UnspecifiedMutations
    BY DEF Directory, ClusterType, Planned
  <2>3. QED
    BY <2>1, <2>2
<1>2. RunInv /\ CmdInv /\ before \in Leftovers => ResultsMeanAllIsWritten
  BY <1>1 DEF ResultsMeanAllIsWritten
<1>3. QED
  BY <1>2, CommandInvariant, PTL

-----------------------------------------------------------------------------
(* The command is the process its callers see.                             *)

ResultsEntry == [path |-> ResultsFile, content |-> [results |-> report]]

\* The files of all jobs are those of the first, and those of the others.
LEMMA FilesUnroll ==
    ASSUME NEW jobs \in Seq(Job)
    PROVE  /\ FilesOfAll(jobs) \in Seq(PlannedFile)
           /\ jobs = <<>> => FilesOfAll(jobs) = <<>>
           /\ jobs # <<>> =>
                /\ FilesOf(Head(jobs).dir, Head(jobs).req) \in Seq(PlannedFile)
                /\ FilesOf(Head(jobs).dir, Head(jobs).req) # <<>>
                /\ FilesOfAll(Tail(jobs)) \in Seq(PlannedFile)
                /\ FilesOfAll(jobs) = FilesOf(Head(jobs).dir, Head(jobs).req) \o FilesOfAll(Tail(jobs))
<1> DEFINE s == [i \in DOMAIN jobs |-> FilesOf(jobs[i].dir, jobs[i].req)]
<1>1. DOMAIN jobs = 1..Len(jobs) /\ Len(jobs) \in Nat
  OBVIOUS
<1>2. ASSUME NEW j \in Job
      PROVE  FilesOf(j.dir, j.req) \in Seq(PlannedFile) /\ FilesOf(j.dir, j.req) # <<>>
  <2>1. FilesOf(j.dir, j.req) \in Seq(PlannedFile) /\ ToSet(FilesOf(j.dir, j.req)) = FileSet(j.dir, j.req)
    BY FilesOfRequest, FilesArePlanned, SeqMonotonic
  <2>2. FileSet(j.dir, j.req) # {} /\ ToSet(<<>>) = {}
    BY DEF FileSet, ToSet
  <2>3. QED
    BY <2>1, <2>2
<1>3. s \in Seq(Seq(PlannedFile)) /\ Len(s) = Len(jobs)
  <2>1. \A i \in 1..Len(jobs) : jobs[i] \in Job
    BY <1>1
  <2>2. QED
    BY <1>1, <1>2, <2>1
<1>4. CASE jobs = <<>>
  <2>1. s = <<>>
    BY <1>3, <1>4
  <2>2. FilesOfAll(jobs) = <<>>
    BY <2>1, FlattenNothing DEF FilesOfAll
  <2>3. QED
    BY <1>4, <2>2, EmptySeq
<1>5. CASE jobs # <<>>
  <2> DEFINE t == [i \in DOMAIN Tail(jobs) |-> FilesOf(Tail(jobs)[i].dir, Tail(jobs)[i].req)]
  <2>1. /\ Head(jobs) \in Job /\ Tail(jobs) \in Seq(Job) /\ Len(Tail(jobs)) = Len(jobs) - 1
        /\ \A i \in 1..Len(Tail(jobs)) : Tail(jobs)[i] = jobs[i + 1]
    BY <1>5, HeadTailProperties
  <2>2. s # <<>> /\ Head(s) = FilesOf(Head(jobs).dir, Head(jobs).req)
    <3>1. Len(jobs) >= 1
      BY <1>1, <1>5
    <3>2. s # <<>> /\ Head(s) = s[1] /\ Head(jobs) = jobs[1]
      BY <1>3, <3>1
    <3>3. s[1] = FilesOf(jobs[1].dir, jobs[1].req)
      BY <1>1, <3>1
    <3>4. QED
      BY <3>2, <3>3
  <2>3. t = Tail(s)
    <3>1. DOMAIN Tail(jobs) = 1..Len(Tail(jobs)) /\ Len(Tail(jobs)) \in Nat
      BY <2>1
    <3>2. t \in Seq(Seq(PlannedFile)) /\ Len(t) = Len(jobs) - 1
      <4>1. \A i \in 1..Len(Tail(jobs)) : Tail(jobs)[i] \in Job
        BY <2>1
      <4>2. QED
        BY <1>2, <2>1, <3>1, <4>1
    <3>3. /\ Tail(s) \in Seq(Seq(PlannedFile)) /\ Len(Tail(s)) = Len(jobs) - 1
          /\ \A i \in 1..Len(Tail(s)) : Tail(s)[i] = s[i + 1]
      <4> HIDE DEF s
      <4>1. QED
        BY <1>3, <2>2, HeadTailProperties
    <3>4. ASSUME NEW i \in 1..Len(t) PROVE t[i] = Tail(s)[i]
      <4>1. i \in DOMAIN Tail(jobs) /\ i + 1 \in DOMAIN jobs /\ i \in 1..Len(Tail(s))
        BY <1>1, <2>1, <3>1, <3>2, <3>3
      <4>2. t[i] = FilesOf(jobs[i + 1].dir, jobs[i + 1].req)
        BY <2>1, <3>1, <4>1
      <4>3. s[i + 1] = FilesOf(jobs[i + 1].dir, jobs[i + 1].req)
        BY <4>1
      <4>4. Tail(s)[i] = s[i + 1]
        BY <3>3, <4>1
      <4>5. QED
        BY <4>2, <4>3, <4>4
    <3>5. QED
      <4> HIDE DEF s, t
      <4>1. QED
        BY <3>2, <3>3, <3>4, SeqEqual
  <2>4. /\ FlattenSeq(Tail(s)) \in Seq(PlannedFile) /\ Head(s) \in Seq(PlannedFile)
        /\ FlattenSeq(s) = Head(s) \o FlattenSeq(Tail(s))
    <3> HIDE DEF s
    <3>1. QED
      BY <1>3, <2>2, FlattenUnrolls
  <2>5. FilesOfAll(jobs) = FlattenSeq(s) /\ FilesOfAll(Tail(jobs)) = FlattenSeq(Tail(s))
    <3>1. FilesOfAll(Tail(jobs)) = FlattenSeq(t)
      BY DEF FilesOfAll
    <3>2. FilesOfAll(jobs) = FlattenSeq(s)
      BY DEF FilesOfAll
    <3>3. QED
      BY <2>3, <3>1, <3>2
  <2> DEFINE F == FilesOf(Head(jobs).dir, Head(jobs).req)
             R == FilesOfAll(Tail(jobs))
  <2>6. F \in Seq(PlannedFile) /\ F # <<>> /\ R \in Seq(PlannedFile) /\ FilesOfAll(jobs) = F \o R
    BY <1>2, <2>1, <2>2, <2>4, <2>5
  <2>7. F \o R \in Seq(PlannedFile)
    <3> HIDE DEF F, R
    <3>1. QED
      BY <2>6, ConcatProperties
  <2>8. QED
    BY <1>5, <2>6, <2>7
<1>6. QED
  BY <1>4, <1>5

\* The process sees the files, directories and results that the command does.
LEMMA SameWords ==
    /\ Process!ResultsFile = ResultsFile /\ Process!Truncated = Truncated
    /\ \A fs, path, content : Process!WriteFile(fs, path, content) = WriteFile(fs, path, content)
    /\ \A seq : Process!Last(seq) = Last(seq)
BY DEF Process!Last, Last, Process!ResultsFile, ResultsFile, Process!Truncated, Truncated, Process!WriteFile, WriteFile

\* What is unwritten while the mutations are written, and while the results are.
LEMMA UnwrittenIs ==
    ASSUME CmdInv
    PROVE  /\ step = "write" => Unwritten = (writing \o FilesOfAll(todo)) \o <<ResultsEntry>>
           /\ step = "results" => Unwritten = <<ResultsEntry>>
           /\ step \notin {"write", "results"} => Unwritten = <<>>
<1>1. ASSUME step = "results" PROVE Unwritten = <<ResultsEntry>>
  <2>1. Unwritten = (<<>> \o FilesOfAll(<<>>)) \o <<ResultsEntry>>
    BY <1>1 DEF CmdInv, Phases, Unwritten, ResultsEntry
  <2>2. FilesOfAll(<<>>) = <<>> /\ <<>> \in Seq({ResultsEntry}) /\ <<ResultsEntry>> \in Seq({ResultsEntry})
    <3>1. <<>> \in Seq(Job)
      BY EmptySeq
    <3>2. FilesOfAll(<<>>) = <<>>
      BY <3>1, FilesUnroll
    <3>3. QED
      BY <3>2, EmptySeq
  <2>3. <<>> \o <<>> = <<>> /\ <<>> \o <<ResultsEntry>> = <<ResultsEntry>>
    BY <2>2, ConcatEmptySeq
  <2>4. QED
    BY <2>1, <2>2, <2>3
<1>2. QED
  BY <1>1 DEF Unwritten, ResultsEntry

\* The mutations that remain to be written, of which the first is a file if a
\* request is being written.
LEMMA UnwrittenFirst ==
    ASSUME CmdInv, step = "write"
    PROVE  /\ Unwritten # <<>> /\ Last(Unwritten) = ResultsEntry
           /\ writing # <<>> =>
                /\ Head(Unwritten) = Head(writing)
                /\ Tail(Unwritten) = (Tail(writing) \o FilesOfAll(todo)) \o <<ResultsEntry>>
<1> DEFINE E == PlannedFile \cup {ResultsEntry}
           w == writing
           r == FilesOfAll(todo)
           e == <<ResultsEntry>>
<1>1. w \in Seq(E) /\ r \in Seq(E) /\ e \in Seq(E) /\ Len(e) = 1 /\ e[1] = ResultsEntry
  <2>1. w \in Seq(PlannedFile) /\ r \in Seq(PlannedFile)
    BY FilesUnroll DEF CmdInv, CmdTypes
  <2>2. QED
    BY <2>1, SeqMonotonic
<1>2. Unwritten = (w \o r) \o e
  BY UnwrittenIs
<1> HIDE DEF E, w, r, e
<1> DEFINE wr == w \o r
<1>3. wr \in Seq(E)
  BY <1>1, ConcatProperties
<1>4. w # <<>> => wr # <<>> /\ Head(wr) = Head(w) /\ Tail(wr) = Tail(w) \o r
  BY <1>1, ConcatHeadTail
<1> HIDE DEF wr
<1>5. /\ wr \o e \in Seq(E) /\ Len(wr \o e) = Len(wr) + 1 /\ Len(wr) \in Nat
      /\ (wr \o e)[Len(wr) + 1] = e[1]
  <2>1. /\ wr \o e \in Seq(E) /\ Len(wr \o e) = Len(wr) + Len(e)
        /\ \A i \in 1..(Len(wr) + Len(e)) : (wr \o e)[i] = IF i <= Len(wr) THEN wr[i] ELSE e[i - Len(wr)]
    BY <1>1, <1>3, ConcatProperties
  <2>2. Len(wr) \in Nat /\ ~(Len(wr) + 1 <= Len(wr)) /\ (Len(wr) + 1) - Len(wr) = 1
    BY <1>3
  <2>3. QED
    BY <1>1, <2>1, <2>2
<1>6. wr \o e # <<>> /\ Last(wr \o e) = ResultsEntry
  BY <1>1, <1>5 DEF Last
<1>7. wr # <<>> => Head(wr \o e) = Head(wr) /\ Tail(wr \o e) = Tail(wr) \o e
  BY <1>1, <1>3, ConcatHeadTail
<1>8. Unwritten = wr \o e
  BY <1>2 DEF wr
<1>9. w # <<>> => Head(Unwritten) = Head(w) /\ Tail(Unwritten) = Tail(wr) \o e /\ Tail(wr) = Tail(w) \o r
  BY <1>4, <1>7, <1>8
<1>10. w # <<>> => Tail(Unwritten) = (Tail(w) \o r) \o e
  BY <1>9
<1>11. Unwritten # <<>> /\ Last(Unwritten) = ResultsEntry
  BY <1>6, <1>8
<1>12. QED
  BY <1>9, <1>10, <1>11 DEF w, r, e

\* The same after a step.
LEMMA UnwrittenLast == CmdInv /\ step = "write" => Unwritten # <<>> /\ Last(Unwritten) = ResultsEntry
BY UnwrittenFirst
\* The same of the state after a step.
LEMMA UnwrittenLastNext ==
    (CmdInv /\ step = "write" => Unwritten # <<>> /\ Last(Unwritten) = ResultsEntry)'
BY UnwrittenLast, PTL

\* What is unwritten begins with the files of the next request.
LEMMA UnwrittenNext ==
    ASSUME CmdInv, step = "write", writing = <<>>, todo # <<>>
    PROVE  LET first == FilesOf(Head(todo).dir, Head(todo).req)
               rest  == (<<>> \o FilesOfAll(Tail(todo))) \o <<ResultsEntry>>
           IN  /\ Unwritten = (first \o FilesOfAll(Tail(todo))) \o <<ResultsEntry>>
               /\ Len(first) \in 1..(Len(Unwritten) - 1) /\ Len(Unwritten) \in Nat
               /\ SubSeq(Unwritten, Len(first) + 1, Len(Unwritten)) = rest
<1> DEFINE E == PlannedFile \cup {ResultsEntry}
           f == FilesOf(Head(todo).dir, Head(todo).req)
           r == FilesOfAll(Tail(todo))
           e == <<ResultsEntry>>
<1>1. /\ f \in Seq(E) /\ r \in Seq(E) /\ f # <<>> /\ FilesOfAll(todo) = f \o r
      /\ e \in Seq(E) /\ Len(e) = 1
  <2>1. f \in Seq(PlannedFile) /\ r \in Seq(PlannedFile) /\ f # <<>> /\ FilesOfAll(todo) = f \o r
    BY FilesUnroll DEF CmdInv, CmdTypes
  <2>2. QED
    BY <2>1, SeqMonotonic
<1>2. Unwritten = (<<>> \o FilesOfAll(todo)) \o e
  BY UnwrittenIs
<1> HIDE DEF E, f, r, e
<1>3. f \o r \in Seq(E) /\ r \o e \in Seq(E) /\ Len(r \o e) = Len(r) + 1
  <2>1. f \o r \in Seq(E)
    BY <1>1, ConcatProperties
  <2>2. r \o e \in Seq(E) /\ Len(r \o e) = Len(r) + Len(e)
    BY <1>1, ConcatProperties
  <2>3. QED
    BY <1>1, <2>1, <2>2
<1>4. Unwritten = (f \o r) \o e /\ <<>> \o r = r
  <2> DEFINE fr == f \o r
  <2>1. fr \in Seq(E) /\ FilesOfAll(todo) = fr
    BY <1>1, <1>3
  <2> HIDE DEF fr
  <2>2. Unwritten = fr \o e /\ <<>> \o r = r
    BY <1>1, <1>2, <2>1, ConcatEmptySeq
  <2>3. QED
    BY <2>2 DEF fr
<1>5. Unwritten = f \o (r \o e)
  <2>1. (f \o r) \o e = f \o (r \o e)
    BY <1>1, ConcatAssociative
  <2>2. QED
    BY <1>4, <2>1
<1> DEFINE re == r \o e
<1>6. Unwritten = f \o re /\ re \in Seq(E) /\ Len(re) = Len(r) + 1 /\ re = (<<>> \o r) \o e
  BY <1>3, <1>4, <1>5
<1> HIDE DEF re
<1>7. SubSeq(Unwritten, Len(f) + 1, Len(Unwritten)) = re /\ Len(Unwritten) = Len(f) + Len(re)
  <2>1. SubSeq(f \o re, Len(f) + 1, Len(f \o re)) = re
    BY <1>1, <1>6, ConcatDrop
  <2>2. Len(f \o re) = Len(f) + Len(re)
    BY <1>1, <1>6, ConcatProperties
  <2>3. QED
    BY <1>6, <2>1, <2>2
<1>8. Len(f) \in Nat /\ Len(f) # 0 /\ Len(r) \in Nat
  BY <1>1
<1>9. Len(f) \in 1..(Len(Unwritten) - 1) /\ Len(Unwritten) \in Nat
  BY <1>6, <1>7, <1>8
<1>10. QED
  BY <1>4, <1>6, <1>7, <1>9 DEF f, r, e

\* As long as the process sees no difference, it does nothing.
LEMMA ProcessStutters ==
    ASSUME UNCHANGED <<files, exit>>, Unwritten' = Unwritten,
           ("write" \notin errs)' = ("write" \notin errs),
           step' \in {"write", "results", "done"} <=> step \in {"write", "results", "done"}
    PROVE  UNCHANGED Process!processVars
BY DEF Process!processVars, ProcessStatus

\* Before anything is decided, the process starts, or gives up.
LEMMA ProcessStarts ==
    ASSUME CmdInv, MakeOutputDirectory \/ GetOutputResources \/ RunOnceDone \/ PanicOnNil
    PROVE  [Process!ProcessNext]_(Process!processVars)
<1>1. /\ step \in {"mkdir", "resources", "apply", "check"} /\ exit = "none" /\ "write" \notin errs
      /\ UNCHANGED files
  <2>1. UNCHANGED <<before, written>>
    BY DEF MakeOutputDirectory, GetOutputResources, RunOnceDone, PanicOnNil
  <2>2. QED
    BY <2>1, FilesKept DEF MakeOutputDirectory, GetOutputResources, RunOnceDone, PanicOnNil, Alive, CmdInv, Phases
<1>2. step' \in {"resources", "apply", "check", "exit"} /\ "write" \notin errs'
  BY <1>1 DEF MakeOutputDirectory, GetOutputResources, RunOnceDone, PanicOnNil
<1>3. Unwritten = <<>> /\ Unwritten' = <<>>
  BY <1>1, <1>2 DEF Unwritten
<1>4. CASE exit' = exit
  BY <1>1, <1>2, <1>3, <1>4, ProcessStutters
<1>5. CASE exit' # exit
  <2>1. exit' \in {"error", "panic"}
    BY <1>1, <1>5 DEF MakeOutputDirectory, GetOutputResources, RunOnceDone, PanicOnNil
  <2>2. ProcessStatus = "starting" /\ ProcessStatus' = "nonzero"
    BY <1>1, <2>1 DEF ProcessStatus
  <2>3. Process!GiveUp
    BY <1>1, <1>2, <1>3, <2>2 DEF Process!GiveUp
  <2>4. QED
    BY <2>3 DEF Process!ProcessNext
<1>6. QED
  BY <1>4, <1>5

\* It decides when the mutations have been filtered.
LEMMA ProcessDecides ==
    ASSUME CmdInv, CmdInv', ValidateAndFilter
    PROVE  Process!ProcessNext
<1>1. /\ step = "check" /\ step' = "write" /\ exit = "none" /\ UNCHANGED <<files, exit>>
      /\ ("write" \in errs' <=> "write" \in errs)
  BY FilesKept DEF ValidateAndFilter, Alive
<1>2. ProcessStatus = "starting" /\ ProcessStatus' = "writing"
  BY <1>1 DEF ProcessStatus
<1>3. Unwritten' # <<>> /\ Last(Unwritten') = ResultsEntry'
  BY <1>1, UnwrittenLastNext DEF Last
<1>4. Unwritten' # <<>> /\ Process!Last(Unwritten').path = Process!ResultsFile
  BY <1>3, SameWords DEF ResultsEntry
<1>5. UNCHANGED <<files, "write" \notin errs>>
  BY <1>1
<1>6. Process!Decide
  BY <1>2, <1>4, <1>5 DEF Process!Decide
<1>7. QED
  BY <1>6 DEF Process!ProcessNext

\* It goes on to the files of the next request, or leaves them out.
LEMMA ProcessLeavesOut ==
    ASSUME CmdInv, NextRequest
    PROVE  [Process!ProcessNext]_(Process!processVars)
<1> DEFINE first == FilesOf(Head(todo).dir, Head(todo).req)
           rest == (<<>> \o FilesOfAll(Tail(todo))) \o <<ResultsEntry>>
<1>1. /\ step = "write" /\ step' = "write" /\ exit = "none" /\ UNCHANGED <<files, exit>>
      /\ writing = <<>> /\ todo # <<>> /\ todo' = Tail(todo) /\ report' = report
      /\ \/ writing' = first /\ UNCHANGED errs
         \/ writing' = <<>> /\ errs' = errs \cup {"write"}
  BY FilesKept DEF NextRequest, vars, returnVars, Alive
<1>2. /\ Unwritten = (first \o FilesOfAll(Tail(todo))) \o <<ResultsEntry>>
      /\ Len(first) \in 1..(Len(Unwritten) - 1) /\ Len(Unwritten) \in Nat
      /\ SubSeq(Unwritten, Len(first) + 1, Len(Unwritten)) = rest
  BY <1>1, UnwrittenNext
<1>3. Unwritten' = (writing' \o FilesOfAll(Tail(todo))) \o <<ResultsEntry>>
  <2>1. Unwritten' = (writing' \o FilesOfAll(todo')) \o <<ResultsEntry'>>
    BY <1>1 DEF Unwritten, ResultsEntry
  <2>2. ResultsEntry' = ResultsEntry
    BY <1>1 DEF ResultsEntry
  <2>3. QED
    BY <1>1, <2>1, <2>2
<1>4. CASE writing' = first /\ UNCHANGED errs
  <2>1. Unwritten' = Unwritten
    BY <1>2, <1>3, <1>4
  <2>2. QED
    BY <1>1, <1>4, <2>1, ProcessStutters
<1>5. CASE writing' = <<>> /\ errs' = errs \cup {"write"}
  <2>1. Unwritten' = rest
    BY <1>3, <1>5
  <2> HIDE DEF first, rest
  <2>2. ProcessStatus = "writing" /\ ProcessStatus' = "writing"
    BY <1>1 DEF ProcessStatus
  <2>3. ("write" \notin errs)' = FALSE
    BY <1>5
  <2>4. Unwritten' = SubSeq(Unwritten, Len(first) + 1, Len(Unwritten))
    BY <1>2, <2>1
  <2>5. Process!LeaveOut(Len(first))
    BY <1>1, <1>2, <2>2, <2>3, <2>4 DEF Process!LeaveOut
  <2>6. Len(first) \in 1..Len(Unwritten)
    BY <1>2
  <2>7. QED
    BY <2>5, <2>6 DEF Process!ProcessNext
<1>6. QED
  BY <1>1, <1>4, <1>5

\* It writes the next file of a mutation, or fails to.
LEMMA ProcessWritesFile ==
    ASSUME CmdInv, WriteNextFile
    PROVE  Process!ProcessNext
<1>1. /\ step = "write" /\ step' = "write" /\ exit = "none" /\ exit' = "none"
      /\ writing # <<>> /\ writing' = Tail(writing) /\ todo' = todo /\ report' = report
  BY DEF WriteNextFile, vars, returnVars, Alive
<1> DEFINE h == Head(writing)
<1>2. /\ Unwritten # <<>> /\ Head(Unwritten) = h
      /\ Tail(Unwritten) = (Tail(writing) \o FilesOfAll(todo)) \o <<ResultsEntry>>
  BY <1>1, UnwrittenFirst
<1>3. Unwritten' = Tail(Unwritten)
  <2>1. Unwritten' = (writing' \o FilesOfAll(todo')) \o <<ResultsEntry'>>
    BY <1>1 DEF Unwritten, ResultsEntry
  <2>2. ResultsEntry' = ResultsEntry
    BY <1>1 DEF ResultsEntry
  <2>3. QED
    BY <1>1, <1>2, <2>1, <2>2
<1>4. ProcessStatus = "writing" /\ ProcessStatus' = "writing"
  BY <1>1 DEF ProcessStatus
<1>5. CASE files' = WriteFile(files, h.path, h.content) /\ UNCHANGED errs
  <2>1. files' = Process!WriteFile(files, Head(Unwritten).path, Head(Unwritten).content)
    BY <1>2, <1>5, SameWords
  <2>2. ("write" \notin errs)' = ("write" \notin errs)
    BY <1>5
  <2>3. Process!WriteNext
    BY <1>2, <1>3, <1>4, <2>1, <2>2 DEF Process!WriteNext
  <2>4. QED
    BY <2>3 DEF Process!ProcessNext
<1>6. CASE files' \in {files, WriteFile(files, h.path, Truncated)} /\ errs' = errs \cup {"write"}
  <2>1. files' \in {files, Process!WriteFile(files, Head(Unwritten).path, Process!Truncated)}
    BY <1>2, <1>6, SameWords
  <2>2. ("write" \notin errs)' = FALSE
    BY <1>6
  <2>3. Process!WriteFails
    BY <1>2, <1>3, <1>4, <2>1, <2>2 DEF Process!WriteFails
  <2>4. QED
    BY <2>3 DEF Process!ProcessNext
<1>7. before' = before
  BY DEF WriteNextFile
<1>8. CASE written' = WriteFile(written, h.path, h.content) /\ UNCHANGED errs
  BY <1>5, <1>7, <1>8, FilesWritten
<1>9. CASE written' \in {written, WriteFile(written, h.path, Truncated)} /\ errs' = errs \cup {"write"}
  BY <1>6, <1>7, <1>9, FilesKept, FilesWritten
<1>10. QED
  BY <1>8, <1>9 DEF WriteNextFile

\* It writes the results, or fails to.
LEMMA ProcessWritesResults ==
    ASSUME CmdInv, WriteResults
    PROVE  Process!ProcessNext
<1>1. step = "results" /\ step' = "done" /\ exit = "none" /\ exit' = "none"
  BY DEF WriteResults, Alive
<1>2. Unwritten = <<ResultsEntry>> /\ Unwritten' = <<>>
  BY <1>1, UnwrittenIs DEF Unwritten
<1>3. Unwritten # <<>> /\ Unwritten' = Tail(Unwritten) /\ Head(Unwritten) = ResultsEntry
  BY <1>2
<1>4. ProcessStatus = "writing" /\ ProcessStatus' = "writing"
  BY <1>1 DEF ProcessStatus
<1>5. CASE files' = WriteFile(files, ResultsFile, [results |-> report]) /\ UNCHANGED errs
  <2>1. files' = Process!WriteFile(files, Head(Unwritten).path, Head(Unwritten).content)
    BY <1>3, <1>5, SameWords DEF ResultsEntry
  <2>2. ("write" \notin errs)' = ("write" \notin errs)
    BY <1>5
  <2>3. Process!WriteNext
    BY <1>3, <1>4, <2>1, <2>2 DEF Process!WriteNext
  <2>4. QED
    BY <2>3 DEF Process!ProcessNext
<1>6. CASE files' \in {files, WriteFile(files, ResultsFile, Truncated)} /\ errs' = errs \cup {"write"}
  <2>1. files' \in {files, Process!WriteFile(files, Head(Unwritten).path, Process!Truncated)}
    BY <1>3, <1>6, SameWords DEF ResultsEntry
  <2>2. ("write" \notin errs)' = FALSE
    BY <1>6
  <2>3. Process!WriteFails
    BY <1>3, <1>4, <2>1, <2>2 DEF Process!WriteFails
  <2>4. QED
    BY <2>3 DEF Process!ProcessNext
<1>7. before' = before
  BY DEF WriteResults
<1>8. CASE written' = WriteFile(written, ResultsFile, [results |-> report]) /\ UNCHANGED errs
  BY <1>5, <1>7, <1>8, FilesWritten
<1>9. CASE written' \in {written, WriteFile(written, ResultsFile, Truncated)} /\ errs' = errs \cup {"write"}
  BY <1>6, <1>7, <1>9, FilesKept, FilesWritten
<1>10. QED
  BY <1>8, <1>9 DEF WriteResults

\* It exits, with 0 only if nothing was left out.
LEMMA ProcessExits ==
    ASSUME CmdInv, Exit
    PROVE  Process!ProcessNext
<1>1. step = "done" /\ step' = "exit" /\ exit = "none" /\ exit' = (IF errs = {} THEN "ok" ELSE "error")
  BY DEF Exit, Alive
<1>2. Unwritten = <<>> /\ Unwritten' = <<>> /\ UNCHANGED files /\ ("write" \notin errs)' = ("write" \notin errs)
  BY <1>1, FilesKept DEF Unwritten, Exit
<1> DEFINE code == IF errs = {} THEN "zero" ELSE "nonzero"
<1>3. ProcessStatus = "writing" /\ ProcessStatus' = code
  BY <1>1 DEF ProcessStatus
<1>4. code = "zero" => "write" \notin errs
  OBVIOUS
<1>5. code \in {"zero", "nonzero"}
  OBVIOUS
<1> HIDE DEF code
<1>6. Process!ExitWith(code)
  BY <1>2, <1>3, <1>4 DEF Process!ExitWith
<1>7. QED
  BY <1>5, <1>6 DEF Process!ProcessNext

\* It is killed, perhaps while it writes a file.
LEMMA ProcessIsKilled ==
    ASSUME CmdInv, Kill
    PROVE  Process!ProcessNext
<1>1. exit = "none" /\ exit' = "killed" /\ UNCHANGED <<step, errs, todo, writing, report>>
  BY DEF Kill, Alive, vars, returnVars
<1>2. Unwritten' = Unwritten /\ ("write" \notin errs)' = ("write" \notin errs)
  BY <1>1 DEF Unwritten
<1>3. ProcessStatus \in {"starting", "writing"} /\ ProcessStatus' = "killed"
  BY <1>1 DEF ProcessStatus
<1>4. files' \in {files} \cup (IF Unwritten = <<>> THEN {}
                               ELSE {Process!WriteFile(files, Head(Unwritten).path, Process!Truncated)})
  <2>1. before' = before
    BY DEF Kill
  <2>2. CASE written' = written
    BY <2>1, <2>2, FilesKept
  <2>3. CASE step = "write" /\ writing # <<>> /\ written' = WriteFile(written, Head(writing).path, Truncated)
    <3>1. files' = WriteFile(files, Head(writing).path, Truncated)
      BY <2>1, <2>3, FilesWritten
    <3>2. QED
      BY <2>3, <3>1, UnwrittenFirst, SameWords
  <2>4. CASE step = "results" /\ written' = WriteFile(written, ResultsFile, Truncated)
    <3>1. files' = WriteFile(files, ResultsFile, Truncated)
      BY <2>1, <2>4, FilesWritten
    <3>2. Unwritten # <<>> /\ Head(Unwritten).path = ResultsFile
      <4>1. Unwritten = <<ResultsEntry>>
        BY <2>4, UnwrittenIs
      <4>2. QED
        BY <4>1 DEF ResultsEntry
    <3>3. QED
      BY <3>1, <3>2, SameWords
  <2>5. QED
    BY <2>2, <2>3, <2>4 DEF Kill
<1>5. Process!Killed
  BY <1>2, <1>3, <1>4 DEF Process!Killed, Process!Running
<1>6. QED
  BY <1>5 DEF Process!ProcessNext

\* The rest it does not see.
LEMMA ProcessSeesNothing ==
    ASSUME RunInv, CmdInv, RunOnceStep \/ AllWritten \/ Exited \/ UNCHANGED allVars
    PROVE  UNCHANGED Process!processVars
<1>1. CASE RunOnceStep
  <2>1. UNCHANGED <<step, errs, files, todo, writing, exit>> /\ [Next]_vars
    BY <1>1, FilesKept DEF RunOnceStep, cmdVars
  <2>2. step \in {"write", "results"} => report' = report
    BY <2>1, ReturnedStays DEF CmdInv, Phases
  <2>3. Unwritten' = Unwritten
    BY <2>1, <2>2 DEF Unwritten
  <2>4. QED
    BY <2>1, <2>3, ProcessStutters
<1>2. CASE AllWritten
  <2>1. /\ step = "write" /\ step' = "results" /\ writing = <<>> /\ todo = <<>>
        /\ UNCHANGED <<errs, files, todo, writing, exit, report>>
    BY <1>2, FilesKept DEF AllWritten, vars, returnVars
  <2>2. Unwritten' = Unwritten
    BY <2>1 DEF Unwritten
  <2>3. QED
    BY <2>1, <2>2, ProcessStutters
<1>3. CASE Exited \/ UNCHANGED allVars
  <2>1. UNCHANGED <<step, errs, files, todo, writing, exit, report>>
    BY <1>3, FilesKept DEF Exited, allVars, cmdVars, vars, returnVars
  <2>2. Unwritten' = Unwritten
    BY <2>1 DEF Unwritten
  <2>3. QED
    BY <2>1, <2>2, ProcessStutters
<1>4. QED
  BY <1>1, <1>2, <1>3

\* The command implements the process that the test harness relies on.
THEOREM CommandIsProcess == CmdSpec => ImplementsProcess
<1>1. CmdInit => Process!ProcessInit
  <2> SUFFICES ASSUME CmdInit PROVE Process!ProcessInit
    OBVIOUS
  <2>1. Unwritten = <<>> /\ ProcessStatus = "starting"
    BY DEF CmdInit, Unwritten, ProcessStatus
  <2>2. ("write" \notin errs) = TRUE
    BY DEF CmdInit
  <2>3. QED
    BY <2>1, <2>2 DEF Process!ProcessInit
<1>2. ASSUME RunInv /\ CmdInv, (RunInv /\ CmdInv)', [CmdNext]_allVars
      PROVE  [Process!ProcessNext]_(Process!processVars)
  <2>1. CASE MakeOutputDirectory \/ GetOutputResources \/ RunOnceDone \/ PanicOnNil
    BY <1>2, <2>1, ProcessStarts
  <2>2. CASE ValidateAndFilter
    BY <1>2, <2>2, ProcessDecides
  <2>3. CASE NextRequest
    BY <1>2, <2>3, ProcessLeavesOut
  <2>4. CASE WriteNextFile \/ WriteResults \/ Exit \/ Kill
    BY <1>2, <2>4, ProcessWritesFile, ProcessWritesResults, ProcessExits, ProcessIsKilled
  <2>5. CASE RunOnceStep \/ AllWritten \/ Exited \/ UNCHANGED allVars
    BY <1>2, <2>5, ProcessSeesNothing
  <2>6. QED
    BY <1>2, <2>1, <2>2, <2>3, <2>4, <2>5 DEF CmdNext, CmdStep
<1>3. QED
  BY <1>1, <1>2, CommandInvariant, PTL DEF CmdSpec, ImplementsProcess, Process!ProcessSpec

=============================================================================
