----------------------------- MODULE TestHarness -----------------------------
(***************************************************************************)
(* The test of apply-configuration commands: TestApplyConfigurationOptions *)
(* .Run and runTest (testapplyconfiguration/tester.go), the execution of a *)
(* command with its timeout (applyconfiguration/execer.go) and the result  *)
(* read from whatever the command has left in its output directory         *)
(* (libraryapplyconfiguration/directory_apply_configuration.go).           *)
(*                                                                         *)
(* One test runs after the other.  The command under test is any process   *)
(* that keeps the promise of CommandProcess.  The files of the directory   *)
(* of the test that is running are out, those of all others in disk.       *)
(***************************************************************************)
EXTENDS CommandProcess, Equivalence

CONSTANTS
    Tests,      \* [dir, desiredError, expected, starts, commands]
    Policies,   \* values of --preserve-policy, or ReplaceExpectedOutput
    Disks,      \* output directories earlier runs may have left
    MaxFaults   \* bound: failing file operations, of the harness or a command

NoError == ""
Replace == "ReplaceExpectedOutput"
Unreadable == [unreadable |-> TRUE]
Nil == [nil |-> TRUE]

Test == DOMAIN Tests

\* A request of which nothing is missing.
WholeRequest(req) ==
    /\ req = [field \in MetadataFields \cup {"body", "options"} |-> req[field]]
    /\ req.action # NoName /\ req.body # Truncated

ASSUME TestsAssumption ==
    /\ MaxFaults \in Nat
    /\ \A d \in Disks : \A path \in DOMAIN d : path \in Seq(ToSet(path))
    /\ Tests \in Seq(ToSet(Tests))
    /\ \A t \in Test :
          /\ Tests[t].dir \in Seq(ToSet(Tests[t].dir))
          /\ Tests[t].desiredError \in {NoError, "NonZeroReturn"}
          \* What is expected was written by a command that came to its end.
          /\ Tests[t].expected # Unreadable =>
                \A ct \in ClusterType : \A r \in Tests[t].expected.mutations[ct] : WholeRequest(r)
          /\ \A c \in Tests[t].commands :
                /\ c.todo \in Seq(ToSet(c.todo)) /\ \A j \in ToSet(c.todo) : WholeRequest(j.req)
                /\ c.results # Truncated
                \* Two files of one command with the same name are a question
                \* of ApplyConfigurationCommand.
                /\ \A i, j \in DOMAIN c.todo :
                      PathOf(c.todo[i].dir, c.todo[i].req, "body") = PathOf(c.todo[j].dir, c.todo[j].req, "body")
                        => c.todo[i].req = c.todo[j].req
    \* Tests are found by a walk that visits a directory once, and before what
    \* is in it.
    /\ \A s, t \in Test : s < t => ~IsPrefix(Tests[t].dir, Tests[s].dir)

VARIABLES
    policy,
    stage,      \* where Run and runTest are
    current,    \* index of the test
    disk,       \* directories: function from paths to files
    timedOut,   \* the command's context is over
    execErr,    \* "none", "start", "exit" (an exec.ExitError) or "other"
    verdict,    \* JUnit's word on each test: "none", "pass" or "fail"
    removed,    \* "remove output directory" succeeded
    cancelled,  \* the context of Run is over
    junit,      \* junit.xml is there
    result,     \* of Run: "none", "ok", "error" or "panic"
    faults,     \* failures so far (for MaxFaults)
    command,    \* what the command of the current test does
    ended       \* how it ended: "none" before, or a status

testVars == <<timedOut, execErr, processVars, command, ended>>
harnessVars == <<policy, stage, current, disk, verdict, removed, cancelled, junit, result, faults, testVars>>

-----------------------------------------------------------------------------
(* Directories.                                                            *)

Base == <<"output">>

\* --replace-expected-output makes the expected output the output directory.
OutputOf(t) == IF policy = Replace THEN <<"tests">> \o Tests[t].dir \o <<"expected-output">>
               ELSE Base \o Tests[t].dir

RemoveAll(dirs, path) == [p \in {q \in DOMAIN dirs : ~IsPrefix(path, q)} |-> dirs[p]]

\* One that fails stops between two directories.
RemoveSome(dirs, path) == {RemoveAll(dirs, p) : p \in {q \in DOMAIN dirs : IsStrictPrefix(path, q)}} \cup {dirs}

MkdirAll(dirs, path) ==
    [p \in DOMAIN dirs \cup {SubSeq(path, 1, n) : n \in 1..Len(path)} |->
        IF p \in DOMAIN dirs THEN dirs[p] ELSE <<>>]

Fault == faults < MaxFaults /\ faults' = faults + 1

(* The result of an output directory.                                      *)

\* Anything but the cluster types' directories, the logs and the results: the
\* directory Unspecified, the output of a test below this one, junit.xml.
HasUnexpected(path) ==
    \/ \E f \in DOMAIN disk[path] : f # ResultsFile /\ f.dir \notin ClusterType
    \/ \E p \in DOMAIN disk : Len(p) = Len(path) + 1 /\ IsPrefix(path, p)
    \/ path = Base /\ junit

\* NewApplyConfigurationResultFromDirectory.  A directory that cannot be read
\* leaves no mutations at all; an error of the execution is part of the
\* result only beside other errors; an empty results file is none.
ResultOf(path, err) ==
    LET files    == disk[path]
        readable == \A ct \in ClusterType : ReadsBack(files, ct)
        found    == (IF readable THEN {} ELSE {"mutations"}) \cup (IF HasUnexpected(path) THEN {"unexpected"} ELSE {})
        all      == found \cup ({err} \ {"none"})
    IN  [err       |-> IF found = {} THEN {} ELSE all,
         returned  |-> all,
         controllerResults |->
             IF ResultsFile \notin DOMAIN files \/ files[ResultsFile] = Truncated THEN Nil ELSE files[ResultsFile],
         mutations |-> IF readable THEN [ct \in ClusterType |-> ReadRequests(files, ct)] ELSE Nil]

-----------------------------------------------------------------------------

HarnessInit ==
    /\ policy \in Policies
    /\ disk \in Disks
    /\ junit = (Base \in DOMAIN disk)   \* an earlier run has left its own
    /\ stage = "remove" /\ current = 1 /\ result = "none"
    /\ removed = FALSE /\ cancelled = FALSE /\ faults = 0
    /\ verdict = [t \in Test |-> "none"]
    /\ timedOut = FALSE /\ execErr = "none"
    /\ out = <<>> /\ pending = <<>> /\ clean = TRUE /\ status = "none"
    /\ command = Nil /\ ended = "none"

\* That the output directory cannot be removed is reported and nothing else.
RemoveBase ==
    /\ stage = "remove"
    /\ stage' = "mkdir"
    /\ \/ /\ disk' = RemoveAll(disk, Base)
          /\ junit' = FALSE /\ removed' = TRUE
          /\ UNCHANGED faults
       \/ /\ Fault
          /\ disk' \in RemoveSome(disk, Base)
          /\ UNCHANGED <<junit, removed>>
    /\ UNCHANGED <<policy, current, verdict, cancelled, result, testVars>>

\* Run returns; the deferred function writes the report, if it can.
Return(value) ==
    /\ stage' = "done"
    /\ result' = value
    /\ junit' = (Base \in DOMAIN disk)
    /\ UNCHANGED <<policy, current, disk, verdict, removed, cancelled, testVars>>

MakeBase ==
    /\ stage = "mkdir"
    /\ \/ /\ stage' = "test"
          /\ disk' = MkdirAll(disk, Base)
          /\ UNCHANGED <<policy, current, verdict, removed, cancelled, junit, result, faults, testVars>>
       \/ Fault /\ Return("error")

\* Variant: a directory to be replaced keeps the files it has.
KeepFiles(path) == disk

\* What a test finds of its output directory.
ReplacedOrKept(path) == IF policy = Replace THEN RemoveAll(disk, path) ELSE disk

InLoop == stage = "test" /\ current <= Len(Tests) /\ ~cancelled
NextTest == stage' = "test" /\ current' = current + 1

StartTest ==
    /\ InLoop
    /\ stage' = "start"
    /\ disk' = MkdirAll(ReplacedOrKept(OutputOf(current)), OutputOf(current))
    /\ UNCHANGED <<policy, current, verdict, removed, cancelled, junit, result, faults, testVars>>

\* Its output directory cannot be removed or made.
CannotStartTest ==
    /\ InLoop
    /\ Fault
    /\ disk' \in IF policy = Replace THEN RemoveSome(disk, OutputOf(current)) \cup {ReplacedOrKept(OutputOf(current))}
                 ELSE {disk}
    /\ verdict' = [verdict EXCEPT ![current] = "fail"]
    /\ NextTest
    /\ UNCHANGED <<policy, removed, cancelled, junit, result, testVars>>

(* ExecApplyConfiguration.                                                 *)

\* The log files are opened and the process is started.
StartCommand ==
    /\ stage = "start" /\ ~cancelled
    /\ Tests[current].starts
    /\ command' \in Tests[current].commands
    /\ status' = "starting" /\ out' = disk[OutputOf(current)] /\ pending' = <<>> /\ clean' = TRUE
    /\ timedOut' = FALSE
    /\ stage' = "exec"
    /\ UNCHANGED <<policy, current, disk, verdict, removed, cancelled, junit, result, faults, execErr, ended>>

\* A log cannot be opened, there is no such binary or the context is over.
CannotStartCommand ==
    /\ stage = "start"
    /\ \/ (cancelled \/ ~Tests[current].starts) /\ UNCHANGED faults
       \/ Fault
    /\ execErr' = "start"
    /\ stage' = "judge"
    /\ UNCHANGED <<policy, current, disk, verdict, removed, cancelled, junit, result,
                   timedOut, processVars, command, ended>>

\* The files a command writes.
WrittenBy(c) == FlattenSeq([i \in DOMAIN c.todo |-> FilesOf(c.todo[i].dir, c.todo[i].req)])
                  \o <<[path |-> ResultsFile, content |-> c.results]>>

CommandStep ==
    /\ stage = "exec"
    /\ \/ /\ \/ pending' = WrittenBy(command) /\ Decide
             \/ GiveUp
             \/ WriteNext
             \/ \E code \in {"zero", "nonzero"} : ExitWith(code)
          /\ UNCHANGED faults
       \/ /\ WriteFails \/ \E n \in 1..Len(pending) : LeaveOut(n)
          /\ Fault
    /\ UNCHANGED <<policy, stage, current, disk, verdict, removed, cancelled, junit, result,
                   timedOut, execErr, command, ended>>

\* The context of the command is over: a process that still runs is killed.
Interrupt ==
    /\ timedOut' = TRUE
    /\ \/ Killed
       \/ ~Running /\ UNCHANGED processVars

\* Variant: the context has no timeout.
NoTimeUp == FALSE

\* Five seconds have passed.
TimeUp ==
    /\ stage = "exec" /\ ~timedOut
    /\ Interrupt
    /\ UNCHANGED <<policy, stage, current, disk, verdict, removed, cancelled, junit, result, faults,
                   execErr, command, ended>>

\* The context of Run is over, and with it that of the command.
Cancel ==
    /\ stage # "done" /\ ~cancelled
    /\ cancelled' = TRUE
    /\ \/ stage = "exec" /\ Interrupt
       \/ stage # "exec" /\ UNCHANGED <<timedOut, processVars>>
    /\ UNCHANGED <<policy, stage, current, disk, verdict, removed, junit, result, faults,
                   execErr, command, ended>>

\* What Wait returns.  The kill of a process that has exited and was not
\* waited for succeeds: its context's error is returned although it exited
\* with 0.  A process that was killed has an exit error like a failed one.
WaitError == IF status # "zero" THEN {"exit"}
             ELSE IF timedOut THEN {"none", "other"} ELSE {"none"}

\* Variant: the process is taken for running still.
WaitKeepsProcess ==
    /\ stage = "exec" /\ Ended
    /\ execErr' \in WaitError
    /\ disk' = [disk EXCEPT ![OutputOf(current)] = out]
    /\ ended' = status
    /\ stage' = "judge"
    /\ UNCHANGED <<policy, current, verdict, removed, cancelled, junit, result, faults, timedOut, command, processVars>>

WaitReturns ==
    /\ stage = "exec" /\ Ended
    /\ execErr' \in WaitError
    /\ disk' = [disk EXCEPT ![OutputOf(current)] = out]
    /\ ended' = status
    /\ status' = "none" /\ out' = <<>> /\ pending' = <<>> /\ clean' = TRUE
    /\ stage' = "judge"
    /\ UNCHANGED <<policy, current, verdict, removed, cancelled, junit, result, faults, timedOut, command>>

(* The rest of runTest and of Run.                                         *)

Result == ResultOf(OutputOf(current), execErr)

\* It fails without being compared.
FailsAtOnce(res) == \/ execErr = "start"
                    \/ res.returned # {} /\ execErr # "exit"
                    \/ Tests[current].expected = Unreadable

\* Variant: a command that is to fail may as well succeed.
MayEndAsDesired(res) == res.returned # {} => Tests[current].desiredError # NoError

\* Any error of the result counts, not only that of the process.
EndedAsDesired(res) == res.returned # {} <=> Tests[current].desiredError # NoError

Passes(res) ==
    \/ policy = Replace
    \/ /\ ~FailsAtOnce(res) /\ EndedAsDesired(res)
       /\ ResultReasons(Tests[current].expected, res) = {}

\* The comparison dereferences the mutations of a directory it could not read.
Panics(res) == policy # Replace /\ ~FailsAtOnce(res) /\ res.mutations = Nil

Judge ==
    /\ stage = "judge"
    /\ ~Panics(Result)
    /\ verdict' = [verdict EXCEPT ![current] = IF Passes(Result) THEN "pass" ELSE "fail"]
    /\ stage' = "clean"
    /\ UNCHANGED <<policy, current, disk, removed, cancelled, junit, result, faults, testVars>>

PanicOnUnread ==
    /\ stage = "judge"
    /\ Panics(Result)
    /\ Return("panic")
    /\ UNCHANGED faults

\* Variant: whatever the verdict.
CleansUpAlways(t) == policy = ""

CleansUp(t) == policy = "" /\ verdict[t] = "pass"

CleanUp ==
    /\ stage = "clean"
    /\ \/ /\ disk' = IF CleansUp(current) THEN RemoveAll(disk, OutputOf(current)) ELSE disk
          /\ junit' = (junit /\ Base \in DOMAIN disk')
          /\ UNCHANGED faults
       \/ /\ CleansUp(current) /\ Fault
          /\ disk' \in RemoveSome(disk, OutputOf(current))
          /\ UNCHANGED junit
    /\ execErr' = "none" /\ timedOut' = FALSE /\ command' = Nil /\ ended' = "none"
    /\ NextTest
    /\ UNCHANGED <<policy, verdict, removed, cancelled, result, processVars>>

\* Variant: the cancellation only ends the loop.
FailuresOnly == \E t \in Test : verdict[t] = "fail"

FailuresOrCancelled == cancelled \/ \E t \in Test : verdict[t] = "fail"

\* The report is written and, as the function returns, written again.
Finish ==
    /\ stage = "test" /\ (current > Len(Tests) \/ cancelled)
    /\ \/ /\ Base \in DOMAIN disk
          /\ Return(IF FailuresOrCancelled THEN "error" ELSE "ok")
          /\ UNCHANGED faults
       \/ Base \notin DOMAIN disk /\ Return("error") /\ UNCHANGED faults
       \/ Fault /\ Return("error")

Done == stage = "done" /\ UNCHANGED harnessVars

HarnessStep == \/ RemoveBase \/ MakeBase \/ StartTest \/ CannotStartTest \/ StartCommand \/ CannotStartCommand
               \/ WaitReturns \/ Judge \/ PanicOnUnread \/ CleanUp \/ Finish

HarnessNext == HarnessStep \/ CommandStep \/ TimeUp \/ Cancel \/ Done

HarnessSpec == HarnessInit /\ [][HarnessNext]_harnessVars

\* The harness runs and its timer fires; that is all.
FairHarnessSpec == HarnessSpec /\ WF_harnessVars(HarnessStep) /\ WF_harnessVars(TimeUp)

-----------------------------------------------------------------------------
(* Properties.                                                             *)

HarnessTypeOK ==
    /\ policy \in Policies
    /\ stage \in {"remove", "mkdir", "test", "start", "exec", "judge", "clean", "done"}
    /\ current \in 1..(Len(Tests) + 1)
    /\ stage \in {"start", "exec", "judge", "clean"} => current \in Test
    /\ stage \in {"start", "exec", "judge"} => OutputOf(current) \in DOMAIN disk
    /\ status # "none" <=> stage = "exec"
    /\ execErr \in {"none", "start", "exit", "other"}
    /\ verdict \in [Test -> {"none", "pass", "fail"}]
    /\ result \in {"none", "ok", "error", "panic"}
    /\ result # "none" <=> stage = "done"
    /\ faults \in 0..MaxFaults

\* Whatever the timer, failing writes, the order of tests and output that
\* earlier runs and other tests have left do: a test passes only if its command
\* ended as the test wants and meant to make the mutations that are expected,
\* events and options aside - and exactly these, with the expected results, if
\* it exited with 0.  (If the output of an earlier run could not be removed,
\* its files count.)
JustPassed == stage = "clean" /\ verdict[current] = "pass"
Intended(ct) == {c.req : c \in {d \in ToSet(command.todo) : d.dir = ct}}
WithoutOptions(reqs) == {[r EXCEPT !.options = Empty] : r \in reqs}
PassIsGenuine ==
    JustPassed /\ policy # Replace /\ removed =>
        LET expected == Tests[current].expected IN
        /\ ended = "zero" <=> Tests[current].desiredError = NoError
        /\ \A ct \in ClusterType :
              WithoutOptions(RemoveEvents(expected.mutations[ct])) \subseteq WithoutOptions(Intended(ct))
        /\ ended = "zero" =>
              /\ expected.controllerResults = command.results
              /\ \A ct \in ClusterType : RemoveEvents(expected.mutations[ct]) = RemoveEvents(Intended(ct))

\* An expected output that was replaced holds what the command of this run has
\* written and nothing of what was expected before.
ReplacedOutputIsFresh ==
    JustPassed /\ policy = Replace =>
        LET files == disk[OutputOf(current)]
        IN  \A f \in DOMAIN files :
               /\ ended # "none"
               /\ \E w \in ToSet(WrittenBy(command)) : w.path = f /\ files[f] \in {w.content, Truncated}

\* From the verdict to the end of Run, the output of a test that failed, and of
\* any test if the policy is to keep it, stays as its command has left it: no
\* cleaning up and no later test touches it.
Kept(t) == verdict[t] = "fail" \/ (verdict[t] = "pass" /\ policy # "")
JudgedOutputIsKept ==
    [][\A t \in Test : Kept(t) /\ OutputOf(t) \in DOMAIN disk =>
          OutputOf(t) \in DOMAIN disk' /\ disk'[OutputOf(t)] = disk[OutputOf(t)]]_harnessVars

\* Run succeeds only if every single test was run and passed, and then the
\* report is there; a cancellation at any moment before does not go unnoticed.
OkMeansAllPassed ==
    result = "ok" => junit /\ ~cancelled /\ \A t \in Test : verdict[t] = "pass"

\* Run comes to an end although commands may never do.
HarnessEnds == <>(result # "none")

-----------------------------------------------------------------------------
(* What comments of the code say and the code does not do.                 *)

\* "test requires non-zero exit code from apply-configuration" (tester.go:213),
\* and "if the failure isn't an exit code failure, then fail straight away"
\* (tester.go:238): a command that had to be killed passes no test.
TimeoutIsFailure ==
    JustPassed /\ policy # Replace => ended # "killed"

\* "if the failure is an exit code failure, continue to test the output"
\* (tester.go:247): the output of a command that failed can be tested.
OutputIsTested == result # "panic"

\* A walk locates "all directories containing a test", which "allows for fairly
\* arbitrary nesting strategies" (tester.go:24-29): wherever the tests are, if
\* all pass, nothing fails and nobody cancels, Run succeeds.
PassingTestsSucceed ==
    result = "error" /\ faults = 0 /\ ~cancelled => \E t \in Test : verdict[t] # "pass"

=============================================================================
