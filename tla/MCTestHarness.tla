---------------------------- MODULE MCTestHarness ----------------------------
(***************************************************************************)
(* Instances of TestHarness: a test that wants success, in a directory     *)
(* below it one that wants a non-zero exit, one whose command does not     *)
(* start and one whose expected output cannot be read.                     *)
(***************************************************************************)
EXTENDS TestHarness, SampleRequests

MCManagerAndInstance(options, body) == options

Create == Serialize(Req("create", "", "", "configmaps", "n", "", Body("n", "z", "", "one"), ""))
Patch == Serialize(Req("patch", "", "merge", "configmaps", "n", "x", NoObject("two"), "force"))
PlainPatch == Serialize(Req("patch", "", "merge", "configmaps", "n", "x", NoObject("two"), ""))
Event == Serialize(Req("create", "", "", "events", "n", "", Body("n", "", "g-", "three"), ""))

To(dir, req) == [dir |-> dir, req |-> req]
Good == [results |-> "all succeeded"]
Bad == [results |-> "one failed"]
Command(todo, results) == [todo |-> todo, results |-> results]

Expected(configuration, management, results) ==
    [err |-> {}, controllerResults |-> results,
     mutations |-> [ct \in ClusterType |-> CASE ct = "Configuration" -> configuration
                                             [] ct = "Management"    -> management
                                             [] OTHER                -> {}]]

\* Commands that do as expected and write an event besides, that write too
\* little, or an unspecified mutation.
Succeeding ==
    [dir |-> <<"a">>, desiredError |-> NoError, starts |-> TRUE,
     expected |-> Expected({Create}, {Patch}, Good),
     commands |-> { Command(<<To("Configuration", Create), To("Configuration", Event), To("Management", Patch)>>, Good),
                    Command(<<To("Configuration", Create)>>, Good),
                    Command(<<To("Unspecified", Event)>>, Bad) }]

\* Commands that do as expected, or with options that are not.
Failing ==
    [dir |-> <<"a", "b">>, desiredError |-> "NonZeroReturn", starts |-> TRUE,
     expected |-> Expected({}, {PlainPatch}, Bad),
     commands |-> { Command(<<To("Management", PlainPatch)>>, Bad),
                    Command(<<To("Management", Patch)>>, Bad) }]

NotStarting == [Failing EXCEPT !.dir = <<"c">>, !.starts = FALSE, !.commands = {}]
Unexpecting == [Succeeding EXCEPT !.dir = <<"d">>, !.expected = Unreadable,
                                  !.commands = {Command(<<>>, Good)}]

MCTests == <<Succeeding, Failing, NotStarting, Unexpecting>>

\* The directory that is walked is itself a test.
RootTests == <<[Succeeding EXCEPT !.dir = <<>>]>>

MCPolicies == {"", "Always", Replace}

\* What an earlier run may have left: the body of another request, cut short.
Stale == WriteFile(<<>>, PathOf("Configuration", Serialize(Req("create", "", "", "configmaps", "n", "",
                                            Body("n", "y", "", "two"), "")), "body"), Truncated)
MCDisks == {
    (Base :> <<>>) @@ (Base \o <<"a">> :> Stale) @@ (Base \o <<"a", "b">> :> <<>>)
      @@ (<<"tests", "a", "expected-output">> :> Stale) }
EmptyDisk == {<<>>}
CleaningPolicies == {""}

=============================================================================
