--------------------- MODULE MCApplyConfigurationCommand ---------------------
(***************************************************************************)
(* Instances of ApplyConfigurationCommand.  The operator declares a config *)
(* map for the configuration cluster, another for the management cluster   *)
(* and a generated name and events for the user workload cluster.          *)
(***************************************************************************)
EXTENDS ApplyConfigurationCommand, SampleRequests

List(exact, generated, eventing) ==
    [exact |-> exact, generated |-> generated, eventing |-> eventing]
Exact(name) == [resource |-> "configmaps", ns |-> "n", name |-> name]
MCOutputResources == {
    [ct \in ClusterType |->
        CASE ct = "Configuration" -> List({Exact("x")}, {}, {})
          [] ct = "Management"    -> List({Exact("y")}, {}, {})
          [] ct = "UserWorkload"  -> List({}, {[resource |-> "configmaps", ns |-> "n", generatedName |-> "g-"]}, {"n"})]}

MCRegistrations == {<<1>>}
MCFlagLists == {<<Star>>}

\* What the controllers send; only what the client accepts is recorded.
MCHttpRequest == {
    Req("create", "", "", "configmaps", "n", "", Body("n", "", "g-", "three"), "opt"),
    Req("patch", "", "merge", "configmaps", "n", "x", NoObject("one"), ""),
    Req("patch", "", "strategic", "configmaps", "n", "x", NoObject("two"), ""),
    Req("create", "", "", "configmaps", "n", "", Body("n", "z", "", "one"), ""),
    \* rejected: the body's object is not the one of the URL
    Req("update", "", "", "configmaps", "n", "x", Body("m", "x", "", "two"), "") }
MCWrite == {h \in MCHttpRequest : Accepted(h)}

\* What earlier runs left in the output directory.  One ended well, and wrote a
\* mutation at the place of one of this run, which has no options, and an
\* unspecified one; another was killed and wrote half a mutation.  None wrote
\* anything for the user workload cluster, which is as in an empty directory.
Earlier(verb, type, name, body, options) ==
    [Serialize(Req(verb, "", type, "configmaps", "n", name, body, options)) EXCEPT !.controller = 1]
EarlierJobs ==
    << [dir |-> "Configuration", req |-> Earlier("patch", "merge", "x", NoObject("one"), "opt")],
       [dir |-> "Unspecified",   req |-> Earlier("create", "", "", Body("n", "z", "", "one"), "")],
       [dir |-> "Management",    req |-> Earlier("update", "", "y", Body("n", "y", "", "two"), "")] >>
LeftByEarlierRuns ==
    LET left == ToSet(FilesOfAll(EarlierJobs))
        all  == [p \in {f.path : f \in left} |-> (CHOOSE f \in left : f.path = p).content]
        half == EarlierJobs[3]
    IN  WriteFile(WriteFile(all, ResultsFile, [results |-> <<>>]),
                  PathOf(half.dir, half.req, "body"), Truncated)
MCLeftovers == {LeftByEarlierRuns}
NoLeftovers == {<<>>}

\* Flags that name a controller the operator does not have.
UnknownFlagLists == {<<Star>>, <<On(3)>>}

\* The same configuration applied under two field managers: the field manager
\* is part of the options, not of the body.
CollidingWrite == {
    Req("patch", "", "apply", "configmaps", "n", "x", Body("n", "x", "", "one"), "manager a"),
    Req("patch", "", "apply", "configmaps", "n", "x", Body("n", "x", "", "one"), "manager b") }

\* An object made with a generated name, and its update.
GeneratedWrite == {
    Req("create", "", "", "configmaps", "n", "", Body("n", "", "g-", "one"), ""),
    Req("update", "", "", "configmaps", "n", "g-1", Body("n", "g-1", "g-", "two"), "") }
=============================================================================
