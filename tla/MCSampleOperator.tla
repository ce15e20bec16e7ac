--------------------------- MODULE MCSampleOperator ---------------------------
(***************************************************************************)
(* Instances of SampleOperator: the input directories of the sample's      *)
(* tests (no foo, a counter, fail-check, a stale condition), and damaged,  *)
(* ambiguous and unmanaged ones; whole and pruned.                         *)
(***************************************************************************)
EXTENDS SampleOperator

MCDiscovery == (<<"configmaps", "v1">> :> "ConfigMap") @@ (<<"secrets", "v1">> :> "Secret")
               @@ (<<"authentications.operator", "v1">> :> "AuthenticationOperator")
MCRegistrations == {<<ResourceSync, IngressCreator, FailureGenerator, Demo, RemoveStaleConditions>>}
MCFlagLists == {<<Star>>, <<Star, Off(FailureGenerator), Off(IngressCreator)>>}

Object(kind, ns, name, data) ==
    [kind |-> kind, version |-> "v1", ns |-> ns, name |-> name,
     labels |-> {}, refs |-> <<>>, data |-> data]
Counter(n) == Object("ConfigMap", Authentication, Foo, [counter |-> n])
Check == Object("ConfigMap", Authentication, FailCheck, <<>>)
Auth(managed, stale, applied) ==
    Object("AuthenticationOperator", None, Cluster, [managed |-> managed, stale |-> stale, applied |-> applied])

In(ns, type, items) ==
    ListFile(ns, type) :> [kind |-> Head(items).kind, version |-> "v1", items |-> items]
Single(type, o) == IndividualFile([type |-> type, ns |-> o.ns, name |-> o.name]) :> o
ConfigMaps(items) == In(Authentication, "configmaps", items)
Auths(o) == In(None, "authentications.operator", <<o>>)

MCContent ==
    [empty     |-> In(KubeSystem, "configmaps", <<Object("ConfigMap", KubeSystem, Example, <<>>)>>),
     counted   |-> ConfigMaps(<<Counter(3), Check>>),
     single    |-> Single("configmaps", Counter(NotANumber)) @@ Single("secrets", Object("Secret", Authentication, Branding, <<>>)),
     broken    |-> ListFile(Authentication, "configmaps") :> Broken,
     refused   |-> Single("clusteroperators", [Object("ClusterOperator", None, Example, <<>>) EXCEPT !.version = "v2"]),
     mixed     |-> ConfigMaps(<<Counter(3)>>) @@ Single("configmaps", Counter(4)),
     stale     |-> Auths(Auth(TRUE, TRUE, FALSE)) @@ ConfigMaps(<<Counter(1)>>),
     unmanaged |-> Auths(Auth(FALSE, TRUE, FALSE)),
     applied   |-> Single("authentications.operator", Auth(TRUE, FALSE, TRUE)) @@ Single("configmaps", Check)]

Whole(sources) == [source : sources, pruned : {FALSE}]
PrunedOf(sources) == [source : sources, pruned : {TRUE}]

MCInputs == Whole(DOMAIN MCContent) \cup PrunedOf({"empty", "counted", "single", "stale", "mixed"})

MCWrite ==
    {WriteOf(a, "configmaps", Authentication, Foo, [counter |-> n]) : a \in {"Create", "Update"}, n \in 1..5}
    \cup {WriteOf("Create", "events", ExampleOperator, Example, <<>>), WriteOf("Create", "ingresses", None, Cluster, <<>>)}
    \cup {WriteOf(a, "authentications.operator", None, Cluster, <<>>) : a \in {"PatchStatus", "ApplyStatus"}}
=============================================================================
