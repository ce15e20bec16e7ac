---------------------------- MODULE MutationFilter ----------------------------
(***************************************************************************)
(* Which mutations an operator may make: the match of a request against    *)
(* the declared output resources, the views of the three cluster types,    *)
(* and the mutations that belong to none                                   *)
(* (libraryapplyconfiguration/client_mutations.go, apply_configuration.go, *)
(* libraryoutputresources/types.go).  Pure operators; requests are those   *)
(* of WriteRequests.                                                       *)
(*                                                                         *)
(* A resource list is a record of three sets:                              *)
(*   exact     : [resource, ns, name],                                     *)
(*   generated : [resource, ns, generatedName],                            *)
(*   eventing  : namespaces events may be written in.                      *)
(* Output resources are a function from cluster types to resource lists.   *)
(***************************************************************************)
EXTENDS WriteRequests

ClusterType == {"Configuration", "Management", "UserWorkload"}

\* The core and the events.k8s.io resource.
EventResource == {"events", "events.events.k8s.io"}

\* metadataMatchesFilter.  Versions do not matter; a request with a generated
\* name matches no exact resource, one with a name no generated one.
MatchesFilter(req, list) ==
    \/ /\ req.resource \in EventResource
       /\ req.ns \in list.eventing
    \/ /\ req.generateName = NoName
       /\ [resource |-> req.resource, ns |-> req.ns, name |-> req.name] \in list.exact
    \/ /\ req.name = NoName
       /\ [resource |-> req.resource, ns |-> req.ns, generatedName |-> req.generateName]
             \in list.generated

Filter(reqs, list) == {req \in reqs : MatchesFilter(req, list)}

\* FilterAllDesiredMutationsGetter: each cluster type sees what its own list lets through.
FilterAll(views, allowed) == [ct \in ClusterType |-> Filter(views[ct], allowed[ct])]

\* NewApplyConfigurationFromClient: before filtering every cluster type sees everything.
SameView(reqs) == [ct \in ClusterType |-> reqs]

\* combinedList: the lists of all cluster types together.
Combined(allowed) ==
    [exact     |-> UNION {allowed[ct].exact : ct \in ClusterType},
     generated |-> UNION {allowed[ct].generated : ct \in ClusterType},
     eventing  |-> UNION {allowed[ct].eventing : ct \in ClusterType}]

\* UnspecifiedOutputResources: what is in some view and no list allows.  The
\* difference is one of equal requests (CompareSerializedRequest).
Unspecified(views, allowed) ==
    LET all == UNION {views[ct] : ct \in ClusterType}
    IN  all \ Filter(all, Combined(allowed))

\* ValidateAllDesiredMutationsGetter, for mutations that are not nil.
IsValid(views, allowed) == Unspecified(views, allowed) = {}

=============================================================================
