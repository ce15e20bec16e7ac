-------------------------- MODULE MCMutationTracker --------------------------
(***************************************************************************)
(* A small instance of MutationTracker: two controllers and one reader.    *)
(* The requests are one per way through roundTrip: accepted with an object *)
(* body, accepted without one for a resource with and without a kind, and  *)
(* the rejections that a controller can provoke.                           *)
(***************************************************************************)
EXTENDS MutationTracker

Req(verb, sub, type, resource, ns, name, body) ==
    [verb |-> verb, subresource |-> sub, contentType |-> type, resource |-> resource, version |-> "v1",
     ns |-> ns, name |-> name, body |-> body,
     options |-> [parse |-> TRUE, content |-> "none"], controller |-> "ctl"]

Body(ns, name, gen, content) ==
    [decodes |-> TRUE, ns |-> ns, name |-> name, generateName |-> gen, content |-> content]

MCHttpRequest == {
    Req("create", "", "", "configmaps", "n", "", Body("n", "x", "", "one")),
    Req("update", "status", "", "configmaps", "n", "x", Body("n", "x", "", "two")),
    Req("patch", "", "merge", "widgets", "n", "x", Body("", "", "", "three")),
    \* rejected: wrong namespace, wrong name, a namespaced delete, a subresource
    Req("create", "", "", "configmaps", "n", "", Body("m", "x", "", "one")),
    Req("update", "", "", "configmaps", "n", "x", Body("n", "y", "", "one")),
    Req("delete", "", "", "configmaps", "n", "x", Body("", "", "", "deleteoptions")),
    Req("update", "scale", "", "configmaps", "n", "x", Body("n", "x", "", "one")) }

MCKnownResource == {"configmaps"}
=============================================================================
