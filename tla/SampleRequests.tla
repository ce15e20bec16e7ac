---------------------------- MODULE SampleRequests ----------------------------
(***************************************************************************)
(* HTTP requests, names and contents for the instances that write files.   *)
(***************************************************************************)
EXTENDS WriteRequests

Req(verb, sub, type, resource, ns, name, body, options) ==
    [verb |-> verb, subresource |-> sub, contentType |-> type, resource |-> resource, version |-> "v1",
     ns |-> ns, name |-> name, body |-> body,
     options |-> [parse |-> TRUE, content |-> options], controller |-> NoName]

Body(ns, name, gen, content) ==
    [decodes |-> TRUE, ns |-> ns, name |-> name, generateName |-> gen, content |-> content]
NoObject(content) == Body(NoName, NoName, NoName, content)

Names5 == {"", "x", "y", "z", "g-", "g-1", "n", "m"}
MCSafeName == [name \in Names5 |-> name]
MCShortHash == [content \in {"one", "two", "three"} |-> content]

=============================================================================
