---------------------------- MODULE WriteRequests ----------------------------
(***************************************************************************)
(* How the write round tripper of the offline client turns an HTTP request *)
(* of a controller into the serialized request it stores                   *)
(* (manifestclient/write_roundtripper.go, roundTrip).  Pure operators: the *)
(* tracker, the filters and the output directory all speak of the records  *)
(* that Serialize returns.                                                 *)
(*                                                                         *)
(* An HTTP request is a record                                             *)
(*   [verb, subresource, contentType : what the request info resolver      *)
(*                                     derives from method, URL and header,*)
(*    resource, version, ns, name    : the object the URL addresses; the   *)
(*                                     resource stands for group/resource, *)
(*    body    : [decodes, ns, name, generateName, content],                *)
(*    options : [parse, content],    : the query string,                   *)
(*    controller : the controller instance name its context carries].     *)
(* NoName is the empty string: no namespace, no name, no controller.       *)
(***************************************************************************)

Action == {"Patch", "PatchStatus", "Apply", "ApplyStatus",
           "Update", "UpdateStatus", "Create", "Delete"}

NoName == ""

Unsupported == "unsupported verb"

\* The switch on verb, subresource and content type.
ActionOf(h) ==
    CASE h.subresource \notin {NoName, "status"}                -> Unsupported
      [] h.verb = "create" /\ h.subresource = NoName            -> "Create"
      [] h.verb = "delete" /\ h.subresource = NoName            -> "Delete"
      [] h.verb = "update" /\ h.subresource = NoName            -> "Update"
      [] h.verb = "update" /\ h.subresource = "status"          -> "UpdateStatus"
      [] h.verb = "patch"  /\ h.contentType = "apply"  /\ h.subresource = NoName   -> "Apply"
      [] h.verb = "patch"  /\ h.contentType = "apply"  /\ h.subresource = "status" -> "ApplyStatus"
      [] h.verb = "patch"  /\ h.contentType # "apply"  /\ h.subresource = NoName   -> "Patch"
      [] h.verb = "patch"  /\ h.contentType # "apply"  /\ h.subresource = "status" -> "PatchStatus"
      [] OTHER                                                  -> Unsupported

\* Every action but the two plain patches carries a Kubernetes object.
HasObjectBody(action) == action \notin {"Patch", "PatchStatus"}

\* Variant: only names are compared.
BodyHasNameOfURL(h) == ActionOf(h) \notin {"Create", "Delete"} => h.body.name = h.name

\* The object in the body must be in the namespace of the URL and, except for
\* a create (no name in the URL) and a delete (the body is a DeleteOptions),
\* have the name of the URL.  A DeleteOptions has no namespace, so the delete
\* of a namespaced object is never accepted.
BodyAgreesWithURL(h) ==
    /\ h.body.ns = h.ns
    /\ ActionOf(h) \notin {"Create", "Delete"} => h.body.name = h.name

\* All early returns of roundTrip before the lock is taken.
Accepted(h) ==
    /\ ActionOf(h) # Unsupported
    /\ h.options.parse
    /\ HasObjectBody(ActionOf(h)) => h.body.decodes /\ BodyAgreesWithURL(h)
    /\ ~HasObjectBody(ActionOf(h)) /\ h.contentType = "json" => h.body.decodes

Serialize(h) ==
    LET action == ActionOf(h) IN
    [action       |-> action,
     resource     |-> h.resource,
     version      |-> h.version,
     ns           |-> h.ns,
     name         |-> IF action = "Create" THEN h.body.name ELSE h.name,
     generateName |-> IF HasObjectBody(action) THEN h.body.generateName ELSE NoName,
     patchType    |-> IF HasObjectBody(action) THEN NoName ELSE h.contentType,
     controller   |-> h.controller,
     options      |-> h.options.content,
     body         |-> h.body]

=============================================================================
