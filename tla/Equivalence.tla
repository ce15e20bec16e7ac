----------------------------- MODULE Equivalence -----------------------------
(***************************************************************************)
(* When two results of apply-configuration commands count as the same: the *)
(* reasons the comparison finds against it                                 *)
(* (libraryapplyconfiguration/equivalence.go).  Pure operators; requests   *)
(* are what OutputDirectory reads, and since they are compared as values   *)
(* their order and number do not matter: they form sets.                   *)
(*                                                                         *)
(* A result is a record [err, controllerResults, mutations] where mutations*)
(* are a function from cluster types to sets of requests.                  *)
(***************************************************************************)
EXTENDS MutationFilter, OutputDirectory

\* The field manager that options name, and the controller instance that an
\* annotation of a body names.
CONSTANT ManagerAndInstance(_, _)

RemoveEvents(reqs) == {req \in reqs : req.resource \notin EventResource}

IsApply(req) == req.action \in {"Apply", "ApplyStatus"}

\* expandedMetadataFor.
ExpandedMetadata(req) ==
    [metadata |-> Metadata(req),
     managerAndInstance |-> ManagerAndInstance(IF IsApply(req) THEN req.options ELSE NoName, req.body)]

\* reasonForDiff for one request that is to be found in dest.  An apply with
\* other options is another request and not a different one.
ReasonsFor(req, dest) ==
    LET same       == {d \in dest : Metadata(d) = Metadata(req)}
        comparable == {d \in same : IsApply(req) => d.options = req.options}
        diffs      == UNION {{[of |-> req, differs |-> field, from |-> d] :
                                 d \in {c \in comparable : c[field] # req[field]}} : field \in {"body", "options"}}
    IN  IF req \in dest THEN {}
        ELSE IF same = {} THEN {[of |-> req, differs |-> "missing"]}
        ELSE IF diffs = {} THEN {[of |-> req, differs |-> "no equivalent"]}
        ELSE diffs

\* EquivalentClusterApplyResultIgnoringEvents.  A request that is missing on
\* the left is left out if one that is missing on the right looks like it.
ClusterReasons(lhs, rhs) ==
    LET left  == RemoveEvents(lhs)
        right == RemoveEvents(rhs)
        uniquelyMissing == {r \in right \ left :
                               \A l \in left \ right : ExpandedMetadata(l) # ExpandedMetadata(r)}
    IN  (UNION {ReasonsFor(l, right) : l \in left \ right})
        \cup (UNION {ReasonsFor(r, left) : r \in uniquelyMissing})

\* EquivalentApplyConfigurationResultIgnoringEvents.
ResultReasons(lhs, rhs) ==
    {[field |-> field] : field \in {f \in {"err", "controllerResults"} : lhs[f] # rhs[f]}}
    \cup (UNION {{[field |-> ct, reason |-> reason] :
                    reason \in ClusterReasons(lhs.mutations[ct], rhs.mutations[ct])} : ct \in ClusterType})

=============================================================================
