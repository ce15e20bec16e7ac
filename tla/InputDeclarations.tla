-------------------------- MODULE InputDeclarations --------------------------
(***************************************************************************)
(* What an operator declares as its inputs and outputs, and what its       *)
(* input-resources command makes of it (libraryinputresources: types.go,   *)
(* options.go, validation.go; libraryoutputresources: types.go,            *)
(* options.go).  Pure operators.                                           *)
(*                                                                         *)
(* A list of resources is a record of sequences                            *)
(*   exact      : [type, version, ns, name]                                *)
(*   generated  : [type, version, ns, generateName]                        *)
(*   selected   : [type, version, ns, labels, without]                     *)
(*   references : [referring, kind, implicit], where referring is an exact *)
(*                resource and implicit is [type, version, ns, path] or    *)
(*                Nil; what a reference of another kind has instead, only  *)
(*                its validation would look at.                            *)
(* Inputs are [apply, operands]: the resources apply-configuration reads,  *)
(* and the set of the lists of operands, which are only validated.         *)
(* Outputs have an exact and a generated list per type of cluster.         *)
(***************************************************************************)
EXTENDS MustGather

CONSTANTS
    Nil,        \* a nil pointer: what a failing function returns, no reference
    Parsable    \* the JSON paths that parse

NoVersion == ""

HasType(r) == r.version # NoVersion /\ r.type # NoType

ValidExact(r) == HasType(r) /\ r.name # None

\* matchExpressions are forbidden.
ValidSelected(r) == HasType(r) /\ r.without = {}

\* Only implicit references are supported.
ValidReference(r) ==
    /\ ValidExact(r.referring)
    /\ r.kind = "implicit"
    /\ HasType(r.implicit) /\ r.implicit.ns # None /\ r.implicit.path \in Parsable

\* validateResourceList.  The generated names are not looked at.
ValidList(list) ==
    /\ \A r \in ToSet(list.exact) : ValidExact(r)
    /\ \A r \in ToSet(list.selected) : ValidSelected(r)
    /\ \A r \in ToSet(list.references) : ValidReference(r)

\* Validating an implicit reference that is not there dereferences nil.
PanicsOn(list) == \E r \in ToSet(list.references) : r.kind = "implicit" /\ r.implicit = Nil

\* validateInputResources: what apply-configuration reads, and the operands.
AllLists(inputs) == {inputs.apply} \cup inputs.operands

\* convertOutputToInput and the two appends: of what the operator writes, the
\* configuration is also read.
WithOutputs(inputs, outputs) ==
    [inputs EXCEPT !.apply.exact = @ \o outputs.configuration.exact,
                   !.apply.generated = @ \o outputs.configuration.generated]

\* inputResourcesOptions.Run: how the command ends and what it has printed.
\* A function that fails returns nil, which is dereferenced; what is not valid
\* is printed all the same.
InputResourcesCommand(inputs, outputs) ==
    LET all == WithOutputs(inputs, outputs) IN
    IF inputs = Nil \/ outputs = Nil \/ \E list \in AllLists(all) : PanicsOn(list)
    THEN [ended |-> "panic", printed |-> Nil]
    ELSE [ended   |-> IF \A list \in AllLists(all) : ValidList(list) THEN "ok" ELSE "error",
          printed |-> all]

=============================================================================
