------------------------------ MODULE MustGather ------------------------------
(***************************************************************************)
(* What the offline client answers from a directory of manifests: the get  *)
(* and the list of manifestclient (get.go, list.go, encoding.go), which    *)
(* stand for the API server whenever an operator runs, or its inputs are   *)
(* looked for, without a cluster.  Pure operators.                         *)
(*                                                                         *)
(* A directory is a function from paths to contents.  A path is a record   *)
(*   [ns, type, name]   namespaces/<ns>/<type>/<name>.yaml, or             *)
(*                      cluster-scoped-resources/... if ns is None;        *)
(*   with name None     the list file .../<type>.yaml;                     *)
(*   with type NoType   namespaces/<name>/<name>.yaml, a namespace itself. *)
(* A file holds an object                                                  *)
(*   [kind, version, ns, name, labels, refs, data],                        *)
(* a list [kind, version, items] of them (kind is that of its items), or   *)
(* nothing that can be decoded.  refs is what the JSON paths of references *)
(* yield on the object.  Namespaces and names are numbers, in their order. *)
(* Types and kinds stand for group/resource and group/kind.                *)
(***************************************************************************)
EXTENDS Naturals, SequencesExt

CONSTANT
    Discovery   \* kind of each <<type, version>> that discovery knows

None == 0
NoType == ""
Namespaces == "namespaces"

\* A file that was cut short: its kind, the last key of a list, is lost.
Broken == [broken |-> TRUE]

Found(objects) == [status |-> "ok", objects |-> objects]
NotFound == [status |-> "notfound", objects |-> <<>>]
Failed == [status |-> "error", objects |-> <<>>]

\* What of a sequence is in a set, in the order of the sequence.
Those(seq, set) == FlattenSeq([i \in DOMAIN seq |-> IF seq[i] \in set THEN <<seq[i]>> ELSE <<>>])

ListFile(ns, type) == [ns |-> ns, type |-> type, name |-> None]

\* A namespace has a place of its own.
IndividualFile(id) ==
    IF id.type = Namespaces THEN [ns |-> id.name, type |-> NoType, name |-> id.name]
    ELSE [ns |-> id.ns, type |-> id.type, name |-> id.name]

\* The request for a namespace names it as its namespace, too.
RequestNamespace(id) == IF id.type = Namespaces THEN id.name ELSE id.ns

ItemsNamed(list, name) == Those(list.items, {o \in ToSet(list.items) : o.name = name})

InVersion(object, version) ==
    IF object # Broken /\ object.version = version THEN Found(<<object>>) ELSE Failed

\* get: the object's own file decides if there is one; otherwise the first
\* item of the list file that has the name, with the kind of the list.
Get(dir, id) ==
    LET own  == IndividualFile(id)
        list == ListFile(RequestNamespace(id), id.type)
    IN  IF id.name = None THEN Failed
        ELSE IF own \in DOMAIN dir THEN InVersion(dir[own], id.version)
        ELSE IF list \notin DOMAIN dir THEN NotFound
        ELSE IF dir[list] = Broken THEN Failed
        ELSE IF ItemsNamed(dir[list], id.name) = <<>> THEN NotFound
        ELSE InVersion([Head(ItemsNamed(dir[list], id.name)) EXCEPT !.kind = dir[list].kind], id.version)

-----------------------------------------------------------------------------

NamespacesWithData(dir) == {p.ns : p \in DOMAIN dir} \ {None}

\* In place i the number before which i - 1 others come.
InOrder(numbers) ==
    [i \in 1..Cardinality(numbers) |-> CHOOSE n \in numbers : Cardinality({m \in numbers : m < n}) = i - 1]

\* Where a list looks: the one namespace asked for, or everywhere.
Places(dir, ns) == IF ns # None THEN <<ns>> ELSE <<None>> \o InOrder(NamespacesWithData(dir))

ListFiles(dir, s) ==
    LET places == Places(dir, s.ns)
    IN  Those([i \in DOMAIN places |-> ListFile(places[i], s.type)], DOMAIN dir)

IndividualFiles(dir, ns, type) ==
    LET names == {p.name : p \in {q \in DOMAIN dir : q.ns = ns /\ q.type = type}} \ {None}
    IN  [i \in 1..Cardinality(names) |-> [ns |-> ns, type |-> type, name |-> InOrder(names)[i]]]

NamespaceFiles(dir) ==
    Those([i \in 1..Cardinality(NamespacesWithData(dir)) |->
              IndividualFile([type |-> Namespaces, name |-> InOrder(NamespacesWithData(dir))[i]])], DOMAIN dir)

\* Labels that an object must have and, by an expression, must not have.
Selects(s, object) == s.labels \subseteq object.labels /\ s.without \cap object.labels = {}

Contents(dir, files) == [i \in DOMAIN files |-> dir[files[i]]]

\* Variant: the selector is ignored.
CheckedUnfiltered(first, objects, s) ==
    IF <<first.kind, first.version>> = <<Discovery[<<s.type, s.version>>], s.version>> THEN Found(objects) ELSE Failed

\* The first of what was read has to be of the kind that discovery has for
\* the type; the rest is taken as it is.
Checked(first, objects, s) ==
    IF <<first.kind, first.version>> = <<Discovery[<<s.type, s.version>>], s.version>>
    THEN Found(Those(objects, {o \in ToSet(objects) : Selects(s, o)}))
    ELSE Failed

\* listAllNamespaces: whatever the selector.
ListNamespaces(dir) ==
    LET found == Contents(dir, NamespaceFiles(dir))
    IN  IF Broken \in ToSet(found) THEN Failed ELSE Found(found)

\* listAll: if there is a list file anywhere, only list files count.
List(dir, s) ==
    LET lists == Contents(dir, ListFiles(dir, s))
        own   == FlattenSeq([i \in DOMAIN Places(dir, s.ns) |->
                                Contents(dir, IndividualFiles(dir, Places(dir, s.ns)[i], s.type))])
    IN  IF s.type = Namespaces THEN ListNamespaces(dir)
        ELSE IF <<s.type, s.version>> \notin DOMAIN Discovery \/ Broken \in ToSet(lists) THEN Failed
        ELSE IF lists # <<>> THEN Checked(Head(lists), FlattenSeq([i \in DOMAIN lists |-> lists[i].items]), s)
        ELSE IF Broken \in ToSet(own) THEN Failed
        ELSE IF own = <<>> THEN Found(<<>>)
        ELSE Checked(Head(own), own, s)

=============================================================================
