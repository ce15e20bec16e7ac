--------------------------- MODULE RequiredResources ---------------------------
(***************************************************************************)
(* Which objects of a directory a list of declared resources stands for,   *)
(* the files they are written to, and the files read back                  *)
(* (libraryinputresources/prune_mustgather.go, resource.go).  Pure         *)
(* operators.                                                              *)
(***************************************************************************)
EXTENDS InputDeclarations, FiniteSets, TLC

(* GetRequiredInputResourcesForResourceList.                               *)

\* Variant: objects of two namespaces are not told apart.
IDWithoutNamespace(r) == <<r.type, r.object.name>>

\* A resource: the type it was asked for as, and the object.
ID(r) == <<r.type, r.object.ns, r.object.name>>

\* UniqueResourceSet: of several that are the same the first one counts.
Unique(rs) ==
    FlattenSeq([i \in DOMAIN rs |-> IF \E j \in 1..(i - 1) : ID(rs[j]) = ID(rs[i]) THEN <<>> ELSE <<rs[i]>>])

\* What is not found is passed over, any other error is collected.
Read1(type, answer) ==
    [failed |-> answer.status = "error",
     found  |-> [i \in DOMAIN answer.objects |-> [type |-> type, object |-> answer.objects[i]]]]

ReadExact(dir, id) == Read1(id.type, Get(dir, id))

ReadSelected(dir, s) == Read1(s.type, List(dir, s))

Target(reference, name) ==
    [type |-> reference.implicit.type, version |-> reference.implicit.version,
     ns |-> reference.implicit.ns, name |-> name]

\* The referring object, and what it refers to.  A path that cannot be
\* evaluated on the object is an error.
ReadReference(dir, r) ==
    LET answer    == Get(dir, r.referring)
        referring == Read1(r.referring.type, answer)
        names     == answer.objects[1].refs[r.implicit.path]
    IN  IF answer.status # "ok" \/ r.implicit = Nil THEN <<referring>>
        ELSE IF r.implicit.path \notin DOMAIN answer.objects[1].refs THEN <<[referring EXCEPT !.failed = TRUE]>>
        ELSE <<referring>> \o [i \in DOMAIN names |-> ReadExact(dir, Target(r, names[i]))]

\* All that is read, in this order.  The generated names are never looked up.
Reads(dir, list) ==
    [i \in DOMAIN list.exact |-> ReadExact(dir, list.exact[i])]
    \o [i \in DOMAIN list.selected |-> ReadSelected(dir, list.selected[i])]
    \o FlattenSeq([i \in DOMAIN list.references |-> ReadReference(dir, list.references[i])])

AllFound(reads) == FlattenSeq([i \in DOMAIN reads |-> reads[i].found])

ReadRequired(dir, list) ==
    LET reads == Reads(dir, list)
    IN  [instances |-> Unique(AllFound(reads)), failed |-> \E i \in DOMAIN reads : reads[i].failed]

-----------------------------------------------------------------------------
(* unstructuredToMustGatherFormat.                                         *)

Kinds(set) == {r.object.kind : r \in ToSet(set)}
OfKind(set, kind) == Those(set, {r \in ToSet(set) : r.object.kind = kind})
Objects(set) == [i \in DOMAIN set |-> set[i].object]

\* A kind can be written in one version only.
OneVersion(set) ==
    \A q, r \in ToSet(set) : q.object.kind = r.object.kind => q.object.version = r.object.version

\* Variant: one file for all namespaces.
OneFilePerKind(set) ==
    {[path |-> ListFile(None, Last(OfKind(set, kind)).type),
      content |-> [kind |-> kind, version |-> Head(OfKind(set, kind)).object.version,
                   items |-> Objects(OfKind(set, kind))]] : kind \in Kinds(set)}

\* One list file per kind and namespace, named after the type that the last
\* resource of the kind was asked for as.
FilesOf(set) ==
    {LET items == Those(set, {q \in ToSet(set) : q.object.kind = r.object.kind /\ q.object.ns = r.object.ns})
     IN  [path |-> ListFile(r.object.ns, Last(OfKind(set, r.object.kind)).type),
          content |-> [kind |-> r.object.kind, version |-> Head(items).object.version, items |-> Objects(items)]]
     : r \in ToSet(set)}

\* The two together, on a target that is empty and with nothing failing.
Pruned(dir, list) ==
    LET files == FilesOf(ReadRequired(dir, list).instances)
    IN  [p \in {f.path : f \in files} |-> (CHOOSE f \in files : f.path = p).content]

-----------------------------------------------------------------------------
(* Reading a directory back, as the tests do.                              *)

\* findGVR: the type of a kind has to be the only one.
TypesOf(object) ==
    {t[1] : t \in {d \in DOMAIN Discovery : d[2] = object.version /\ Discovery[d] = object.kind}}

\* Variant: only the first item of a list.
FirstOf(content) == IF "items" \in DOMAIN content THEN <<Head(content.items)>> ELSE <<content>>

ObjectsOf(content) == IF "items" \in DOMAIN content THEN content.items ELSE <<content>>

\* LenientResourcesFromDirRecursive, ResourcesFromFile: any file that cannot
\* be decoded, any object of an unknown or ambiguous kind fails it all.
ResourcesFromDir(dir) ==
    LET files   == SetToSeq(DOMAIN dir)
        objects == FlattenSeq([i \in DOMAIN files |-> ObjectsOf(dir[files[i]])])
    IN  IF Broken \in Range(dir) \/ \E o \in ToSet(objects) : Cardinality(TypesOf(o)) # 1
        THEN [failed |-> TRUE, instances |-> <<>>]
        ELSE [failed |-> FALSE,
              instances |-> [i \in DOMAIN objects |->
                                [type |-> CHOOSE t \in TypesOf(objects[i]) : TRUE, object |-> objects[i]]]]

\* EquivalentResources: by file name, contents in one direction only.
Differences(lhs, rhs) ==
    {l.path : l \in {x \in lhs : \A y \in rhs : y # x}}
        \cup {r.path : r \in {x \in rhs : \A y \in lhs : y.path # x.path}}

-----------------------------------------------------------------------------
(* What a list means for a directory, with no pruning.                     *)

\* What a reference leads to in a directory.
Targets(dir, r) ==
    LET referring == Get(dir, r.referring)
    IN  IF r.implicit = Nil \/ referring.status # "ok" THEN {}
        ELSE IF r.implicit.path \notin DOMAIN referring.objects[1].refs THEN {}
        ELSE {Target(r, name) : name \in ToSet(referring.objects[1].refs[r.implicit.path])}

\* The objects that are named by a list, directly or by a reference.
Wanted(dir, list) ==
    ToSet(list.exact) \cup {r.referring : r \in ToSet(list.references)}
                      \cup UNION {Targets(dir, r) : r \in ToSet(list.references)}

\* No answer for something required is an error, no reference is dead.
Readable(dir, list) ==
    /\ \A id \in Wanted(dir, list) : Get(dir, id).status # "error"
    /\ \A s \in ToSet(list.selected) : List(dir, s).status # "error"
    /\ \A r \in ToSet(list.references) :
          r.implicit # Nil /\ Get(dir, r.referring).status = "ok" =>
              r.implicit.path \in DOMAIN Get(dir, r.referring).objects[1].refs

\* What is taken for granted of directories.  They hold finitely many files,
\* which hold lists and objects.
IsSequence(s) == s \in Seq(ToSet(s))
IsObject(o) ==
    /\ o = [field \in DOMAIN o |-> o[field]]
    /\ {"kind", "version", "ns", "name", "labels", "refs"} \subseteq DOMAIN o
    /\ o.ns \in Nat
    /\ \A path \in DOMAIN o.refs : IsSequence(o.refs[path])
IsDirectory(dir) ==
    /\ IsFiniteSet(DOMAIN dir)
    /\ \A p \in DOMAIN dir :
          p = [ns |-> p.ns, type |-> p.type, name |-> p.name] /\ p.ns \in Nat /\ p.name \in Nat
    /\ \A p \in DOMAIN dir : dir[p] # Broken =>
          /\ p.name = None => "items" \in DOMAIN dir[p] /\ IsSequence(dir[p].items)
          /\ p.name # None => "items" \notin DOMAIN dir[p]
          /\ \A o \in ToSet(ObjectsOf(dir[p])) : IsObject(o)

\* Where a list looks there are objects of one kind and version only, each in the
\* directory of the namespace that it names.
LookedAt(dir, s) == {p \in DOMAIN dir : p.type = s.type /\ p.ns \in ToSet(Places(dir, s.ns))}
AsListed(dir, s) ==
    \A p \in LookedAt(dir, s) : dir[p] # Broken =>
        /\ \A o \in ToSet(ObjectsOf(dir[p])) : o.ns = p.ns
        /\ \A x \in {dir[p]} \cup ToSet(ObjectsOf(dir[p])) :
              x.kind = Discovery[<<s.type, s.version>>] /\ x.version = s.version

\* Such objects have the names of their files, and there are no two of a name
\* in one list.
IsWellKept(dir, s) ==
    /\ AsListed(dir, s)
    /\ \A p \in LookedAt(dir, s) : dir[p] # Broken =>
          IF p.name # None THEN dir[p].name = p.name
          ELSE \A o, q \in ToSet(dir[p].items) : o.name = q.name => o = q

\* A must-gather keeps an object where it belongs, and if it does twice, then
\* alike; the objects of a type are those of a kind; and where the first thing
\* that a list reads has the right kind and version, which is all that it looks
\* at, the others have them too.
IsConsistent(dir, list) ==
    LET all == ToSet(AllFound(Reads(dir, list))) IN
    /\ \A id \in Wanted(dir, list) : \A o \in ToSet(Get(dir, id).objects) : o.ns = id.ns /\ o.name = id.name
    /\ \A q, r \in all : <<q.type, q.object.ns, q.object.name>> = <<r.type, r.object.ns, r.object.name>> => q = r
    /\ \A q, r \in all : q.type = r.type <=> q.object.kind = r.object.kind
    /\ \A s \in ToSet(list.selected) : s.type # Namespaces /\ List(dir, s).status = "ok" => AsListed(dir, s)

\* Discovery knows the kind of each object that is pruned as the type that it
\* was asked for as, and as no other.
IsKnown(dir, list) ==
    LET read == ReadRequired(dir, list)
    IN  ~read.failed /\ OneVersion(read.instances) =>
            \A r \in ToSet(read.instances) : TypesOf(r.object) = {r.type}

=============================================================================
