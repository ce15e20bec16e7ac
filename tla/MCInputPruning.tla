---------------------------- MODULE MCInputPruning ----------------------------
(***************************************************************************)
(* Instances of InputPruning: operators that declare what the sample       *)
(* operator and the tests declare - exact resources, a label, a reference  *)
(* from a configuration to secrets - and must-gathers that store it as     *)
(* lists, as single files or both, in part, not at all, or damaged.        *)
(***************************************************************************)
EXTENDS InputPruning

MCDiscovery == (<<"configmaps", "v1">> :> "ConfigMap") @@ (<<"secrets", "v1">> :> "Secret")
               @@ (<<"ingresses", "v1">> :> "Ingress") @@ (<<"namespaces", "v1">> :> "Namespace")
MCParsable == {"path"}

(* Objects and directories.                                                *)
Object(kind, ns, name, labels) ==
    [kind |-> kind, version |-> "v1", ns |-> ns, name |-> name,
     labels |-> labels, refs |-> <<>>, data |-> name]
ConfigMap(ns, name, labels) == Object("ConfigMap", ns, name, labels)
Secret(ns, name) == Object("Secret", ns, name, {})
Ingress(refs) == [Object("Ingress", None, 1, {}) EXCEPT !.refs = refs]
To(names) == "path" :> names     \* what the reference's path yields
InV2(o) == [o EXCEPT !.version = "v2", !.name = 2]

In(ns, type, items) ==
    ListFile(ns, type) :> [kind |-> Head(items).kind, version |-> Head(items).version, items |-> items]
Single(type, o) == IndividualFile([type |-> type, ns |-> o.ns, name |-> o.name]) :> o
Namespace(n) == Single("namespaces", Object("Namespace", None, n, {}))

Secrets == In(1, "secrets", <<Secret(1, 1), Secret(1, 2), Secret(1, 3)>>)
MCContent ==
    [lists    |-> In(None, "ingresses", <<Ingress(To(<<2, 1>>))>>) @@ Secrets
                  @@ In(1, "configmaps", <<ConfigMap(1, 1, {}), ConfigMap(1, 2, {"l"})>>)
                  @@ In(2, "configmaps", <<ConfigMap(2, 1, {"l"}), ConfigMap(2, 2, {"l", "m"}), ConfigMap(2, 3, {})>>),
     singles  |-> Single("ingresses", Ingress(To(<<>>))) @@ Single("configmaps", ConfigMap(1, 1, {}))
                  @@ Single("configmaps", ConfigMap(2, 2, {"l"})) @@ Secrets,
     both     |-> Single("ingresses", Ingress(To(<<2, 2>>))) @@ In(None, "ingresses", <<Ingress(To(<<2, 2>>))>>)
                  @@ Single("secrets", Secret(1, 2)) @@ In(1, "configmaps", <<ConfigMap(1, 1, {"l"})>>),
     dead     |-> In(None, "ingresses", <<Ingress(<<>>)>>) @@ In(2, "configmaps", <<ConfigMap(2, 1, {"l"})>>),
     damaged  |-> In(1, "configmaps", <<ConfigMap(1, 1, {})>>) @@ (ListFile(2, "configmaps") :> Broken),
     updated  |-> Single("ingresses", Ingress(To(<<>>))) @@ In(1, "configmaps", <<InV2(ConfigMap(1, 1, {}))>>)
                  @@ In(2, "configmaps", <<ConfigMap(2, 3, {"l"})>>),
     spaces   |-> Namespace(1) @@ Namespace(2) @@ In(1, "configmaps", <<ConfigMap(1, 1, {})>>),
     versions |-> Single("ingresses", Ingress(To(<<>>))) @@ Single("ingresses", InV2(Ingress(To(<<>>))))]

(* Declarations.                                                           *)
Id(type, ns, name) == [type |-> type, version |-> "v1", ns |-> ns, name |-> name]
Labelled(ns, without) == [type |-> "configmaps", version |-> "v1", ns |-> ns, labels |-> {"l"}, without |-> without]
Implicit == [type |-> "secrets", version |-> "v1", ns |-> 1, path |-> "path"]
Reference(kind, implicit) ==
    [referring |-> Id("ingresses", None, 1), kind |-> kind, implicit |-> implicit]

Nothing == [exact |-> <<>>, generated |-> <<>>, selected |-> <<>>, references |-> <<>>]
Inputs(list) == [apply |-> list, operands |-> {Nothing}]
Writes(list) == [configuration |-> list]
Exactly(ids) == [Nothing EXCEPT !.exact = ids]

Needs == [Exactly(<<Id("configmaps", 1, 1), Id("secrets", 1, 2)>>) EXCEPT
             !.selected = <<Labelled(2, {})>>, !.references = <<Reference("implicit", Implicit)>>]
Sample == [inputs |-> Inputs(Needs), outputs |-> Writes(Exactly(<<Id("ingresses", None, 1)>>))]
Reading(list) == [inputs |-> Inputs(list), outputs |-> Writes(Nothing)]
Writing(list) == [inputs |-> Inputs(Nothing), outputs |-> Writes(list)]
Ingresses == Id("ingresses", None, 1)

MCOperators == {
    Sample,
    Reading([Nothing EXCEPT !.selected = <<Labelled(None, {}), Labelled(2, {})>>]),
    Reading([Exactly(<<Id("configmaps", 1, 1)>>) EXCEPT !.selected = <<Labelled(2, {"m"})>>]),
    Reading([Nothing EXCEPT !.references = <<Reference("implicit", Nil)>>]),
    Reading([Nothing EXCEPT !.references = <<Reference("explicit", Nil)>>]),
    Reading(Exactly(<<Id("namespaces", None, 1)>>)),
    Reading([Nothing EXCEPT !.selected = <<[Labelled(None, {}) EXCEPT !.type = "namespaces"]>>]),
    Reading(Exactly(<<Ingresses, [Ingresses EXCEPT !.name = 2, !.version = "v2"]>>)),
    Writing(Exactly(<<[Ingresses EXCEPT !.version = NoVersion]>>)),
    Writing([Nothing EXCEPT !.generated =
                <<[type |-> "configmaps", version |-> "v1", ns |-> 2, generateName |-> 2]>>]),
    [inputs |-> Nil, outputs |-> Writes(Nothing)]}
=============================================================================
