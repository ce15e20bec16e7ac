--------------------------- MODULE OutputDirectory ---------------------------
(***************************************************************************)
(* The files of an output directory: where a mutation is written           *)
(* (manifestclient/serialized_request.go, mutation_directory_writer.go)    *)
(* and what is read back from whatever files there are                     *)
(* (mutation_directory_reader.go).  Pure operators.                        *)
(*                                                                         *)
(* A directory is a function from paths to contents.  A path is a record   *)
(*   [dir, action, ns, resource, prefix, base, file]                       *)
(* for the file <dir>/<action>/<ns>/<resource>/<prefix>-<file>-<base>.yaml.*)
(***************************************************************************)
EXTENDS WriteRequests, SequencesExt

CONSTANTS
    SafeName,     \* function on the names in use: colons become "-COLON-"
    ShortHash,    \* function on contents: two bytes of their SHA-256
    BodyLike      \* the names in use that contain "-body-" or begin with "body-"

Empty == ""             \* an empty body, no options
Truncated == [truncated |-> TRUE]   \* the content of a file that has none
Missing == "MISSING"    \* the prefix of a request without body and options

\* hashRequestToPrefix.
Prefix(req) == IF req.body.content # Empty THEN ShortHash[req.body.content]
               ELSE IF req.options # Empty THEN ShortHash[req.options]
               ELSE Missing

\* "%s%s" of name and generated name: a name and a generated name that are
\* equal give the same file.
BaseName(req) == SelectSeq(<<SafeName[req.name], SafeName[req.generateName]>>, LAMBDA s : s # NoName)

\* Variant: the content is not part of the file name.
PathWithoutHash(dir, req, file) ==
    [dir |-> dir, action |-> req.action, ns |-> SafeName[req.ns], resource |-> req.resource,
     prefix |-> "", base |-> BaseName(req), file |-> file]

\* suggestedFilenames.  Neither the version nor the patch type, the options
\* (if there is a body) or the controller are part of a path.
PathOf(dir, req, file) ==
    [dir |-> dir, action |-> req.action, ns |-> SafeName[req.ns], resource |-> req.resource,
     prefix |-> Prefix(req), base |-> BaseName(req), file |-> file]

\* GetLookupMetadata: what the metadata file holds of a request.
MetadataFields == {"action", "resource", "version", "ns", "name", "generateName", "patchType", "controller"}
Metadata(req) == [field \in MetadataFields |-> req[field]]

\* The files WriteMutationDirectory writes for one request, in this order.
FilesOf(dir, req) ==
    << [path |-> PathOf(dir, req, "metadata"), content |-> Metadata(req)],
       [path |-> PathOf(dir, req, "body"),     content |-> req.body] >>
    \o IF req.options = Empty THEN <<>>
       ELSE << [path |-> PathOf(dir, req, "options"), content |-> [options |-> req.options]] >>

\* The controllers' results are beside the directories of the cluster types.
ResultsFile == [dir |-> "controller-results.yaml", file |-> "results"]

\* os.WriteFile of one file; an interrupted one leaves the file truncated.
WriteFile(files, path, content) ==
    [p \in DOMAIN files \cup {path} |-> IF p = path THEN content ELSE files[p]]

-----------------------------------------------------------------------------

At(path, file) == [path EXCEPT !.file = file]

\* A truncated metadata file parses, as metadata without any field.
ReadMetadata(files, path) ==
    IF files[path] = Truncated THEN [field \in MetadataFields |-> NoName] ELSE files[path]

\* serializedRequestFromFile: a body needs its metadata and, unless it is a
\* patch, has to decode; options are taken if they are there.
\* The pattern is not anchored: the other files of an object whose name looks
\* like a body count, too, and have no metadata beside them.
BodyPaths(files, dir) ==
    {p \in DOMAIN files : p.dir = dir /\ (p.file = "body" \/ ToSet(p.base) \cap BodyLike # {})}

Readable(files, path) ==
    /\ path.file = "body"
    /\ At(path, "metadata") \in DOMAIN files
    /\ HasObjectBody(path.action) => files[path] # Truncated

ReadOptions(files, path) ==
    IF path \notin DOMAIN files \/ files[path] = Truncated THEN Empty ELSE files[path].options

FileRequest(files, path) ==
    [field \in MetadataFields \cup {"body", "options"} |->
        CASE field = "body"    -> files[path]
          [] field = "options" -> ReadOptions(files, At(path, "options"))
          [] OTHER             -> ReadMetadata(files, At(path, "metadata"))[field]]

\* readMutationFS: any error, and no request at all is returned.
ReadsBack(files, dir) == \A p \in BodyPaths(files, dir) : Readable(files, p)
ReadRequests(files, dir) == {FileRequest(files, p) : p \in BodyPaths(files, dir)}

=============================================================================
