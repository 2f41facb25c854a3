----------------------------- MODULE FuseServer -----------------------------
(***************************************************************************)
(* The file system: the tree ParseVtkFile builds (parser.cc), its          *)
(* directories and files (vfs.cc) and the handlers of FUSE and of the      *)
(* bypass API (c.cc).  The tree does not change once it is built and a     *)
(* handler shares nothing else, so a handler is one step; FilePread has    *)
(* the steps of a read.                                                    *)
(*                                                                         *)
(* A name or a path is a sequence of tokens, each a separator or a piece   *)
(* of a name without separators.  Of an array, only the file made of it    *)
(* matters here: an identity and a size (BuildMap has the rest).           *)
(***************************************************************************)
EXTENDS Integers, Sequences, SequencesExt

CONSTANTS
  Tokens,    \* what names and paths are made of
  VtkFiles,  \* files that may be mounted
  Paths,     \* [comps, lead, gap, trail]: the paths clients name
  Handles,   \* handles to open files (fi->fh)
  Offsets,   \* offsets and sizes of reads
  Sizes,
  NoFile,    \* not a file
  NoTree,    \* nullptr
  NoReply    \* not a reply

VARIABLES
  vtk,      \* the underlying file
  phase,    \* what the server does
  tree,     \* private_data
  handles,  \* the file each handle is open on
  req,      \* the latest request
  reply     \* what its handler returned, or NoReply while it is pending

vars == <<vtk, phase, tree, handles, req, reply>>

Requests ==
  [op : {"getattr", "readdir"}, path : Paths]
  \cup [op : {"open"}, path : Paths, writing : BOOLEAN]
  \cup [op : {"read"}, fh : Handles, offset : Offsets, size : Sizes]
  \cup [op : {"flush", "release"}, fh : Handles]

-----------------------------------------------------------------------------
(* parser.cc: from the VTK file to the tree.                               *)

\* Sections loaded for an extension, besides METADATA.
Sections(ext) ==
  CASE ext = ".vtu" -> {"pointdata", "celldata", "points", "cells"}
    [] ext = ".vts" -> {"pointdata", "celldata", "points"}
    [] ext = ".vti" -> {"pointdata", "celldata"}
    [] OTHER -> {}

\* ParseVtkFile returns for these files and throws for the others.
Parses(v) ==
  /\ v.readable
  /\ v.ext \in {".vtu", ".vts", ".vti"}
  /\ v.header_type \in {"UInt32", "UInt64"}
  /\ v.compressor \in {"none", "vtkZLibDataCompressor", "vtkLZ4DataCompressor"}
  /\ \A s \in Sections(v.ext) : \A k \in 1..Len(v.arrays[s]) :
       LET a == v.arrays[s][k]
       IN  /\ a.type \in {"Int8", "UInt8", "Int32", "UInt32", "Int64", "UInt64",
                          "Float32", "Float64"}
           /\ a.format = "appended"
           /\ a.header_readable

File(kind, id, size) == [kind |-> kind, id |-> id, size |-> size]

FileType == [kind : {"value", "array"}, id : Seq(Tokens), size : Nat]

\* CopyAttrs from the root, then from the mesh element.
RootAttrs(v) ==
  [k \in DOMAIN v.root \cup DOMAIN v.mesh |->
     File("value", <<"METADATA">> \o k, IF k \in DOMAIN v.mesh THEN v.mesh[k] ELSE v.root[k])]

\* ParseArrayGroup.  The attributes of an array are kept under its name: the
\* last array of a name wins.
ArrayGroup(arrays) ==
  LET last(name) == CHOOSE k \in 1..Len(arrays) :
                      /\ arrays[k].name \o <<".parquet">> = name
                      /\ \A j \in k + 1..Len(arrays) : arrays[j].name # arrays[k].name
  IN  [name \in {arrays[k].name \o <<".parquet">> : k \in 1..Len(arrays)} |->
         File("array", arrays[last(name)].id, arrays[last(name)].size)]

Dir(is_root, entries) == [is_root |-> is_root, entries |-> entries]

ParseVtkFile(v) ==
  Dir(TRUE, [name \in {<<s>> : s \in Sections(v.ext) \cup {"METADATA"}} |->
    Dir(FALSE, IF name = <<"METADATA">> THEN RootAttrs(v) ELSE ArrayGroup(v.arrays[name[1]]))])

\* What the constants are; NoFile and NoTree are nothing else.
ArrayType ==
  [name : Seq(Tokens), id : Seq(Tokens), size : Nat, type : STRING, format : STRING,
   header_readable : BOOLEAN]

ASSUME TokensAssumption == {"/", "METADATA", ".parquet"} \subseteq Tokens

ASSUME VtkFilesAssumption ==
  \A v \in VtkFiles :
    /\ v.mode \subseteq {"usr", "grp", "oth"} \X {"r", "w", "x"}
    /\ \A attrs \in {v.root, v.mesh} : \A k \in DOMAIN attrs : k \in Seq(Tokens) /\ attrs[k] \in Nat
    /\ \A s \in Sections(v.ext) : v.arrays[s] \in Seq(ArrayType)
    /\ ParseVtkFile(v) # NoTree

ASSUME NoFileAssumption == NoFile \notin FileType

ASSUME RequestsAssumption ==
  /\ Paths # {}
  /\ \A q \in Paths : /\ q.comps \in Seq(Seq(Tokens))
                       /\ q.lead \in Nat /\ q.gap \in Nat /\ q.trail \in Nat
  /\ Offsets \subseteq Nat /\ Sizes \subseteq Nat

\* SanitizedStat: who may read the underlying file, and nothing else.
BaseMode(v) == {m \in v.mode : m[2] = "r"}

-----------------------------------------------------------------------------
(* c.cc: from a path to a reply.                                           *)

\* Dir::Stat followed by the test of is_dir.
Lookup(dir, name) ==
  CASE name \notin DOMAIN dir.entries -> "NOTFOUND"
    [] name \in DOMAIN dir.entries /\ dir.is_root -> "DIR"
    [] OTHER -> "FILE"

Resolved(err, parent, name) == [err |-> err, parent |-> parent, name |-> name]

\* Names start after a separator and end before one.
IsSep(path, k) == path[k] = "/"

Starts(path) == {k \in 1..Len(path) : ~IsSep(path, k) /\ (k = 1 \/ IsSep(path, k - 1))}

EndFrom(path, k) ==
  CHOOSE n \in k..Len(path) :
    /\ \A j \in k..n : ~IsSep(path, j)
    /\ n = Len(path) \/ IsSep(path, n + 1)

\* Runs of tokens between separators, in order.
Components(path) ==
  LET start(c) == CHOOSE k \in Starts(path) : Cardinality({j \in Starts(path) : j <= k}) = c
  IN  [c \in 1..Cardinality(Starts(path)) |-> SubSeq(path, start(c), EndFrom(path, start(c)))]

\* Mutant: a file on the way is taken for a missing entry.
DescendNoEntry(r, next) ==
  IF r.err # "OK" THEN r
  ELSE IF Lookup(r.parent, r.name) = "DIR" THEN Resolved("OK", r.parent.entries[r.name], next)
  ELSE Resolved("ENOENT", r.parent, r.name)

\* One more component turns out not to be the last: r.name is looked up.
Descend(r, next) ==
  IF r.err # "OK" THEN r
  ELSE CASE Lookup(r.parent, r.name) = "DIR" -> Resolved("OK", r.parent.entries[r.name], next)
         [] Lookup(r.parent, r.name) = "FILE" -> Resolved("ENOTDIR", r.parent, r.name)
         [] OTHER -> Resolved("ENOENT", r.parent, r.name)

\* The loop, component by component.
Walk(root, comps) ==
  LET walk[k \in 1..Len(comps)] ==
        IF k = 1 THEN Resolved("OK", root, comps[1]) ELSE Descend(walk[k - 1], comps[k])
  IN  walk

ResolvePath(root, path) ==
  LET comps == Components(path)
  IN  IF path = <<>> \/ Head(path) # "/" THEN Resolved("EINVAL", root, <<>>)
      ELSE IF comps = <<>> THEN Resolved("OK", root, <<>>)
      ELSE Walk(root, comps)[Len(comps)]

\* The path, as the client spells it.
Path(q) ==
  LET seps(n) == [k \in 1..n |-> "/"]
  IN  seps(q.lead)
      \o FlattenSeq([k \in 1..Len(q.comps) |->
                       q.comps[k] \o seps(IF k < Len(q.comps) THEN q.gap ELSE q.trail)])

MakeDirMode(mode) == {<<m[1], p>> : m \in mode, p \in {"r", "x"}}

Done        == [err |-> "OK"]
Fail(errno) == [err |-> errno]

GetattrReply(r) ==
  LET stat(is_dir, size, mode) ==
        [err |-> "OK", is_dir |-> is_dir, size |-> size, mode |-> mode]
      dir == stat(TRUE, 0, MakeDirMode(BaseMode(vtk)))
  IN  IF r.err # "OK" THEN Fail(r.err)
      ELSE IF r.name = <<>> THEN dir
      ELSE CASE Lookup(r.parent, r.name) = "NOTFOUND" -> Fail("ENOENT")
             [] Lookup(r.parent, r.name) = "DIR" -> dir
             [] Lookup(r.parent, r.name) = "FILE" ->
                  stat(FALSE, r.parent.entries[r.name].size, BaseMode(vtk))

ReaddirReply(r) ==
  LET list(d) == [err |-> "OK", names |-> DOMAIN d.entries]
  IN  IF r.err # "OK" THEN Fail(r.err)
      ELSE IF r.name = <<>> THEN list(r.parent)
      ELSE CASE Lookup(r.parent, r.name) = "DIR" -> list(r.parent.entries[r.name])
             [] Lookup(r.parent, r.name) = "FILE" -> Fail("ENOTDIR")
             [] Lookup(r.parent, r.name) = "NOTFOUND" -> Fail("ENOENT")

\* Why Open refuses a path, or OK.
OpenErrno(r) ==
  IF r.err # "OK" THEN r.err
  ELSE IF r.name = <<>> THEN "EISDIR"
  ELSE CASE Lookup(r.parent, r.name) = "DIR" -> "EISDIR"
         [] Lookup(r.parent, r.name) = "FILE" -> "OK"
         [] Lookup(r.parent, r.name) = "NOTFOUND" -> "ENOENT"

-----------------------------------------------------------------------------
Init ==
  /\ vtk \in VtkFiles
  /\ phase = "mounting"
  /\ tree = NoTree
  /\ handles = [h \in Handles |-> NoFile]
  /\ req = CHOOSE q \in Requests : q.op = "getattr"
  /\ reply = Done

\* vtk_init_tree_int
InitTree ==
  /\ phase = "mounting"
  /\ Parses(vtk)
  /\ tree' = ParseVtkFile(vtk)
  /\ phase' = "serving"
  /\ UNCHANGED <<vtk, handles, req, reply>>

\* Mutant: the exception is caught without fuse_exit.
InitTreeServesNothing ==
  /\ phase = "mounting"
  /\ ~Parses(vtk)
  /\ phase' = "serving"
  /\ UNCHANGED <<vtk, tree, handles, req, reply>>

\* ParseVtkFile throws: fuse_exit.
InitTreeFails ==
  /\ phase = "mounting"
  /\ ~Parses(vtk)
  /\ phase' = "exited"
  /\ UNCHANGED <<vtk, tree, handles, req, reply>>

\* The next request.  Clients use handles between open and release, and open
\* no more files at a time than there are Handles (a bound).
Ask ==
  /\ phase = "serving"
  /\ reply # NoReply
  /\ req' \in Requests
  /\ "fh" \in DOMAIN req' => handles[req'.fh] # NoFile
  /\ req'.op = "open" => \E h \in Handles : handles[h] = NoFile
  /\ reply' = NoReply
  /\ UNCHANGED <<vtk, phase, tree, handles>>

Asked(op) ==
  /\ phase = "serving"
  /\ reply = NoReply
  /\ req.op = op
  /\ UNCHANGED <<vtk, phase, tree, req>>

Resolve == ResolvePath(tree, Path(req.path))

Getattr ==
  /\ Asked("getattr")
  /\ reply' = GetattrReply(Resolve)
  /\ UNCHANGED handles

Readdir ==
  /\ Asked("readdir")
  /\ reply' = ReaddirReply(Resolve)
  /\ UNCHANGED handles

\* vtk_open, when the flags are not O_RDONLY or the path is not a file's.
OpenRefused ==
  /\ Asked("open")
  /\ req.writing \/ OpenErrno(Resolve) # "OK"
  /\ reply' = IF req.writing THEN Fail("EPERM") ELSE Fail(OpenErrno(Resolve))
  /\ UNCHANGED handles

Open(h) ==
  /\ Asked("open")
  /\ ~req.writing
  /\ OpenErrno(Resolve) = "OK"
  /\ handles[h] = NoFile
  /\ handles' = [handles EXCEPT ![h] = Resolve.parent.entries[Resolve.name]]
  /\ reply' = [err |-> "OK", fh |-> h]

\* StringBufFile::Pread, or VirtualFile::Pread when FileMap::Pread succeeds.
Read ==
  LET f == handles[req.fh]
      n == IF req.offset < f.size THEN Min({req.size, f.size - req.offset}) ELSE 0
  IN  /\ Asked("read")
      /\ reply' = [err |-> "OK", data |-> {<<f.id, req.offset + k>> : k \in 0..n - 1}]
      /\ UNCHANGED handles

\* FileMap::Pread returns -1.
ReadFails ==
  /\ Asked("read")
  /\ handles[req.fh].kind = "array"
  /\ reply' = Fail("EIO")
  /\ UNCHANGED handles

Flush ==
  /\ Asked("flush")
  /\ reply' = Done
  /\ UNCHANGED handles

Release ==
  /\ Asked("release")
  /\ handles' = [handles EXCEPT ![req.fh] = NoFile]
  /\ reply' = Done

\* vtk_destroy_tree, when the session is over.
Destroy ==
  /\ phase = "serving"
  /\ phase' = "exited"
  /\ tree' = NoTree
  /\ UNCHANGED <<vtk, handles, req, reply>>

Next ==
  \/ InitTree \/ InitTreeFails \/ Destroy
  \/ Ask \/ Getattr \/ Readdir \/ OpenRefused \/ Read \/ ReadFails \/ Flush \/ Release
  \/ \E h \in Handles : Open(h)

Spec == Init /\ [][Next]_vars

-----------------------------------------------------------------------------
(* Names that ServesFs needs. *)

\* A client separates names and has no separator in one.
Spelled(q) ==
  /\ q.gap > 0
  /\ \A c \in 1..Len(q.comps) :
       q.comps[c] # <<>> /\ \A t \in 1..Len(q.comps[c]) : q.comps[c][t] # "/"

\* No two arrays of a section have one name.
NamesDiffer(v) ==
  \A s \in Sections(v.ext) : \A i, j \in 1..Len(v.arrays[s]) :
    v.arrays[s][i].name = v.arrays[s][j].name => i = j

\* What clients and files are assumed to do: names are names.
NamesAreNames ==
  /\ \A q \in Paths : Spelled(q)
  /\ \A v \in VtkFiles : Parses(v) => NamesDiffer(v)

-----------------------------------------------------------------------------
(* Properties. *)

\* Types of the state; there is a tree while the server serves.
TypeOK ==
  /\ vtk \in VtkFiles
  /\ phase \in {"mounting", "serving", "exited"}
  /\ (phase = "serving") <=> (tree # NoTree)
  /\ \A h \in Handles : handles[h] \in FileType \cup {NoFile}
  /\ req \in Requests
  /\ reply = NoReply \/ reply.err \in {"OK", "EINVAL", "ENOTDIR", "ENOENT", "EISDIR", "EPERM", "EIO"}

\* What README.md says a VTK file is translated into: a pseudo-file for each
\* root attribute, and a file for each array of each section.
Promised(v) ==
  LET readers == {m[1] : m \in BaseMode(v)}
      arrays == UNION {{<<s, v.arrays[s][k]>> : k \in 1..Len(v.arrays[s])} : s \in Sections(v.ext)}
      files == {[at |-> << <<x[1]>>, x[2].name \o <<".parquet">> >>,
                 file |-> File("array", x[2].id, x[2].size)] : x \in arrays}
               \cup {[at |-> << <<"METADATA">>, k>>, file |-> RootAttrs(v)[k]] :
                        k \in DOMAIN v.root \cup DOMAIN v.mesh}
      dirs == {[at |-> at, file |-> NoFile] :
                 at \in {<<>>} \cup {<< <<s>> >> : s \in Sections(v.ext) \cup {"METADATA"}}}
  IN  [c \in {f.at : f \in files \cup dirs} |->
         [file |-> (CHOOSE f \in files \cup dirs : f.at = c).file, readers |-> readers]]

\* The nodes of the tree, each at its components.
Nodes ==
  IF tree = NoTree THEN <<>> ELSE
  LET readers == {m[1] : m \in BaseMode(vtk)}
      top == DOMAIN tree.entries
      leaves == UNION {{<<s, n>> : n \in DOMAIN tree.entries[s].entries} : s \in top}
  IN  [c \in {<<>>} \cup {<<s>> : s \in top} \cup leaves |->
         [file |-> IF c \in leaves THEN tree.entries[c[1]].entries[c[2]] ELSE NoFile,
          readers |-> readers]]

\* The handlers of c.cc serve the promised tree: names that Readdir lists can
\* be opened, Getattr, Readdir and Open agree on what a path names however its
\* separators are repeated, and a handle reads the file its path named.
Fs == INSTANCE ReadOnlyFs WITH
        nodes <- Nodes,
        Contents <- {Promised(v) : v \in {w \in VtkFiles : Parses(w)}}
ServesFs == Fs!Spec

=============================================================================
