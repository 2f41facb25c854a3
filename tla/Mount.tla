------------------------------- MODULE Mount -------------------------------
(***************************************************************************)
(* The life of a mounted file: ParseVtkFileInternal step by step, with the *)
(* exceptions that may leave it anywhere, files opened and released by     *)
(* clients, and the end (parser.cc, vfs.cc, c.cc, fuse_main.c).            *)
(*                                                                         *)
(* The state is the objects that exist and who is to delete them.  A       *)
(* unique_ptr of ParseVtkFileInternal, private_data and fi->fh are owners  *)
(* outside the heap (roots); an object owns what its destructor deletes.   *)
(* What is read of the VTK file is in ArrayHeader, what is built of it in  *)
(* BuildMap.  Memory is assumed not to run out.                            *)
(***************************************************************************)
EXTENDS Integers, Sequences, FiniteSets

CONSTANTS
  Meshes,   \* mesh types, and others
  Arrays,   \* [sections -> sets of names] of the files that may be mounted
  Handles,  \* handles to open files
  NoObject  \* nullptr

SectionNames == {"pointdata", "points", "celldata", "cells"}

ASSUME ArraysAssumption == \A f \in Arrays : DOMAIN f = SectionNames

VARIABLES
  mesh,    \* mesh type of the file
  arrays,  \* the arrays of its sections
  pc,      \* the next step of ParseVtkFileInternal, or of the session after it
  todo,    \* sections left to parse
  left,    \* arrays left of the first of them
  live,    \* objects that exist
  roots,   \* those owned by a local variable, by private_data or by fi->fh
  opened   \* the object a handle reads: [Handles -> objects]

vars == <<mesh, arrays, pc, todo, left, live, roots, opened>>
file == <<mesh, arrays>>

-----------------------------------------------------------------------------
(* Objects and their destructors. *)

Reader    == [is |-> "reader"]      \* the vtkXMLReader
Fd        == [is |-> "descriptor"]
OSFile    == [is |-> "os_file"]
Tree      == [is |-> "tree"]
Metadata  == [is |-> "dir", section |-> "METADATA"]
Dir(s)    == [is |-> "dir", section |-> s]
Map(s, a) == [is |-> "map", section |-> s, array |-> a]
File(h)   == [is |-> "file", handle |-> h]

\* A pointer to an object is not nullptr.
ASSUME NoObjectAssumption ==
  /\ NoObject # Metadata
  /\ \A f \in Arrays, s \in SectionNames : \A a \in f[s] : NoObject # Map(s, a)

\* Sections in the order they are parsed.
Sections(m) ==
  CASE m = "UnstructuredGrid" -> <<"pointdata", "points", "celldata", "cells">>
    [] m = "StructuredGrid"   -> <<"pointdata", "points", "celldata">>
    [] m = "ImageData"        -> <<"pointdata", "celldata">>
    [] OTHER -> <<>>

MapsOf(s) == {o \in live : o.is = "map" /\ o.section = s}
Dirs      == {o \in live : o.is = "dir"}

\* Mutant: directories own the file they read.
DirsOwnBase(o) ==
  CASE o = Tree        -> Dirs \cup {OSFile}
    [] o.is = "dir"    -> IF o = Metadata THEN {} ELSE MapsOf(o.section) \cup {OSFile}
    [] o = OSFile      -> {Fd}
    [] OTHER -> {}

\* What the destructor of an object deletes or closes: own_base is true for
\* the tree, false for ArrayDir and VirtualFile.
Owns(o) ==
  CASE o = Tree        -> Dirs \cup {OSFile}
    [] o.is = "dir"    -> IF o = Metadata THEN {} ELSE MapsOf(o.section)
    [] o = OSFile      -> {Fd}
    [] OTHER -> {}

\* An object with all that it owns, directly or not.
Whole(o) ==
  LET one(objs) == objs \cup UNION {Owns(p) : p \in objs}
  IN  one(one(one({o})))

Delete(objs) == UNION {Whole(o) : o \in objs}

\* What a read of an open file follows pointers to.
Uses(o) ==
  IF o.section = "METADATA" THEN {Metadata} ELSE {o, OSFile, Fd}

-----------------------------------------------------------------------------
Init ==
  /\ mesh \in Meshes
  /\ arrays \in Arrays
  /\ pc = "reader"
  /\ todo = <<>> /\ left = {}
  /\ live = {} /\ roots = {}
  /\ opened = [h \in Handles |-> NoObject]

Goto(step) == pc' = step /\ UNCHANGED <<file, opened>>

\* An exception leaves ParseVtkFileInternal: its locals go out of scope, and
\* what the reader's smart pointer gives back is one reference of two.
Throw ==
  /\ Goto("thrown")
  /\ live' = live \ Delete(roots)
  /\ roots' = {} /\ todo' = <<>> /\ left' = {}

\* CreateReader; the pointer it is given to adds a reference to the one that
\* New() returns.
CreateReader ==
  /\ pc = "reader"
  /\ IF Sections(mesh) = <<>> THEN Throw
     ELSE Goto("info") /\ live' = {Reader} /\ UNCHANGED <<roots, todo, left>>

\* UpdateInformation, and the attributes of the file and of its arrays.
ReadInformation ==
  /\ pc = "info"
  /\ \/ Throw
     \/ Goto("open") /\ UNCHANGED <<live, roots, todo, left>>

\* NewOSFile: open.
OpenOSFile ==
  /\ pc = "open"
  /\ \/ Throw
     \/ Goto("stat") /\ live' = live \cup {Fd} /\ UNCHANGED <<roots, todo, left>>

\* NewOSFile: fstat.  Then the directory of METADATA.
StatOSFile ==
  /\ pc = "stat"
  /\ \/ Throw
     \/ /\ Goto("section")
        /\ live' = live \cup {OSFile, Metadata}
        /\ roots' = {OSFile, Metadata}
        /\ todo' = Sections(mesh)
        /\ left' = arrays[Head(todo')]

\* Mutant: an array that cannot be parsed is left out.
SkipArray ==
  /\ pc = "section"
  /\ \E a \in left :
       /\ left' = left \ {a}
       /\ \/ UNCHANGED <<live, roots>>
          \/ live' = live \cup {Map(Head(todo), a)} /\ roots' = roots \cup {Map(Head(todo), a)}
       /\ Goto("section") /\ UNCHANGED todo

\* ParseVtkDataArray, for the arrays of a section in any order.
ParseArray ==
  /\ pc = "section"
  /\ \E a \in left :
       \/ Throw
       \/ /\ left' = left \ {a}
          /\ live' = live \cup {Map(Head(todo), a)}
          /\ roots' = roots \cup {Map(Head(todo), a)}
          /\ Goto("section") /\ UNCHANGED todo

\* The end of ParseArrayGroup: maps are moved to the directory, and it into
\* subdirs.
BuildDir ==
  /\ pc = "section" /\ todo # <<>> /\ left = {}
  /\ live' = live \cup {Dir(Head(todo))}
  /\ roots' = (roots \ MapsOf(Head(todo))) \cup {Dir(Head(todo))}
  /\ todo' = Tail(todo)
  /\ left' = IF todo' = <<>> THEN {} ELSE arrays[Head(todo')]
  /\ Goto("section")

\* new VtkTree: the directories and the file are moved to the tree, which
\* becomes private_data.
BuildTree ==
  /\ pc = "section" /\ todo = <<>>
  /\ live' = live \cup {Tree}
  /\ roots' = {Tree}
  /\ Goto("serving") /\ UNCHANGED <<todo, left>>

\* Mutant: the exception is logged and nobody asks the session to end.
LogOnly ==
  /\ pc = "thrown"
  /\ Goto("thrown") /\ UNCHANGED <<live, roots, todo, left>>

\* vtk_init_tree_int catches, asks the session to end (fuse_exit) and leaves
\* nullptr as private_data, which vtk_destroy_tree deletes.
ExitSession ==
  /\ pc = "thrown"
  /\ Goto("exited") /\ UNCHANGED <<live, roots, todo, left>>

-----------------------------------------------------------------------------
\* Open: MetadataDir::Open and ArrayDir::Open.
Open(h) ==
  /\ pc = "serving" /\ opened[h] = NoObject
  /\ \E o \in {p \in live : p.is = "map"} \cup {Metadata} : opened' = [opened EXCEPT ![h] = o]
  /\ live' = live \cup {File(h)} /\ roots' = roots \cup {File(h)}
  /\ UNCHANGED <<file, pc, todo, left>>

\* Mutant: releasing a file closes the one it reads.
ReleaseBase(h) ==
  /\ pc = "serving" /\ opened[h] # NoObject
  /\ live' = live \ {File(h), OSFile, Fd} /\ roots' = roots \ {File(h)}
  /\ opened' = [opened EXCEPT ![h] = NoObject]
  /\ UNCHANGED <<file, pc, todo, left>>

\* Release, which need not come before the end.
Release(h) ==
  /\ pc = "serving" /\ opened[h] # NoObject
  /\ live' = live \ {File(h)} /\ roots' = roots \ {File(h)}
  /\ opened' = [opened EXCEPT ![h] = NoObject]
  /\ UNCHANGED <<file, pc, todo, left>>

\* Mutant: private_data still points to the tree.
DestroyDangling ==
  /\ pc = "serving"
  /\ live' = live \ Delete({Tree})
  /\ Goto("exited") /\ UNCHANGED <<roots, todo, left>>

\* vtk_destroy_tree.
Destroy ==
  /\ pc = "serving"
  /\ live' = live \ Delete({Tree}) /\ roots' = roots \ {Tree}
  /\ Goto("exited") /\ UNCHANGED <<todo, left>>

Next ==
  \/ CreateReader \/ ReadInformation \/ OpenOSFile \/ StatOSFile
  \/ ParseArray \/ BuildDir \/ BuildTree \/ ExitSession \/ Destroy
  \/ \E h \in Handles : Open(h) \/ Release(h)

Spec == Init /\ [][Next]_vars

\* The parser is one thread that is scheduled; nobody has to unmount.
Starting ==
  \/ CreateReader \/ ReadInformation \/ OpenOSFile \/ StatOSFile
  \/ ParseArray \/ BuildDir \/ BuildTree \/ ExitSession
FairSpec == Spec /\ WF_vars(Starting)

-----------------------------------------------------------------------------
(* Properties. *)

Objects ==
  {Reader, Fd, OSFile, Tree, Metadata} \cup {File(h) : h \in Handles}
  \cup {Dir(s) : s \in DOMAIN arrays}
  \cup UNION {{Map(s, a) : a \in arrays[s]} : s \in DOMAIN arrays}

\* Types of the state.
TypeOK ==
  /\ mesh \in Meshes /\ arrays \in Arrays
  /\ pc \in {"reader", "info", "open", "stat", "section", "thrown", "serving", "exited"}
  /\ \E k \in 0..Len(Sections(mesh)) : todo = SubSeq(Sections(mesh), k + 1, Len(Sections(mesh)))
  /\ left \subseteq UNION {arrays[s] : s \in DOMAIN arrays}
  /\ live \subseteq Objects /\ roots \subseteq live
  /\ \A h \in Handles : opened[h] \in Objects \cup {NoObject}

\* Every object has exactly one owner at every step, through the moves into
\* directories and tree, exceptions and the end, so that none is leaked or
\* deleted twice; but for the reader, which keeps a reference nobody holds,
\* and the descriptor while fstat is called, and for good if it fails
\* (ParseVtkFileInternal, ParseArrayGroup, destructors of vfs.cc).
OneOwner ==
  \A o \in live \ {Reader} :
    LET owners == {p \in live : o \in Owns(p)}
    IN  IF o \in roots THEN owners = {}
        ELSE IF owners = {} THEN o = Fd /\ OSFile \notin live
        ELSE Cardinality(owners) = 1

\* The tree that is served has every array of every section of its mesh
\* type, its destructor leaves nothing but files still open, and an exception
\* leaves no part of a tree (ParseVtkFileInternal, vtk_init_tree_int).
AllOrNothing ==
  /\ pc = "serving" =>
       {o \in live : o.is \in {"map", "dir"}} =
         {Metadata} \cup UNION {{Dir(s)} \cup {Map(s, a) : a \in arrays[s]} :
                                  s \in {Sections(mesh)[k] : k \in DOMAIN Sections(mesh)}}
  /\ pc \in {"thrown", "exited"} =>
       \A o \in live : o \in {Reader, Fd} \/ o.is = "file"

\* While the tree is served, a read through any open file, and whatever is
\* opened and released meanwhile, follows pointers to objects that exist.
ReadsReachLiveObjects ==
  pc = "serving" => \A h \in Handles : opened[h] # NoObject => Uses(opened[h]) \subseteq live

\* Mounting comes to an end: the tree is served or the session is asked to
\* end (c.cc: "Any exception at this stage results in early program
\* termination").
MountEnds == <>(pc \in {"serving", "exited"})

=============================================================================
