---------------------------- MODULE Mount_proofs ----------------------------
(***************************************************************************)
(* Proofs about Mount, for every set of mesh types, files and handles: who *)
(* owns what, what is left behind, and that reads reach live objects.      *)
(*                                                                         *)
(* The inductive invariant says of each step of the parser, and of the     *)
(* session after it, exactly which objects exist and which of them are     *)
(* roots; the properties are consequences.  Heap is that description.      *)
(***************************************************************************)
EXTENDS Mount, FiniteSetTheorems, SequenceTheorems, TLAPS

Secs == Sections(mesh)

\* The sections that have their directory, and the maps of some sections.
DoneSections == {Secs[k] : k \in 1..Len(Secs) - Len(todo)}
DirsOf(secs) == {Dir(s) : s \in secs}
AllMaps(secs) == UNION {{Map(s, a) : a \in arrays[s]} : s \in secs}

\* The maps of the section that is being parsed.
CurrentMaps ==
  IF todo = <<>> THEN {} ELSE {Map(Head(todo), a) : a \in arrays[Head(todo)] \ left}

\* The files that are open.
Files == {File(h) : h \in {g \in Handles : opened[g] # NoObject}}

\* The steps left are the last ones of the mesh type.
Place ==
  /\ \E k \in 0..Len(Secs) : todo = SubSeq(Secs, k + 1, Len(Secs))
  /\ pc # "section" => todo = <<>>
  /\ left \subseteq IF todo = <<>> THEN {} ELSE arrays[Head(todo)]

\* A file that has a reader is of a mesh type that has sections.
Supported == pc \in {"info", "open", "stat"} => Secs # <<>>

Heap ==
  /\ pc = "reader" => live = {} /\ roots = {}
  /\ pc \in {"info", "open"} => live = {Reader} /\ roots = {}
  /\ pc = "stat" => live = {Reader, Fd} /\ roots = {}
  /\ pc = "section" =>
       /\ live = {Reader, Fd, OSFile, Metadata} \cup DirsOf(DoneSections)
                   \cup AllMaps(DoneSections) \cup CurrentMaps
       /\ roots = {OSFile, Metadata} \cup DirsOf(DoneSections) \cup CurrentMaps
  /\ pc = "serving" =>
       /\ live = {Reader, Fd, OSFile, Metadata, Tree} \cup DirsOf(DoneSections)
                   \cup AllMaps(DoneSections) \cup Files
       /\ roots = {Tree} \cup Files
  /\ pc \in {"thrown", "exited"} =>
       live \ {Reader, Fd} = Files /\ roots = Files /\ Tree \notin live

\* A handle reads something only while the tree is served, or since.
Handling ==
  /\ opened \in [Handles -> Objects \cup {NoObject}]
  /\ pc \notin {"serving", "exited"} => \A h \in Handles : opened[h] = NoObject
  /\ pc = "serving" =>
       \A h \in Handles :
         opened[h] # NoObject => opened[h] \in {Metadata} \cup AllMaps(DoneSections)

IInv ==
  /\ mesh \in Meshes /\ arrays \in Arrays
  /\ pc \in {"reader", "info", "open", "stat", "section", "thrown", "serving", "exited"}
  /\ Place /\ Supported /\ Heap /\ Handling

-----------------------------------------------------------------------------
(* Objects. *)

\* Objects are told apart by their kind, sections and names.
LEMMA Kinds ==
  /\ Reader.is = "reader" /\ Fd.is = "descriptor" /\ OSFile.is = "os_file"
  /\ Tree.is = "tree" /\ Metadata.is = "dir" /\ Metadata.section = "METADATA"
  /\ \A s : Dir(s).is = "dir" /\ Dir(s).section = s
  /\ \A s, a : Map(s, a).is = "map" /\ Map(s, a).section = s /\ Map(s, a).array = a
  /\ \A h : File(h).is = "file" /\ File(h).handle = h
BY DEF Reader, Fd, OSFile, Tree, Metadata, Dir, Map, File

LEMMA MetadataDir == Metadata = Dir("METADATA")
BY DEF Metadata, Dir

\* What each kind of object owns.
LEMMA Owned ==
  /\ Owns(Tree) = Dirs \cup {OSFile}
  /\ Owns(OSFile) = {Fd}
  /\ Owns(Metadata) = {} /\ Owns(Reader) = {} /\ Owns(Fd) = {}
  /\ \A s : s # "METADATA" => Owns(Dir(s)) = MapsOf(s)
  /\ \A s, a : Owns(Map(s, a)) = {}
  /\ \A h : Owns(File(h)) = {}
<1>1. Reader # Tree /\ Fd # Tree /\ OSFile # Tree /\ Metadata # Tree
  BY Kinds
<1>2. ASSUME NEW s, s # "METADATA" PROVE Owns(Dir(s)) = MapsOf(s)
  <2>1. /\ Dir(s) # Tree /\ Dir(s) # OSFile /\ Dir(s).is = "dir"
        /\ Dir(s) # Metadata /\ Dir(s).section = s
    BY <1>2, Kinds
  <2> QED
    BY <2>1 DEF Owns
<1>3. ASSUME NEW s, NEW a PROVE Owns(Map(s, a)) = {}
  <2>1. Map(s, a) # Tree /\ Map(s, a).is # "dir" /\ Map(s, a) # OSFile
    BY Kinds
  <2> QED
    BY <2>1 DEF Owns
<1>4. ASSUME NEW h PROVE Owns(File(h)) = {}
  <2>1. File(h) # Tree /\ File(h).is # "dir" /\ File(h) # OSFile
    BY Kinds
  <2> QED
    BY <2>1 DEF Owns
<1>5. Owns(Tree) = Dirs \cup {OSFile}
  <2>1. Tree.is # "dir" /\ Tree # OSFile
    BY Kinds
  <2> QED
    BY <2>1 DEF Owns
<1>6. Owns(OSFile) = {Fd}
  <2>1. OSFile # Tree /\ OSFile.is # "dir"
    BY Kinds
  <2> QED
    BY <2>1 DEF Owns
<1>7. Owns(Metadata) = {}
  BY <1>1, Kinds DEF Owns
<1>8. Owns(Reader) = {} /\ Owns(Fd) = {}
  <2>1. /\ Reader # Tree /\ Reader.is # "dir" /\ Reader # OSFile
        /\ Fd # Tree /\ Fd.is # "dir" /\ Fd # OSFile
    BY Kinds
  <2> QED
    BY <2>1 DEF Owns
<1> QED
  BY <1>2, <1>3, <1>4, <1>5, <1>6, <1>7, <1>8

LEMMA MapsMember ==
  ASSUME NEW secs, NEW o
  PROVE  o \in AllMaps(secs) <=> \E s \in secs : \E a \in arrays[s] : o = Map(s, a)
BY DEF AllMaps

-----------------------------------------------------------------------------
(* Sections. *)

\* The sections of a mesh type are some of the four, each once.
LEMMA SectionsOnce ==
  ASSUME NEW m
  PROVE  /\ Sections(m) \in Seq(SectionNames)
         /\ \A j, k \in 1..Len(Sections(m)) : j # k => Sections(m)[j] # Sections(m)[k]
<1>1. CASE m = "UnstructuredGrid"
  BY <1>1 DEF Sections, SectionNames
<1>2. CASE m = "StructuredGrid"
  BY <1>2 DEF Sections, SectionNames
<1>3. CASE m = "ImageData"
  BY <1>3 DEF Sections, SectionNames
<1>4. CASE m \notin {"UnstructuredGrid", "StructuredGrid", "ImageData"}
  BY <1>4 DEF Sections, SectionNames
<1> QED
  BY <1>1, <1>2, <1>3, <1>4

\* The first of the last elements of a sequence, and the others.
LEMMA Suffix ==
  ASSUME NEW S, NEW s \in Seq(S), NEW k \in 0..Len(s), NEW t,
         t = SubSeq(s, k + 1, Len(s))
  PROVE  /\ t \in Seq(S) /\ Len(t) = Len(s) - k
         /\ t = <<>> <=> k = Len(s)
         /\ t # <<>> => /\ k + 1 \in 1..Len(s) /\ Head(t) = s[k + 1]
                        /\ Tail(t) = SubSeq(s, k + 2, Len(s))
<1>1. \A i \in k + 1..Len(s) : s[i] \in S
  OBVIOUS
<1>2. t \in Seq(S) /\ Len(t) = Len(s) - k
  BY <1>1, SubSeqProperties
<1>3. t = <<>> <=> k = Len(s)
  <2>1. CASE k = Len(s)
    BY <2>1, SubSeqEmpty
  <2>2. CASE k # Len(s)
    <3>1. Len(t) # 0
      BY <1>2, <2>2
    <3> QED
      BY <3>1, <2>2
  <2> QED
    BY <2>1, <2>2
<1>4. ASSUME t # <<>>
      PROVE  /\ k + 1 \in 1..Len(s) /\ Head(t) = s[k + 1]
             /\ Tail(t) = SubSeq(s, k + 2, Len(s))
  <2>1. k + 1 \in 1..Len(s) /\ Len(s) \in k + 1..Len(s)
    BY <1>3, <1>4
  <2> QED
    BY <2>1, HeadTailOfSubSeq
<1> QED
  BY <1>2, <1>3, <1>4

\* While sections are left, the next of them has no directory, and the names
\* of its arrays are those of the file.
LEMMA NextSection ==
  ASSUME IInv
  PROVE  /\ todo \in Seq(SectionNames) /\ Secs \in Seq(SectionNames)
         /\ DoneSections \subseteq SectionNames
         /\ DOMAIN arrays = SectionNames
         /\ "METADATA" \notin SectionNames
         /\ todo # <<>> => Head(todo) \in SectionNames /\ Head(todo) \notin DoneSections
<1> DEFINE N == Len(Secs)
<1>1. Secs \in Seq(SectionNames) /\ \A j, k \in 1..N : j # k => Secs[j] # Secs[k]
  BY SectionsOnce DEF Secs
<1>2. PICK k \in 0..N : todo = SubSeq(Secs, k + 1, N)
  BY DEF IInv, Place
<1>3. /\ todo \in Seq(SectionNames) /\ Len(todo) = N - k
      /\ todo # <<>> => k + 1 \in 1..N /\ Head(todo) = Secs[k + 1]
  BY <1>1, <1>2, Suffix
<1>4. DoneSections = {Secs[j] : j \in 1..k}
  BY <1>1, <1>3 DEF DoneSections
<1>5. DoneSections \subseteq SectionNames
  BY <1>1, <1>4
<1>6. DOMAIN arrays = SectionNames
  BY ArraysAssumption DEF IInv
<1>7. "METADATA" \notin SectionNames
  BY DEF SectionNames
<1>8. ASSUME todo # <<>> PROVE Head(todo) \in SectionNames /\ Head(todo) \notin DoneSections
  <2>1. k + 1 \in 1..N /\ Head(todo) = Secs[k + 1]
    BY <1>3, <1>8
  <2>2. \A j \in 1..k : j \in 1..N /\ j # k + 1
    OBVIOUS
  <2> QED
    BY <1>1, <1>4, <2>1, <2>2
<1> QED
  BY <1>1, <1>3, <1>5, <1>6, <1>7, <1>8

-----------------------------------------------------------------------------
(* What a destructor deletes. *)

\* Everything owned, directly or not, is in an object's whole.
LEMMA WholeHas ==
  ASSUME NEW r
  PROVE  /\ r \in Whole(r)
         /\ Owns(r) \subseteq Whole(r)
         /\ \A p \in Owns(r) : Owns(p) \subseteq Whole(r)
<1> DEFINE one(objs) == objs \cup UNION {Owns(p) : p \in objs}
<1>1. ASSUME NEW S PROVE S \subseteq one(S) /\ \A p \in S : Owns(p) \subseteq one(S)
  OBVIOUS
<1>2. Whole(r) = one(one(one({r})))
  BY DEF Whole
<1> HIDE DEF one
<1>3. r \in one({r}) /\ Owns(r) \subseteq one({r})
  BY <1>1
<1>4. one({r}) \subseteq one(one({r})) /\ \A p \in Owns(r) : Owns(p) \subseteq one(one({r}))
  BY <1>1, <1>3
<1>5. one(one({r})) \subseteq Whole(r)
  BY <1>1, <1>2
<1> QED
  BY <1>3, <1>4, <1>5

\* Nothing else is.
LEMMA WholeOnly ==
  ASSUME NEW S, NEW r \in S, \A p \in S : Owns(p) \subseteq S
  PROVE  Whole(r) \subseteq S
<1> DEFINE one(objs) == objs \cup UNION {Owns(p) : p \in objs}
<1>1. ASSUME NEW T \in SUBSET S PROVE one(T) \in SUBSET S
  OBVIOUS
<1>2. Whole(r) = one(one(one({r})))
  BY DEF Whole
<1> HIDE DEF one
<1>3. {r} \in SUBSET S
  OBVIOUS
<1>4. one({r}) \in SUBSET S
  BY <1>1, <1>3
<1>5. one(one({r})) \in SUBSET S
  BY <1>1, <1>4
<1>6. one(one(one({r}))) \in SUBSET S
  BY <1>1, <1>5
<1> QED
  BY <1>2, <1>6

-----------------------------------------------------------------------------
(* The heap while the file is parsed and served. *)

\* The directories and maps that exist, section by section.
LEMMA HeapSets ==
  ASSUME IInv, pc \in {"section", "serving"}
  PROVE  /\ {Reader, Fd, OSFile, Metadata} \subseteq live
         /\ Dirs = {Metadata} \cup DirsOf(DoneSections)
         /\ \A s \in DoneSections : MapsOf(s) = AllMaps({s})
         /\ todo # <<>> => MapsOf(Head(todo)) = CurrentMaps
         /\ \A o \in live : \/ o \in {Reader, Fd, OSFile, Metadata, Tree} \cup Files
                            \/ o \in DirsOf(DoneSections)
                            \/ o \in AllMaps(DoneSections) \cup CurrentMaps
<1> DEFINE fixed == {Reader, Fd, OSFile, Metadata, Tree} \cup Files
           maps == AllMaps(DoneSections) \cup CurrentMaps
<1>1. \A o : o \in CurrentMaps => todo # <<>> /\ \E a : o = Map(Head(todo), a)
  BY DEF CurrentMaps
<1>2. \A o : o \in AllMaps(DoneSections) => \E s \in DoneSections : \E a : o = Map(s, a)
  BY MapsMember
<1>3. \A o : o \in DirsOf(DoneSections) <=> \E s \in DoneSections : o = Dir(s)
  BY DEF DirsOf
<1>4. /\ live \subseteq fixed \cup DirsOf(DoneSections) \cup maps
      /\ {Reader, Fd, OSFile, Metadata} \cup DirsOf(DoneSections) \cup AllMaps(DoneSections)
           \subseteq live
      /\ CurrentMaps \subseteq live
  <2>1. CASE pc = "section"
    BY <2>1 DEF IInv, Heap
  <2>2. CASE pc = "serving"
    <3>1. CurrentMaps = {}
      BY <2>2 DEF IInv, Place, CurrentMaps
    <3> QED
      BY <2>2, <3>1 DEF IInv, Heap
  <2> QED
    BY <2>1, <2>2
<1>5. \A o \in fixed : o.is # "map" /\ (o.is = "dir" => o = Metadata)
  BY Kinds DEF Files
<1>6. Dirs = {Metadata} \cup DirsOf(DoneSections)
  <2>1. \A o \in maps : o.is # "dir"
    BY <1>1, <1>2, Kinds
  <2>2. \A o \in DirsOf(DoneSections) : o.is = "dir"
    BY <1>3, Kinds
  <2> HIDE DEF fixed, maps
  <2> QED
    BY <1>4, <1>5, <2>1, <2>2, Kinds DEF Dirs
<1>7. ASSUME NEW s \in DoneSections PROVE MapsOf(s) = AllMaps({s})
  <2>1. \A o \in AllMaps(DoneSections) : o.section = s => o \in AllMaps({s})
    BY MapsMember, Kinds
  <2>2. \A o \in CurrentMaps : o.section # s
    BY <1>1, Kinds, NextSection
  <2>3. \A o \in AllMaps({s}) : o \in AllMaps(DoneSections) /\ o.is = "map" /\ o.section = s
    BY MapsMember, Kinds
  <2>4. \A o \in DirsOf(DoneSections) : o.is # "map"
    BY <1>3, Kinds
  <2>5. ASSUME NEW o \in MapsOf(s) PROVE o \in AllMaps({s})
    <3>1. o \in live /\ o.is = "map" /\ o.section = s
      BY <2>5 DEF MapsOf
    <3>2. o \notin fixed /\ o \notin DirsOf(DoneSections) /\ o \notin CurrentMaps
      BY <1>5, <2>2, <2>4, <3>1
    <3> QED
      BY <1>4, <2>1, <3>1, <3>2
  <2>6. ASSUME NEW o \in AllMaps({s}) PROVE o \in MapsOf(s)
    BY <1>4, <2>3, <2>6 DEF MapsOf
  <2> QED
    BY <2>5, <2>6
<1>8. ASSUME todo # <<>> PROVE MapsOf(Head(todo)) = CurrentMaps
  <2>1. \A o \in AllMaps(DoneSections) : o.section # Head(todo)
    BY <1>2, <1>8, Kinds, NextSection
  <2>2. \A o \in CurrentMaps : o.is = "map" /\ o.section = Head(todo)
    BY <1>1, Kinds
  <2>3. \A o \in DirsOf(DoneSections) : o.is # "map"
    BY <1>3, Kinds
  <2> HIDE DEF fixed
  <2> QED
    BY <1>4, <1>5, <2>1, <2>2, <2>3 DEF MapsOf
<1> QED
  BY <1>4, <1>6, <1>7, <1>8

\* Nothing owns the reader or a file that is open, or what does not exist.
LEMMA OwnsLive ==
  ASSUME IInv, pc \in {"section", "serving"}, NEW p \in live
  PROVE  Owns(p) \subseteq live \ ({Reader} \cup Files)
<1>1. \A o \in {Reader} \cup Files : o.is \notin {"dir", "map", "os_file", "descriptor"}
  BY Kinds DEF Files
<1>2. \A s : MapsOf(s) \subseteq live /\ \A o \in MapsOf(s) : o.is = "map"
  BY DEF MapsOf
<1>3. Dirs \subseteq live /\ \A o \in Dirs : o.is = "dir"
  BY DEF Dirs
<1>4. {Fd, OSFile} \subseteq live /\ Fd.is = "descriptor" /\ OSFile.is = "os_file"
  BY HeapSets, Kinds
<1>5. CASE p = Tree
  BY <1>1, <1>3, <1>4, <1>5, Owned
<1>6. CASE p = OSFile
  BY <1>1, <1>4, <1>6, Owned
<1>7. CASE p \in {Reader, Fd, Metadata} \cup Files
  BY <1>7, Owned DEF Files
<1>8. CASE p \in DirsOf(DoneSections)
  <2>1. PICK s \in DoneSections : p = Dir(s)
    BY <1>8 DEF DirsOf
  <2>2. s # "METADATA"
    BY NextSection
  <2> QED
    BY <1>1, <1>2, <2>1, <2>2, Owned
<1>9. CASE p \in AllMaps(DoneSections) \cup CurrentMaps
  <2>1. \E s, a : p = Map(s, a)
    BY <1>9, MapsMember DEF CurrentMaps
  <2> QED
    BY <2>1, Owned
<1> QED
  BY <1>5, <1>6, <1>7, <1>8, <1>9, HeapSets

\* What is left when roots that reach everything else are deleted.
LEMMA DeleteLeaves ==
  ASSUME IInv, pc \in {"section", "serving"}, NEW objs, objs \subseteq live,
         objs \cap ({Reader} \cup Files) = {},
         \A o \in live \ ({Reader} \cup Files) : o \in Delete(objs)
  PROVE  live \ Delete(objs) = {Reader} \cup (live \cap Files)
<1> DEFINE S == live \ ({Reader} \cup Files)
<1>1. \A p \in S : Owns(p) \subseteq S
  BY OwnsLive
<1>2. \A o \in objs : Whole(o) \subseteq S
  <2>1. objs \subseteq S
    OBVIOUS
  <2> HIDE DEF S
  <2> QED
    BY <1>1, <2>1, WholeOnly
<1>3. Delete(objs) \subseteq S
  BY <1>2 DEF Delete
<1>4. Reader \in live
  BY HeapSets
<1> QED
  BY <1>3, <1>4

-----------------------------------------------------------------------------
(* The steps. *)

LEMMA InitIInv == Init => IInv
<1> SUFFICES ASSUME Init PROVE IInv
  OBVIOUS
<1>1. /\ mesh \in Meshes /\ arrays \in Arrays /\ pc = "reader" /\ todo = <<>> /\ left = {}
      /\ live = {} /\ roots = {} /\ opened = [h \in Handles |-> NoObject]
  BY DEF Init
<1>2. Place
  <2>1. Secs \in Seq(SectionNames)
    BY SectionsOnce DEF Secs
  <2>2. Len(Secs) \in 0..Len(Secs) /\ SubSeq(Secs, Len(Secs) + 1, Len(Secs)) = <<>>
    BY <2>1, SubSeqEmpty
  <2> QED
    BY <1>1, <2>2 DEF Place
<1>3. Heap
  BY <1>1 DEF Heap
<1>4. Handling
  BY <1>1 DEF Handling
<1> QED
  BY <1>1, <1>2, <1>3, <1>4 DEF IInv, Supported

\* Where an exception leads from any step of the parser.
LEMMA ThrowStep ==
  ASSUME IInv, Throw, pc \in {"reader", "info", "open", "stat", "section"}
  PROVE  IInv'
<1>1. /\ pc' = "thrown" /\ mesh' = mesh /\ arrays' = arrays /\ opened' = opened
      /\ live' = live \ Delete(roots) /\ roots' = {} /\ todo' = <<>> /\ left' = {}
  BY DEF Throw, Goto, file
<1>2. Place'
  <2>1. Secs \in Seq(SectionNames) /\ Secs' = Secs
    BY <1>1, SectionsOnce DEF Secs
  <2>2. Len(Secs) \in 0..Len(Secs) /\ SubSeq(Secs, Len(Secs) + 1, Len(Secs)) = <<>>
    BY <2>1, SubSeqEmpty
  <2> QED
    BY <1>1, <2>1, <2>2 DEF Place
<1>3. Files = {} /\ Files' = {}
  BY <1>1 DEF IInv, Handling, Files
<1>4. live' \subseteq {Reader, Fd}
  <2>1. CASE pc # "section"
    BY <1>1, <2>1 DEF IInv, Heap
  <2>2. CASE pc = "section"
    <3>1. /\ roots = {OSFile, Metadata} \cup DirsOf(DoneSections) \cup CurrentMaps
          /\ live = {Reader, Fd, OSFile, Metadata} \cup DirsOf(DoneSections)
                      \cup AllMaps(DoneSections) \cup CurrentMaps
      BY <2>2 DEF IInv, Heap
    <3>2. \A o \in roots : o \in Delete(roots) /\ Owns(o) \subseteq Delete(roots)
      BY WholeHas DEF Delete
    <3>3. \A o \in AllMaps(DoneSections) : o \in Delete(roots)
      <4> SUFFICES ASSUME NEW s \in DoneSections, NEW a \in arrays[s]
                   PROVE  Map(s, a) \in Delete(roots)
        BY MapsMember
      <4>1. Dir(s) \in roots
        BY <3>1 DEF DirsOf
      <4>2. Map(s, a) \in Owns(Dir(s))
        <5>1. s # "METADATA"
          BY NextSection
        <5>2. Map(s, a) \in AllMaps({s})
          BY MapsMember
        <5> QED
          BY <2>2, <5>1, <5>2, HeapSets, Owned
      <4> QED
        BY <3>2, <4>1, <4>2
    <3> QED
      BY <1>1, <3>1, <3>2, <3>3
  <2> QED
    BY <2>1, <2>2
<1>5. Heap'
  <2>1. Tree \notin live'
    BY <1>4, Kinds
  <2> QED
    BY <1>1, <1>3, <1>4, <2>1 DEF Heap
<1>6. Objects' = Objects
  BY <1>1 DEF Objects
<1>7. Handling'
  BY <1>1, <1>6 DEF IInv, Handling
<1> QED
  BY <1>1, <1>2, <1>5, <1>7 DEF IInv, Supported

\* Steps that leave the sections and the handles alone.
LEMMA EasyFrame ==
  ASSUME IInv, UNCHANGED <<mesh, arrays, opened, todo, left>>,
         pc \in {"reader", "info", "open", "stat", "thrown"},
         pc' \in {"info", "open", "stat", "exited"}, Secs # <<>> \/ pc' = "exited"
  PROVE  /\ mesh' \in Meshes /\ arrays' \in Arrays /\ Place' /\ Supported' /\ Handling'
         /\ Files' = Files
<1>1. Objects' = Objects /\ Secs' = Secs
  BY DEF Objects, Secs
<1>2. Place'
  BY <1>1 DEF IInv, Place
<1>3. Handling'
  BY <1>1 DEF IInv, Handling
<1> QED
  BY <1>1, <1>2, <1>3 DEF IInv, Files, Supported

LEMMA CreateReaderStep == IInv /\ CreateReader => IInv'
<1> SUFFICES ASSUME IInv, CreateReader PROVE IInv'
  OBVIOUS
<1>1. CASE Throw
  BY <1>1, ThrowStep DEF CreateReader
<1>2. CASE Goto("info") /\ live' = {Reader} /\ UNCHANGED <<roots, todo, left>>
  <2>1. /\ pc = "reader" /\ pc' = "info" /\ UNCHANGED <<mesh, arrays, opened, todo, left, roots>>
        /\ live' = {Reader}
    BY <1>2 DEF CreateReader, Goto, file
  <2>2. Secs # <<>>
    <3>1. ~Throw
      BY <2>1 DEF Throw, Goto
    <3> QED
      BY <3>1 DEF CreateReader, Secs
  <2>3. Heap'
    BY <2>1 DEF IInv, Heap
  <2> QED
    BY <2>1, <2>2, <2>3, EasyFrame DEF IInv
<1> QED
  BY <1>1, <1>2 DEF CreateReader

LEMMA ReadInformationStep == IInv /\ ReadInformation => IInv'
<1> SUFFICES ASSUME IInv, ReadInformation PROVE IInv'
  OBVIOUS
<1>1. CASE Throw
  BY <1>1, ThrowStep DEF ReadInformation
<1>2. CASE Goto("open") /\ UNCHANGED <<live, roots, todo, left>>
  <2>1. /\ pc = "info" /\ pc' = "open"
        /\ UNCHANGED <<mesh, arrays, opened, todo, left, roots, live>>
    BY <1>2 DEF ReadInformation, Goto, file
  <2>2. Heap'
    BY <2>1 DEF IInv, Heap
  <2> QED
    BY <2>1, <2>2, EasyFrame DEF IInv, Supported
<1> QED
  BY <1>1, <1>2 DEF ReadInformation

LEMMA OpenOSFileStep == IInv /\ OpenOSFile => IInv'
<1> SUFFICES ASSUME IInv, OpenOSFile PROVE IInv'
  OBVIOUS
<1>1. CASE Throw
  BY <1>1, ThrowStep DEF OpenOSFile
<1>2. CASE Goto("stat") /\ live' = live \cup {Fd} /\ UNCHANGED <<roots, todo, left>>
  <2>1. /\ pc = "open" /\ pc' = "stat" /\ live' = live \cup {Fd}
        /\ UNCHANGED <<mesh, arrays, opened, todo, left, roots>>
    BY <1>2 DEF OpenOSFile, Goto, file
  <2>2. Heap'
    BY <2>1 DEF IInv, Heap
  <2> QED
    BY <2>1, <2>2, EasyFrame DEF IInv, Supported
<1> QED
  BY <1>1, <1>2 DEF OpenOSFile

LEMMA ExitSessionStep == IInv /\ ExitSession => IInv'
<1> SUFFICES ASSUME IInv, ExitSession PROVE IInv'
  OBVIOUS
<1>1. /\ pc = "thrown" /\ pc' = "exited"
      /\ UNCHANGED <<mesh, arrays, opened, todo, left, roots, live>>
  BY DEF ExitSession, Goto, file
<1>2. Place' /\ Supported' /\ Handling' /\ Files' = Files /\ mesh' \in Meshes /\ arrays' \in Arrays
  BY <1>1, EasyFrame
<1>3. Heap'
  BY <1>1, <1>2 DEF IInv, Heap
<1> QED
  BY <1>1, <1>2, <1>3 DEF IInv

\* The sections of the mesh type, when the first of them comes.
LEMMA StatOSFileStep == IInv /\ StatOSFile => IInv'
<1> SUFFICES ASSUME IInv, StatOSFile PROVE IInv'
  OBVIOUS
<1>1. CASE Throw
  BY <1>1, ThrowStep DEF StatOSFile
<1>2. CASE ~Throw
  <2>1. /\ pc = "stat" /\ pc' = "section" /\ UNCHANGED <<mesh, arrays, opened>>
        /\ live' = live \cup {OSFile, Metadata} /\ roots' = {OSFile, Metadata}
        /\ todo' = Secs /\ left' = arrays[Head(todo')]
    BY <1>2 DEF StatOSFile, Goto, file, Secs
  <2>2. Secs' = Secs /\ Objects' = Objects
    BY <2>1 DEF Secs, Objects
  <2>3. Secs \in Seq(SectionNames)
    BY SectionsOnce DEF Secs
  <2>4. todo' = SubSeq(Secs, 1, Len(Secs))
    BY <2>1, <2>3, SubSeqFull
  <2>5. Secs # <<>>
    BY <2>1 DEF IInv, Supported
  <2>6. Place'
    BY <2>1, <2>2, <2>3, <2>4, <2>5 DEF Place
  <2>7. DoneSections' = {}
    BY <2>1, <2>2, <2>3 DEF DoneSections
  <2>8. CurrentMaps' = {}
    BY <2>1 DEF CurrentMaps
  <2>9. Heap'
    BY <2>1, <2>7, <2>8 DEF IInv, Heap, AllMaps, DirsOf
  <2>10. Handling'
    BY <2>1, <2>2 DEF IInv, Handling
  <2> QED
    BY <2>1, <2>6, <2>9, <2>10 DEF IInv, Supported
<1> QED
  BY <1>1, <1>2

\* One map more of the current section.
LEMMA ParseArrayStep == IInv /\ ParseArray => IInv'
<1> SUFFICES ASSUME IInv, ParseArray PROVE IInv'
  OBVIOUS
<1>1. CASE Throw
  BY <1>1, ThrowStep DEF ParseArray
<1>2. CASE ~Throw
  <2>1. PICK a \in left :
          /\ left' = left \ {a}
          /\ live' = live \cup {Map(Head(todo), a)}
          /\ roots' = roots \cup {Map(Head(todo), a)}
          /\ Goto("section") /\ UNCHANGED todo
    BY <1>2 DEF ParseArray
  <2>2. /\ pc = "section" /\ pc' = "section" /\ UNCHANGED <<mesh, arrays, opened, todo>>
    BY <2>1 DEF ParseArray, Goto, file
  <2>3. /\ Secs' = Secs /\ Objects' = Objects
        /\ DoneSections' = DoneSections
    BY <2>2 DEF Secs, Objects, DoneSections
  <2>4. AllMaps(DoneSections)' = AllMaps(DoneSections)
    BY <2>2, <2>3 DEF AllMaps
  <2>5. todo # <<>> /\ a \in arrays[Head(todo)]
    BY DEF IInv, Place
  <2>6. CurrentMaps' = CurrentMaps \cup {Map(Head(todo), a)}
    <3>1. arrays[Head(todo)] \ left' = (arrays[Head(todo)] \ left) \cup {a}
      BY <2>1, <2>5
    <3>2. CurrentMaps' = {Map(Head(todo), b) : b \in arrays[Head(todo)] \ left'}
      BY <2>2, <2>5 DEF CurrentMaps
    <3>3. CurrentMaps = {Map(Head(todo), b) : b \in arrays[Head(todo)] \ left}
      BY <2>5 DEF CurrentMaps
    <3> QED
      BY ONLY <3>1, <3>2, <3>3
  <2>7. Place'
    BY <2>1, <2>2, <2>3 DEF IInv, Place
  <2>8. Heap'
    BY <2>1, <2>2, <2>3, <2>4, <2>6 DEF IInv, Heap, DirsOf
  <2>9. Handling'
    BY <2>2, <2>3 DEF IInv, Handling
  <2> QED
    BY <2>2, <2>7, <2>8, <2>9 DEF IInv, Supported
<1> QED
  BY <1>1, <1>2

\* The current section is done, and the next one begins.
LEMMA BuildDirStep == IInv /\ BuildDir => IInv'
<1> SUFFICES ASSUME IInv, BuildDir PROVE IInv'
  OBVIOUS
<1> DEFINE s == Head(todo)
           N == Len(Secs)
<1>1. /\ pc = "section" /\ todo # <<>> /\ left = {} /\ pc' = "section"
      /\ live' = live \cup {Dir(s)}
      /\ roots' = (roots \ MapsOf(s)) \cup {Dir(s)}
      /\ todo' = Tail(todo)
      /\ left' = IF todo' = <<>> THEN {} ELSE arrays[Head(todo')]
      /\ UNCHANGED <<mesh, arrays, opened>>
  BY DEF BuildDir, Goto, file
<1>2. Secs' = Secs /\ Objects' = Objects
  BY <1>1 DEF Secs, Objects
<1>3. Secs \in Seq(SectionNames)
  BY SectionsOnce DEF Secs
<1>4. PICK k \in 0..N : todo = SubSeq(Secs, k + 1, N)
  BY DEF IInv, Place
<1>5. /\ Len(todo) = N - k /\ k + 1 \in 1..N /\ s = Secs[k + 1]
      /\ Tail(todo) = SubSeq(Secs, k + 2, N)
  BY <1>1, <1>3, <1>4, Suffix
<1>6. k + 1 \in 0..N /\ todo' = SubSeq(Secs, k + 1 + 1, N)
  BY <1>1, <1>5
<1>7. Len(todo') = N - (k + 1)
  BY <1>3, <1>6, Suffix
<1>8. DoneSections' = DoneSections \cup {s}
  <2>1. DoneSections = {Secs[j] : j \in 1..k}
    BY <1>3, <1>5 DEF DoneSections
  <2>2. DoneSections' = {Secs[j] : j \in 1..k + 1}
    BY <1>2, <1>3, <1>7 DEF DoneSections
  <2>3. 1..k + 1 = 1..k \cup {k + 1}
    OBVIOUS
  <2> QED
    BY <2>1, <2>2, <2>3, <1>5
<1>9. CurrentMaps = AllMaps({s}) /\ CurrentMaps' = {}
  BY <1>1 DEF CurrentMaps, AllMaps
<1> HIDE DEF s
<1>10. AllMaps(DoneSections)' = AllMaps(DoneSections) \cup AllMaps({s})
  BY <1>1, <1>8 DEF AllMaps
<1>11. DirsOf(DoneSections)' = DirsOf(DoneSections) \cup {Dir(s)}
  BY <1>8 DEF DirsOf
<1>12. Place'
  BY <1>1, <1>2, <1>6 DEF Place
<1>13. Heap'
  <2>1. MapsOf(s) = CurrentMaps
    BY <1>1, HeapSets DEF s
  <2>2. ({OSFile, Metadata} \cup DirsOf(DoneSections)) \cap CurrentMaps = {}
    <3>1. \A o \in {OSFile, Metadata} \cup DirsOf(DoneSections) : o.is # "map"
      BY Kinds DEF DirsOf
    <3>2. \A o \in CurrentMaps : o.is = "map"
      BY <2>1 DEF MapsOf
    <3> QED
      BY <3>1, <3>2
  <2>3. /\ live = {Reader, Fd, OSFile, Metadata} \cup DirsOf(DoneSections)
                   \cup AllMaps(DoneSections) \cup CurrentMaps
        /\ roots = {OSFile, Metadata} \cup DirsOf(DoneSections) \cup CurrentMaps
    BY <1>1 DEF IInv, Heap
  <2> QED
    BY <1>1, <1>9, <1>10, <1>11, <2>1, <2>2, <2>3 DEF Heap
<1>14. Handling'
  BY <1>1, <1>2 DEF IInv, Handling
<1> QED
  BY <1>1, <1>12, <1>13, <1>14 DEF IInv, Supported

\* The tree takes everything.
LEMMA BuildTreeStep == IInv /\ BuildTree => IInv'
<1> SUFFICES ASSUME IInv, BuildTree PROVE IInv'
  OBVIOUS
<1>1. /\ pc = "section" /\ todo = <<>> /\ pc' = "serving"
      /\ live' = live \cup {Tree} /\ roots' = {Tree}
      /\ UNCHANGED <<mesh, arrays, opened, todo, left>>
  BY DEF BuildTree, Goto, file
<1>2. /\ Secs' = Secs /\ Objects' = Objects /\ DoneSections' = DoneSections
  BY <1>1 DEF Secs, Objects, DoneSections
<1>3. AllMaps(DoneSections)' = AllMaps(DoneSections)
  BY <1>1, <1>2 DEF AllMaps
<1>4. CurrentMaps = {} /\ Files' = {}
  BY <1>1 DEF IInv, Handling, CurrentMaps, Files
<1>5. Place'
  BY <1>1, <1>2 DEF IInv, Place
<1>6. Heap'
  BY <1>1, <1>2, <1>3, <1>4 DEF IInv, Heap, DirsOf
<1>7. Handling'
  BY <1>1, <1>2 DEF IInv, Handling
<1> QED
  BY <1>1, <1>5, <1>6, <1>7 DEF IInv, Supported

\* The objects that may be opened.
LEMMA Openable ==
  ASSUME IInv, pc = "serving"
  PROVE  /\ {p \in live : p.is = "map"} = AllMaps(DoneSections)
         /\ {Metadata} \cup AllMaps(DoneSections) \subseteq Objects
         /\ NoObject \notin {Metadata} \cup AllMaps(DoneSections)
<1>1. live = {Reader, Fd, OSFile, Metadata, Tree} \cup DirsOf(DoneSections)
               \cup AllMaps(DoneSections) \cup Files
  BY DEF IInv, Heap
<1>2. \A o \in {Reader, Fd, OSFile, Metadata, Tree} \cup DirsOf(DoneSections) \cup Files :
        o.is # "map"
  BY Kinds DEF DirsOf, Files
<1>3. \A o \in AllMaps(DoneSections) : o.is = "map"
  BY MapsMember, Kinds
<1>4. {p \in live : p.is = "map"} = AllMaps(DoneSections)
  BY <1>1, <1>2, <1>3
<1>5. AllMaps(DoneSections) \subseteq AllMaps(DOMAIN arrays)
  BY NextSection DEF AllMaps
<1>6. {Metadata} \cup AllMaps(DOMAIN arrays) \subseteq Objects
  BY DEF Objects, AllMaps
<1>7. NoObject \notin {Metadata} \cup AllMaps(DoneSections)
  BY NextSection, NoObjectAssumption, MapsMember DEF IInv
<1> QED
  BY <1>4, <1>5, <1>6, <1>7

LEMMA OpenStep == ASSUME NEW h \in Handles PROVE IInv /\ Open(h) => IInv'
<1> SUFFICES ASSUME IInv, Open(h) PROVE IInv'
  OBVIOUS
<1>1. /\ pc = "serving" /\ opened[h] = NoObject
      /\ live' = live \cup {File(h)} /\ roots' = roots \cup {File(h)}
      /\ UNCHANGED <<mesh, arrays, pc, todo, left>>
  BY DEF Open, file
<1>2. PICK o \in {Metadata} \cup AllMaps(DoneSections) : opened' = [opened EXCEPT ![h] = o]
  BY <1>1, Openable DEF Open
<1>3. /\ Secs' = Secs /\ Objects' = Objects /\ DoneSections' = DoneSections
  BY <1>1 DEF Secs, Objects, DoneSections
<1>4. AllMaps(DoneSections)' = AllMaps(DoneSections)
  BY <1>1, <1>3 DEF AllMaps
<1>5. /\ opened' \in [Handles -> Objects \cup {NoObject}] /\ opened'[h] = o
      /\ \A g \in Handles \ {h} : opened'[g] = opened[g]
  BY <1>1, <1>2, <1>3, Openable DEF IInv, Handling
<1>6. o # NoObject
  BY <1>1, Openable
<1>7. {g \in Handles : opened'[g] # NoObject} = {g \in Handles : opened[g] # NoObject} \cup {h}
  BY ONLY <1>5, <1>6, h \in Handles
<1>8. Files' = Files \cup {File(h)}
  BY <1>7 DEF Files
<1>9. Place'
  BY <1>1, <1>3 DEF IInv, Place
<1>10. Heap'
  BY <1>1, <1>3, <1>4, <1>8 DEF IInv, Heap, DirsOf
<1>11. Handling'
  BY <1>1, <1>2, <1>3, <1>4, <1>5 DEF IInv, Handling
<1> QED
  BY <1>1, <1>9, <1>10, <1>11 DEF IInv, Supported

LEMMA ReleaseStep == ASSUME NEW h \in Handles PROVE IInv /\ Release(h) => IInv'
<1> SUFFICES ASSUME IInv, Release(h) PROVE IInv'
  OBVIOUS
<1>1. /\ pc = "serving" /\ opened[h] # NoObject
      /\ live' = live \ {File(h)} /\ roots' = roots \ {File(h)}
      /\ opened' = [opened EXCEPT ![h] = NoObject]
      /\ UNCHANGED <<mesh, arrays, pc, todo, left>>
  BY DEF Release, file
<1>2. /\ Secs' = Secs /\ Objects' = Objects /\ DoneSections' = DoneSections
  BY <1>1 DEF Secs, Objects, DoneSections
<1>3. AllMaps(DoneSections)' = AllMaps(DoneSections)
  BY <1>1, <1>2 DEF AllMaps
<1>4. /\ opened' \in [Handles -> Objects \cup {NoObject}] /\ opened'[h] = NoObject
      /\ \A g \in Handles \ {h} : opened'[g] = opened[g]
  BY <1>1, <1>2 DEF IInv, Handling
<1>5. {g \in Handles : opened'[g] # NoObject} = {g \in Handles : opened[g] # NoObject} \ {h}
  BY ONLY <1>4, h \in Handles
<1>6. Files' = Files \ {File(h)}
  <2>1. \A g \in Handles : File(g) = File(h) => g = h
    BY Kinds
  <2> QED
    BY <1>5, <2>1 DEF Files
<1>7. \A o \in {Reader, Fd, OSFile, Metadata, Tree} \cup DirsOf(DoneSections)
                 \cup AllMaps(DoneSections) : o # File(h)
  BY Kinds, MapsMember DEF DirsOf
<1>8. Place'
  BY <1>1, <1>2 DEF IInv, Place
<1>9. Heap'
  BY <1>1, <1>2, <1>3, <1>6, <1>7 DEF IInv, Heap, DirsOf
<1>10. Handling'
  BY <1>1, <1>2, <1>3, <1>4 DEF IInv, Handling
<1> QED
  BY <1>1, <1>8, <1>9, <1>10 DEF IInv, Supported

\* The tree goes, and all but the reader and open files with it.
LEMMA DestroyStep == IInv /\ Destroy => IInv'
<1> SUFFICES ASSUME IInv, Destroy PROVE IInv'
  OBVIOUS
<1>1. /\ pc = "serving" /\ pc' = "exited"
      /\ live' = live \ Delete({Tree}) /\ roots' = roots \ {Tree}
      /\ UNCHANGED <<mesh, arrays, opened, todo, left>>
  BY DEF Destroy, Goto, file
<1>2. /\ Secs' = Secs /\ Objects' = Objects /\ Files' = Files
  BY <1>1 DEF Secs, Objects, Files
<1>3. /\ live = {Reader, Fd, OSFile, Metadata, Tree} \cup DirsOf(DoneSections)
                  \cup AllMaps(DoneSections) \cup Files
      /\ roots = {Tree} \cup Files
  BY <1>1 DEF IInv, Heap
<1>4. Tree \notin {Reader} \cup Files /\ \A o \in Files : o \notin {Reader, Fd}
  BY Kinds DEF Files
<1>5. \A o \in live \ ({Reader} \cup Files) : o \in Delete({Tree})
  <2>1. /\ Tree \in Delete({Tree}) /\ Owns(Tree) \subseteq Delete({Tree})
        /\ \A p \in Owns(Tree) : Owns(p) \subseteq Delete({Tree})
    BY WholeHas DEF Delete
  <2>2. Owns(Tree) = {Metadata, OSFile} \cup DirsOf(DoneSections) /\ Owns(OSFile) = {Fd}
    BY <1>1, HeapSets, Owned
  <2>3. \A s \in DoneSections : AllMaps({s}) = Owns(Dir(s)) /\ Dir(s) \in DirsOf(DoneSections)
    BY <1>1, HeapSets, Owned, NextSection DEF DirsOf
  <2>4. AllMaps(DoneSections) \subseteq Delete({Tree})
    <3> SUFFICES ASSUME NEW o \in AllMaps(DoneSections) PROVE o \in Delete({Tree})
      OBVIOUS
    <3>1. PICK s \in DoneSections : o \in AllMaps({s})
      BY MapsMember
    <3> QED
      BY <2>1, <2>2, <2>3, <3>1
  <2> QED
    BY <1>3, <2>1, <2>2, <2>4
<1>6. live' = {Reader} \cup Files
  <2>1. {Tree} \subseteq live /\ {Tree} \cap ({Reader} \cup Files) = {}
    BY <1>3, <1>4
  <2>2. live \ Delete({Tree}) = {Reader} \cup (live \cap Files)
    BY <1>1, <1>5, <2>1, DeleteLeaves
  <2> QED
    BY <1>1, <1>3, <2>2
<1>7. Place'
  BY <1>1, <1>2 DEF IInv, Place
<1>8. Heap'
  BY <1>1, <1>2, <1>3, <1>4, <1>6 DEF Heap
<1>9. Handling'
  BY <1>1, <1>2 DEF IInv, Handling
<1> QED
  BY <1>1, <1>7, <1>8, <1>9 DEF IInv, Supported

LEMMA NextIInv == IInv /\ [Next]_vars => IInv'
<1> SUFFICES ASSUME IInv, [Next]_vars PROVE IInv'
  OBVIOUS
<1>1. CASE UNCHANGED vars
  <2>1. UNCHANGED <<mesh, arrays, pc, todo, left, live, roots, opened>>
    BY <1>1 DEF vars
  <2>2. Secs' = Secs /\ Objects' = Objects /\ Files' = Files /\ DoneSections' = DoneSections
    BY <2>1 DEF Secs, Objects, Files, DoneSections
  <2>3. AllMaps(DoneSections)' = AllMaps(DoneSections) /\ CurrentMaps' = CurrentMaps
    BY <2>1, <2>2 DEF AllMaps, CurrentMaps
  <2>4. Place' /\ Supported'
    BY <2>1, <2>2 DEF IInv, Place, Supported
  <2>5. Heap'
    BY <2>1, <2>2, <2>3 DEF IInv, Heap, DirsOf
  <2>6. Handling'
    BY <2>1, <2>2, <2>3 DEF IInv, Handling
  <2> QED
    BY <2>1, <2>4, <2>5, <2>6 DEF IInv
<1>2. CASE CreateReader \/ ReadInformation \/ OpenOSFile \/ StatOSFile
  BY <1>2, CreateReaderStep, ReadInformationStep, OpenOSFileStep, StatOSFileStep
<1>3. CASE ParseArray \/ BuildDir \/ BuildTree
  BY <1>3, ParseArrayStep, BuildDirStep, BuildTreeStep
<1>4. CASE ExitSession \/ Destroy
  BY <1>4, ExitSessionStep, DestroyStep
<1>5. ASSUME NEW h \in Handles, Open(h) PROVE IInv'
  BY <1>5, OpenStep
<1>6. ASSUME NEW h \in Handles, Release(h) PROVE IInv'
  BY <1>6, ReleaseStep
<1> QED
  BY <1>1, <1>2, <1>3, <1>4, <1>5, <1>6 DEF Next

LEMMA Invariance == Spec => []IInv
BY InitIInv, NextIInv, PTL DEF Spec

-----------------------------------------------------------------------------
(* The theorems. *)

LEMMA IInvTypes == IInv => TypeOK
<1> SUFFICES ASSUME IInv PROVE TypeOK
  OBVIOUS
<1>1. todo \in Seq(SectionNames) /\ DOMAIN arrays = SectionNames
  BY NextSection
<1>2. AllMaps(DoneSections) \cup DirsOf(DoneSections) \subseteq Objects
  BY NextSection DEF Objects, AllMaps, DirsOf
<1>3. CurrentMaps \subseteq Objects
  <2>1. todo # <<>> => Head(todo) \in DOMAIN arrays
    BY <1>1, NextSection
  <2> QED
    BY <2>1 DEF Objects, CurrentMaps
<1>4. {Reader, Fd, OSFile, Metadata, Tree} \cup Files \subseteq Objects
  BY DEF Objects, Files
<1>5. live \subseteq Objects /\ roots \subseteq live
  <2>1. CASE pc \in {"thrown", "exited"}
    <3>1. live \subseteq {Reader, Fd} \cup Files /\ roots \subseteq live
      BY <2>1 DEF IInv, Heap
    <3> QED
      BY <3>1, <1>4
  <2>2. CASE pc \in {"reader", "info", "open", "stat"}
    BY <2>2, <1>4 DEF IInv, Heap
  <2>3. CASE pc \in {"section", "serving"}
    BY <2>3, <1>2, <1>3, <1>4 DEF IInv, Heap
  <2> QED
    BY <2>1, <2>2, <2>3 DEF IInv
<1>6. left \subseteq UNION {arrays[s] : s \in DOMAIN arrays}
  <2>1. CASE todo = <<>>
    BY <2>1 DEF IInv, Place
  <2>2. CASE todo # <<>>
    BY <2>2, NextSection DEF IInv, Place
  <2> QED
    BY <2>1, <2>2
<1> QED
  BY <1>5, <1>6 DEF IInv, TypeOK, Place, Handling, Secs

\* Every step leaves the state of its types (Mount.tla).
THEOREM TypeCorrect == Spec => []TypeOK
BY Invariance, IInvTypes, PTL

\* The owners of each kind of object, while the file is parsed and served.
LEMMA Owners ==
  ASSUME IInv, pc \in {"section", "serving"}, NEW p \in live, NEW o \in Owns(p)
  PROVE  \/ p = Tree /\ o \in Dirs \cup {OSFile}
         \/ p = OSFile /\ o = Fd
         \/ \E s \in DoneSections : p = Dir(s) /\ o \in AllMaps({s})
<1>1. CASE p \in {Reader, Fd, Metadata} \cup Files
  BY <1>1, Owned DEF Files
<1>2. CASE p \in AllMaps(DoneSections) \cup CurrentMaps
  <2>1. \E s, a : p = Map(s, a)
    BY <1>2, MapsMember DEF CurrentMaps
  <2> QED
    BY <2>1, Owned
<1>3. CASE p \in DirsOf(DoneSections)
  <2>1. PICK s \in DoneSections : p = Dir(s)
    BY <1>3 DEF DirsOf
  <2>2. s # "METADATA"
    BY NextSection
  <2> QED
    BY <2>1, <2>2, Owned, HeapSets
<1>4. CASE p = Tree
  BY <1>4, Owned
<1>5. CASE p = OSFile
  BY <1>5, Owned
<1> QED
  BY <1>1, <1>2, <1>3, <1>4, <1>5, HeapSets

\* One owner at a time: directories and the file the tree's, maps those of
\* the directory of their section.
LEMMA OwnedOnce ==
  ASSUME IInv, pc \in {"section", "serving"}, NEW o, NEW p \in live, NEW q \in live,
         o \in Owns(p), o \in Owns(q)
  PROVE  p = q
<1>1. \A d \in Dirs \cup {OSFile} : d.is \in {"dir", "os_file"}
  BY Kinds DEF Dirs
<1>2. \A s : \A m \in AllMaps({s}) : m.is = "map" /\ m.section = s
  BY MapsMember, Kinds
<1>3. Fd.is = "descriptor"
  BY Kinds
<1>4. \/ p = Tree /\ o \in Dirs \cup {OSFile}
      \/ p = OSFile /\ o = Fd
      \/ \E s \in DoneSections : p = Dir(s) /\ o \in AllMaps({s})
  BY Owners
<1>5. \/ q = Tree /\ o \in Dirs \cup {OSFile}
      \/ q = OSFile /\ o = Fd
      \/ \E s \in DoneSections : q = Dir(s) /\ o \in AllMaps({s})
  BY Owners
<1>6. CASE o.is = "descriptor"
  BY ONLY <1>1, <1>2, <1>4, <1>5, <1>6
<1>7. CASE o.is \in {"dir", "os_file"}
  BY ONLY <1>1, <1>2, <1>3, <1>4, <1>5, <1>7
<1>8. CASE o.is = "map"
  <2>1. PICK s \in DoneSections : p = Dir(s) /\ o \in AllMaps({s})
    BY <1>1, <1>3, <1>4, <1>8
  <2>2. PICK t \in DoneSections : q = Dir(t) /\ o \in AllMaps({t})
    BY <1>1, <1>3, <1>5, <1>8
  <2>3. s = o.section /\ t = o.section
    BY <1>2, <2>1, <2>2
  <2> QED
    BY <2>1, <2>2, <2>3
<1>9. o.is \in {"descriptor", "dir", "os_file", "map"}
  BY ONLY <1>1, <1>2, <1>3, <1>4
<1> QED
  BY <1>6, <1>7, <1>8, <1>9

LEMMA IInvOneOwner == IInv => OneOwner
<1> SUFFICES ASSUME IInv, NEW o \in live \ {Reader}
             PROVE  LET owners == {p \in live : o \in Owns(p)}
                    IN  IF o \in roots THEN owners = {}
                        ELSE IF owners = {} THEN o = Fd /\ OSFile \notin live
                        ELSE Cardinality(owners) = 1
  BY DEF OneOwner
<1> DEFINE owners == {p \in live : o \in Owns(p)}
<1>1. CASE pc \in {"section", "serving"}
  <2>1. ASSUME NEW p \in owners PROVE Cardinality(owners) = 1
    <3>1. owners = {p}
      BY <1>1, <2>1, OwnedOnce
    <3> HIDE DEF owners
    <3> QED
      BY <3>1, FS_Singleton
  <2>2. ASSUME NEW p \in owners PROVE o \notin roots
    <3>1. o \notin {Reader} \cup Files
      BY <1>1, <2>2, OwnsLive
    <3>2. CASE pc = "serving"
      <4>1. roots = {Tree} \cup Files
        BY <3>2 DEF IInv, Heap
      <4>2. o # Tree
        <5>1. o.is \in {"dir", "os_file", "descriptor", "map"}
          <6>1. \A d \in Dirs \cup {OSFile} : d.is \in {"dir", "os_file"}
            BY Kinds DEF Dirs
          <6>2. \A s : \A m \in AllMaps({s}) : m.is = "map"
            BY MapsMember, Kinds
          <6>3. \/ o \in Dirs \cup {OSFile}
                \/ o = Fd
                \/ \E s : o \in AllMaps({s})
            BY <1>1, <2>2, Owners
          <6>4. Fd.is = "descriptor"
            BY Kinds
          <6> QED
            BY ONLY <6>1, <6>2, <6>3, <6>4
        <5> QED
          BY <5>1, Kinds
      <4> QED
        BY <3>1, <4>1, <4>2
    <3>3. CASE pc = "section"
      <4>1. /\ roots = {OSFile, Metadata} \cup DirsOf(DoneSections) \cup CurrentMaps
            /\ Tree \notin live
        <5>1. Files = {}
          BY <3>3 DEF IInv, Handling, Files
        <5>2. \A d \in DirsOf(DoneSections) \cup AllMaps(DoneSections) \cup CurrentMaps :
                d # Tree
          BY Kinds, MapsMember DEF DirsOf, CurrentMaps
        <5>3. Tree \notin {Reader, Fd, OSFile, Metadata}
          BY Kinds
        <5> QED
          BY <3>3, <5>2, <5>3 DEF IInv, Heap
      <4>2. CASE o = Fd
        <5>1. \A d \in {OSFile, Metadata} \cup DirsOf(DoneSections) \cup CurrentMaps : d # Fd
          BY Kinds DEF DirsOf, CurrentMaps
        <5> QED
          BY <4>1, <4>2, <5>1
      <4>3. ASSUME NEW s \in DoneSections, o \in AllMaps({s}) PROVE o \notin roots
        <5>1. o.is = "map" /\ o.section = s
          BY <4>3, MapsMember, Kinds
        <5>2. \A d \in {OSFile, Metadata} \cup DirsOf(DoneSections) : d.is # "map"
          BY Kinds DEF DirsOf
        <5>3. \A m \in CurrentMaps : todo # <<>> /\ m.section = Head(todo)
          BY Kinds DEF CurrentMaps
        <5> QED
          BY <4>1, <5>1, <5>2, <5>3, NextSection
      <4> QED
        BY <1>1, <2>2, <4>1, <4>2, <4>3, Owners
    <3> QED
      BY <1>1, <3>2, <3>3
  <2>3. ASSUME o \notin roots PROVE owners # {}
    <3>1. OSFile \in live /\ Fd \in Owns(OSFile)
      BY <1>1, HeapSets, Owned
    <3>2. ASSUME NEW s \in DoneSections, o \in AllMaps({s}) PROVE owners # {}
      <4>1. Dir(s) \in live
        <5>1. DirsOf(DoneSections) \subseteq live
          BY <1>1 DEF IInv, Heap
        <5> QED
          BY <5>1 DEF DirsOf
      <4>2. Owns(Dir(s)) = AllMaps({s})
        BY <1>1, HeapSets, Owned, NextSection
      <4> QED
        BY <3>2, <4>1, <4>2
    <3>3. CASE pc = "section"
      <4>1. o = Fd \/ o \in AllMaps(DoneSections)
        BY <2>3, <3>3 DEF IInv, Heap
      <4>2. o \in AllMaps(DoneSections) => \E s \in DoneSections : o \in AllMaps({s})
        BY MapsMember
      <4> QED
        BY <3>1, <3>2, <4>1, <4>2
    <3>4. CASE pc = "serving"
      <4>1. /\ o \in {Fd, OSFile, Metadata} \cup DirsOf(DoneSections) \cup AllMaps(DoneSections)
            /\ Tree \in live
        BY <2>3, <3>4 DEF IInv, Heap
      <4>2. o \in AllMaps(DoneSections) => \E s \in DoneSections : o \in AllMaps({s})
        BY MapsMember
      <4>3. {OSFile, Metadata} \cup DirsOf(DoneSections) = Owns(Tree)
        BY <1>1, HeapSets, Owned
      <4> QED
        BY <3>1, <3>2, <4>1, <4>2, <4>3
    <3> QED
      BY <1>1, <3>3, <3>4
  <2> HIDE DEF owners
  <2>4. CASE owners = {}
    BY <2>3, <2>4 DEF owners
  <2>5. CASE owners # {}
    <3>1. PICK p \in owners : TRUE
      BY <2>5
    <3> QED
      BY <2>1, <2>2, <2>5, <3>1 DEF owners
  <2> QED
    BY <2>4, <2>5
<1>2. CASE pc \notin {"section", "serving"}
  <2>1. live \subseteq {Reader, Fd} \cup Files /\ roots = Files
    <3>1. Files = {} \/ pc \in {"thrown", "exited"}
      BY <1>2 DEF IInv, Handling, Files
    <3> QED
      BY <1>2, <3>1 DEF IInv, Heap
  <2>2. \A p \in {Reader, Fd} \cup Files : Owns(p) = {}
    BY Owned DEF Files
  <2>3. OSFile \notin {Reader, Fd} \cup Files
    BY Kinds DEF Files
  <2>4. owners = {}
    BY <2>1, <2>2
  <2> HIDE DEF owners
  <2> QED
    BY <2>1, <2>3, <2>4 DEF owners
<1> QED
  BY <1>1, <1>2

\* No object of a mount is deleted twice, none but the reader and, if fstat
\* fails, the descriptor is left without an owner (Mount.tla).
THEOREM NothingDeletedTwice == Spec => []OneOwner
BY Invariance, IInvOneOwner, PTL

LEMMA IInvAllOrNothing == IInv => AllOrNothing
<1> SUFFICES ASSUME IInv PROVE AllOrNothing
  OBVIOUS
<1> DEFINE secs == {Sections(mesh)[k] : k \in DOMAIN Sections(mesh)}
           tree == {Metadata} \cup UNION {{Dir(s)} \cup {Map(s, a) : a \in arrays[s]} : s \in secs}
<1>1. ASSUME pc = "serving" PROVE {o \in live : o.is \in {"map", "dir"}} = tree
  <2>1. DoneSections = secs
    <3>1. todo = <<>> /\ Secs \in Seq(SectionNames)
      BY <1>1, NextSection DEF IInv, Place
    <3>2. Len(todo) = 0 /\ DOMAIN Secs = 1..Len(Secs)
      BY <3>1
    <3> QED
      BY <3>1, <3>2 DEF DoneSections, Secs
  <2>2. tree = {Metadata} \cup DirsOf(DoneSections) \cup AllMaps(DoneSections)
    BY <2>1 DEF DirsOf, AllMaps
  <2> HIDE DEF tree
  <2>3. live = {Reader, Fd, OSFile, Metadata, Tree} \cup DirsOf(DoneSections)
                 \cup AllMaps(DoneSections) \cup Files
    BY <1>1 DEF IInv, Heap
  <2>4. \A o \in {Metadata} \cup DirsOf(DoneSections) \cup AllMaps(DoneSections) :
          o.is \in {"map", "dir"}
    BY Kinds, MapsMember DEF DirsOf
  <2>5. \A o \in {Reader, Fd, OSFile, Tree} \cup Files : o.is \notin {"map", "dir"}
    BY Kinds DEF Files
  <2> QED
    BY <2>2, <2>3, <2>4, <2>5
<1>2. ASSUME pc \in {"thrown", "exited"}, NEW o \in live
      PROVE  o \in {Reader, Fd} \/ o.is = "file"
  <2>1. o \in {Reader, Fd} \cup Files
    BY <1>2 DEF IInv, Heap
  <2> QED
    BY <2>1, Kinds DEF Files
<1> QED
  BY <1>1, <1>2 DEF AllOrNothing

LEMMA IInvReads == IInv => ReadsReachLiveObjects
<1> SUFFICES ASSUME IInv, pc = "serving", NEW h \in Handles, opened[h] # NoObject
             PROVE  Uses(opened[h]) \subseteq live
  BY DEF ReadsReachLiveObjects
<1>1. opened[h] \in {Metadata} \cup AllMaps(DoneSections)
  BY DEF IInv, Handling
<1>2. {OSFile, Fd, Metadata} \cup AllMaps(DoneSections) \subseteq live
  BY DEF IInv, Heap
<1>3. CASE opened[h] = Metadata
  BY <1>2, <1>3, Kinds DEF Uses
<1>4. CASE opened[h] \in AllMaps(DoneSections)
  <2>1. opened[h].section # "METADATA"
    BY <1>4, MapsMember, Kinds, NextSection
  <2> QED
    BY <1>2, <1>4, <2>1 DEF Uses
<1> QED
  BY <1>1, <1>3, <1>4

\* A tree has everything of its file, and goes with everything (Mount.tla).
THEOREM WholeTreeOrNone == Spec => []AllOrNothing
BY Invariance, IInvAllOrNothing, PTL

\* No read of the tree that is served follows a dangling pointer (Mount.tla).
THEOREM NoDanglingRead == Spec => []ReadsReachLiveObjects
BY Invariance, IInvReads, PTL

=============================================================================
