# A specification of Virtual Parquet

Virtual Parquet mounts a VTK file as a read-only tree of Parquet files. Nothing
is converted in advance: each file is an address map, some of whose regions are
Parquet metadata generated in memory and some are the bytes of the VTK file.
These modules model the code that reads the headers of VTK arrays, the code that
builds such maps and the metadata in them, the code that serves reads from them,
the file system around both, its life from mount to unmount, and the benchmark
that comes with it. TLC checks them on small instances and TLAPS proves what
matters most for every instance.

## Inventory

| Component | State it keeps | Operations | Correct when |
|---|---|---|---|
| File map (`fmap.cc`: `FileMap`) | offsets, underlying offsets, direct buffer; immutable | `Pread`, `Read`, `file_size` | a read returns the whole slice or an error, and returns |
| Base64 reader (`base64.cc`) | none between calls | `Pread`, `Decode4` | decodes any slice of the payload, never a part of it |
| OS file (`fmap.cc`: `ReadonlyOSFile`) | a descriptor | `NewOSFile`, `Pread`, destructor | as pread(2); closed once |
| Map builder (`fmap.cc`: `MapBuilder`, `AppendPage`, `AppendFooter`, `BuildMap`) | the map so far, three totals | `AddDirect`, `AddMappedRegion`, `Finish` | a reader finds every page, row and byte, and no other; the metadata agree with each other |
| Array headers (`arr.cc`, `ParseAppendedArray`) | memory of the block sizes | `ParseCompressed32/64`, `ParseUncompressed32/64` | block sizes and the start of the data are those VTK wrote; the memory is released |
| VTK parser (`parser.cc`) | the objects made so far | `ParseVtkFile` | every array of the loaded sections is in the tree, or there is no tree |
| Virtual file system (`vfs.cc`) | the tree; immutable | `Stat`, `GetDir`, `Open`, `NewIter`, `Pread`, destructors | what is listed can be opened; every object has one owner |
| Handlers (`c.cc`, `fuse_main.c`) | the tree, open files | getattr, readdir, open, read, flush, release, init, destroy | all agree on what a path names |
| Bench (`bench.c`) | an offset, a file, a tree | `run_bypass`, `run_posix`, `main` | reads a file to its end once, and ends |
| Generated Parquet types (`gen-cpp/`) | objects with optional fields | constructors, setters, `write`, `read` | what one version writes any version reads, as far as it knows it |
| Thrift serializer (`thrift_serializer.h`) | a buffer | `SerializeToBuffer` | yields the record of this call only |

How they interact. `fuse_main` mounts; `init` calls `ParseVtkFile`, which reads
the XML with VTK, reads the header of every array through the OS file (and the
Base64 reader), has `BuildMap` make a map of each and puts the maps into the
tree. `BuildMap` fills generated records and serializes them. From then on the
tree is read-only. FUSE workers call the handlers of `c.cc` concurrently; a read
goes through `VirtualFile` to `FileMap::Pread` and from there to the direct
buffer, to pread(2), or to the Base64 reader and pread(2). Threads share the
maps, which do not change, and the VTK file, which other processes may change.
`bench` calls the same handlers without FUSE, or pread(2).

What is hard: a read spans regions of different kinds and may get fewer bytes
than it asks for at each step; decoding starts and ends inside base64 groups;
the VTK file may shrink under a read or a parse; sizes go through `uint64_t`,
`uint32_t`, `int32_t` and `int`, and `n - 1` is taken of unsigned numbers;
metadata written page by page have to agree with offsets computed elsewhere; one
array that does not parse takes the whole tree down, with everything made by
then; objects are handed from locals to directories to the tree; and rows, sizes
and types are stated in several records at once. `PROJECT.json` lists these hazards
with their lines; where no property covers one, a note says why.

## Modules

| Module | Models | |
|---|---|---|
| `FileMap` | the fields of a map and what its regions hold | constant operators |
| `RandomAccess` | the promise of `RandomAccessFile::Pread` | abstract specification |
| `FilePread` | reads by concurrent threads | implements `RandomAccess` |
| `ParquetWriter` | a writer that stores the Parquet file | abstract specification |
| `BuildMap` | translation of an array to a map | implements `ParquetWriter` |
| `ReadOnlyFs` | a fixed tree served to clients | abstract specification |
| `FuseServer` | the tree and the handlers | implements `ReadOnlyFs` |
| `ArrayHeader` | reading the header of an array | |
| `Mount` | parsing as a sequence of steps that may throw, and the ownership of objects | |
| `Bench` | the benchmark | |
| `ParquetTypes` | enumerations and tables of fields of the 58 records | constant operators |
| `ThriftRecords` | `write()` and `read()` of every record | compared with a reference definition |
| `ParquetMetadata` | the records `AppendPage` and `AppendFooter` fill | extends `ThriftRecords` |
| `MC...` | instances for TLC, one for each module that is run; `MCRecordTypes` has the types of `MCParquetMetadata` | |
| `FilePread_proofs`, `BuildMap_proofs`, `FuseServer_proofs`, `Mount_proofs`, `ArrayHeader_proofs`, `Bench_proofs`, `ThriftRecords_proofs` | proofs | |
| `Induction` | lemmas for them: induction, sums, and flattened sequences | proofs |

**Bytes.** A byte is not a number but its origin: which byte of which metadata
object, which position of the VTK file, or which byte of which base64 group
(`FileMap!Byte`). Serving a byte of the wrong origin is the error to exclude;
the contents of the VTK file are its own. Metadata have any length in
`HeaderLens` and `FooterLens`; what is in them is `ParquetMetadata`.

**FilePread.** A step is one pass of a loop. `Call` is the entry of
`FileMap::Pread` with `std::upper_bound`; `Return` its exit; `ReadDirect`,
`CallOSFile`, `OSFileReturns` and `OSFileFails` the branches of `FileMap::Read`;
`EnterDecoder`, `DecodeGroup`, `DecodeFails`, `LeaveDecoder` the Base64 reader.
`frame` and `decoder` are the locals of the two functions. `region_id` counts
from 1. The pread of a raw region is two steps, because a pread that returns
nothing leaves every variable of the code unchanged and would not be a step of
its own; that of a base64 group is one. `PreadCounts` (pread(2)), `DecodedCounts`
(VTK's `DecodeTriplet`) and `Truncate` (another process) are external: pread
returns nothing only at the end of the file and otherwise at least a byte; a
group past the end of the payload decodes to anything. A file that shrinks is
the only change modelled; overwriting changes no position and growth nothing
that a map covers.

**BuildMap.** A step is one page: the body of the loop, or of the block after
it, of either `BuildMap`, with `AppendPage` inside; `Begin` and `End` are what
precedes and follows. The two functions differ in where block sizes come from
(`NumBlks`, `CompressedSizes`, `UncompressedSize`) and are one specification.
`ToUint32` and `ToInt32` cut sizes as the declarations do; `FullBlks` is
`num_blks - 1` in `uint64_t`; beyond the end of `compressed_blk_sz` any element
of `StraySizes` is read. The three widths are constants so that small instances
wrap. The loop counter is unbounded here and an `int` in the code. For an array with
values it takes 2^31 blocks to tell. For an empty one the bound of the loop is
2^64 - 1: the code goes on until `int` overflows or memory runs out, and until then
no map of such an array is served. TLC stops at the first page past the array.

**FuseServer.** `Ask` is the kernel or bench; every other action is a handler,
in one step because the tree it looks at cannot change. Names are sequences of
pieces and separators, so that a name may contain a `/` and appending `.parquet`
is concatenation; `Tokens` are what they are made of. `Components` is the scanning of
`ResolvePath`: a component starts after a separator (`Starts`) and ends before the next
(`EndFrom`), so that repeated separators count as one. `Walk` is its loop, with `Descend`
for a component that turns out not to be the last. `ParseVtkFile` is one step too: no request is served before it
returns. Of an array it knows the file made of it; `FilePread` and `BuildMap` have
the rest. `ReadOnlyFs` looks nodes up by the components a client means,
`FuseServer` by parsing the path the client spells.

**ArrayHeader.** A step is one read with the code up to the next: `ReadLength`
(uncompressed), `ReadInfo` and `ReadSizes` (compressed), `Widen` (the copy to 64
bits), then `Adjust` (where the data start) and `Build` (the call of `BuildMap`
and the release of the sizes). `Pread` has all that the two kinds of reader may
return: through the OS file any number of bytes there are or an error, through
the Base64 reader all or an error. Memory that a short read leaves alone holds
elements of `Stray`. `Bytes` is `4 * n` or `8 * n` in the type of the words.
`Truncate` is another process, as in `FilePread`.

**Mount.** The state is which objects exist, which of them a local variable,
`private_data` or a handle owns (`roots`), and the control of
`ParseVtkFileInternal`; `Owns` says what each destructor deletes. Parsing an array is one
step, which ends: `MountEnds` is about files without empty arrays (`build_empty`). Any step that
calls VTK or reads may `Throw`, which deletes what the locals own. The server is
then left (`ExitSession`) or serves opens and releases until `Destroy`. Handles
left open at the end are those the kernel did not release; the code does
nothing about them.

**Bench.** Both modes are one specification, with `size` the size of the file
and reads that return all they can (bypass, by `RandomAccess`) or at most `MaxRW`
and anything less (posix). A negative `-b`, which `malloc` refuses, is left out;
times and figures derived from them too.

**ParquetTypes, ThriftRecords.** The code that Thrift generates for a record
differs from that of the next by its table of fields only, so the tables are
data (`ParquetTypes`: id, name, type, requiredness and default of every field)
and the code is modelled once. An object is a function on the names of its
fields; an optional field that is not set is not in its domain. The wire is a
sequence of tokens, one for each call on the protocol. A step is one such call,
and `stack` is the chain of `read()` calls in progress: `KnownField`, `SkipField`
(which calls `TProtocol::skip`), `ReadValue`, `ReadListBegin`, `ReadListEnd`,
`ReadRecord` (a nested `read()` on the member, which keeps what it has),
`StructEnds` (with the check of required fields) and `StreamEnds`. The writer may be of
another version: more fields, fewer, of other types. `Readable` and `Understood`
are the reference: what a reader can know of another's object, without a wire. The
generated code calls itself through nested records; `New`, `Write`, `Skip`, `Readable` and
`Understood` are functions on the types in use that refer to themselves, which is why the types
(`Types`, each behind the types of its members), the pairs of types that meet (`Versions`) and
the objects of each type (`Objects`) are constants. This program only calls `write()`,
through the serializer; `read()` is generated and shipped with it, and is what other
programs built from the same definitions read the files with. What the properties say of
readers, of other versions and of streams that are cut is about that code, and meets the
program where a reader takes in the metadata it wrote (`ParquetMetadata`). The assumptions on them say what C++ and
the schema say: a class is complete before it is a member, ids and names in a record
differ, no record is a default and no list has lists, parts of objects are objects.

**ParquetMetadata.** `PageHeaderOf` and `FileMetaDataOf` are what the two Append
functions set, record by record. Each is written and read back with the machine of
`ThriftRecords`, and the properties are about what the reader has then.
`Made("set")` has only what the code sets, to see what it leaves to constructors
(`Given`). `IsCall` is what the translators pass: pages of whole values, of less than 2^31 bytes;
what the casts make of larger ones is in `BuildMap`.

## What the runs check

| Run | Shows |
|---|---|
| `pread_all` | all requests on four maps of an intact file: exact bytes, and every read returns |
| `pread_shared` | two threads, a file that shrinks: a full answer or an error, always; reads of base64 arrays return |
| `build_all` | the virtual file is the one a Parquet writer writes, byte by byte; a reader walks from page to page; rows match; pages are as long as their values, for types of 4 and 8 bytes |
| `fuse_all` | every handler answers every path as the promised tree does, for each mesh type; files that cannot be parsed are not served |
| `header_all` | an array is what VTK wrote or an exception, whichever read fails or falls short; memory is released; parsing ends |
| `mount_all` | the whole tree or nothing, whichever step throws; one owner for every object; open files read objects that exist |
| `bench_all` | a virtual file is counted to its last byte, once; what is left open when; the benchmark ends |
| `records_all` | every record survives writing and reading; readers of other versions have exactly what they can know, refuse what they must and stop where the record ends; page headers and footers say what VTK said, everywhere alike, and leave nothing to a default |

Bounds. Payloads of `MCFilePread` are up to 7 bytes in blocks of 0 to 5, so that
regions begin and end at every position of a base64 group and one region is
empty; offsets go past the end of the files (17 bytes) and sizes past the longest
request that matters. The two-thread run keeps one map of each kind and the
offsets at which regions meet. `MCBuildMap` has blocks of 8 bytes and arrays of
one to four of them, with full and partial last blocks and compressed blocks
smaller and larger than their contents. `MCFuseServer` has one file of each mesh
type and one for each reason to refuse a file; paths hit and miss at every depth
with separators repeated at each place; one handle, since handles share nothing.
`MCArrayHeader` has headers of 1 and of 3 to 8 words in both widths, so that they
end at each position of a base64 group; 16 and 256 stand for 2^32 and 2^64, so that
four blocks are too many for 32-bit words. `MCMount` has two files, four mesh
types and two handles: sections of none to three arrays, and a name that two
sections share. `MCBench` has files of 0 to 12 bytes and buffers that divide them, do not,
exceed them and are empty, on both sides of `MaxRW` (8). `MCParquetMetadata` has ten
jobs for each of the 58 records (whose tables are 38, many being empty) - by the same version into a new and a used
object, and by versions with unknown fields in front and behind, with odd or even
fields only, required fields only, thinner members and other types - with lists
of one record or two other elements; and five records cut at every token, ones with
nested records, lists and optional fields; and pages of all sizes of value and footers of
all types and codecs.

Deadlock is checked for `FilePread`, whose threads can always call or go on. It
is not for the others: `BuildMap`, `ArrayHeader`, `Bench` and `ThriftRecords` end,
`FuseServer` and `Mount` exit.

Fairness. `FairSpec` of `FilePread` has weak fairness of each thread's steps: the
operating system schedules a thread that can run and pread(2) on a local file
returns. The same reason stands behind weak fairness of `Parse` (`ArrayHeader`),
`Starting` (`Mount`) and `Next` (`Bench`, `ThriftRecords`), each a single thread.
Nothing makes a client call, another process truncate, or anybody unmount.

Runs that TLC refutes show disagreements of code and documentation:

- `pread_raw_cut`: a 0 from pread(2) is taken as progress; once the VTK file is
  cut below the position it needs, a read of a raw array loops forever. The base64
  path returns an error (`base64.cc:74-75`).
- `build_narrow`: arrays of one-byte values are announced as `INT32`, `PLAIN`, of
  which a value takes 4 bytes (`gen-cpp/parquet_types.h:243`). `build_all` checks the
  same of wider types (`WidePlainPages`).
- `build_empty`: for an array without values `num_blks - 1` wraps, and the loop maps
  pages past the array, with no end but the overflow of its counter or the end of memory:
  the file is not mounted, and the wrong pages are mapped but not served.
- `build_full`: VTK writes 0 for the size of the last compressed block if that
  block is full; it is published as a page without values.

Other differences that the models show, and no run keeps:

- An array with a `/` in its name has a file that is listed and cannot be named by
  a path (`parser.cc:179`, `c.cc:79`). `ServesFs` fails for `SlashFiles` and
  `SlashPaths` of `MCFuseServer`.
- `run_posix` takes a short pread for the end of the file (`bench.c:107-108`: "break;  //
  End-of-file"), which pread(2) may return anywhere. `CountsWholeFile` fails without
  `mode = "bypass"`.
- Pages of arrays that are not compressed say `is_compressed`, which `AppendPage` sets
  only to true (`fmap.cc:184`) and which is true from the start
  (`gen-cpp/parquet_types.h:1920`). The codec of the column tells readers otherwise.
- The root of the schema has a `repetition_type` (`fmap.cc:275`), which it should not have
  (`gen-cpp/parquet_types.h:1670`).
- Files of arrays end in `.parquet` (`parser.cc:179`); the listing in the repository's
  README does not show it.
- The VTK reader is never deleted (`parser.cc:285`), and the descriptor is not closed
  if `fstat` fails (`fmap.cc:66`). `OneOwner` exempts both.
- With `-b 0` the loops of `bench.c` do not end. `BenchEnds` is about other sizes.
- `4 * info[0]` is computed in 32 bits (`arr.cc:74`). `ArrayAsWritten` is about headers
  whose sizes fit (`Fits`).

## What is proved

For every value of the constants that satisfies the assumptions:

- `FilePread_proofs!TypeCorrect`, `ExactSlices`, `PromiseKept`: `Spec` implies
  `[]TypeOK`, `[]ReadsExactSlice` and `KeepsPromise`. Assumed of the maps:
  `MapsAssumption` (well formed, mapped regions within the payload). The
  inductive invariant `IInv` says of a thread in the loop that its offset is that
  of the request plus what is in `buf`, that `buf` is the slice so far, and that
  region `i` holds the offset, or ends at it and is followed by another (`FrameOK`);
  of a thread in the decoder that what is decoded is what the region holds from the
  offset on and that the group and `skip` are those of the next byte. `ReadsExactSlice`
  alone says nothing of the middle of a read. `ExactSlices` follows as `LoopEnd`: a
  loop that has ended has used up the request or the file.
- `BuildMap_proofs!TypeCorrect`, `Servable`: `Spec` implies `[]TypeOK` and
  `[]MapServable`, from `WidthAssumption` and `ArraysAssumption`. The invariant is
  that the builder's marks are ordered and its direct regions lie in the direct
  buffer (`BuilderOK`), which holds for empty arrays too.
- `BuildMap_proofs!PagesInArray`: if every array has a value (`Filled`), `Spec`
  implies `[]NoPagePastArray`. The invariant `Within` ties the control to the map: in
  the loop the pages mapped so far end where block `i` ends, and `i` has not passed
  the last full block. `NoPagePastArray` alone does not bound the next page. The
  assumption is what `build_empty` violates. `MapsForPread` puts this and `Servable`
  together: the map of an array that has a value is all that `FilePread` assumes
  (`MapsAssumption`), so the theorems on reads are about the maps the code builds.
- `BuildMap_proofs!FileIsWritten`: if every array has a value and its compressed
  blocks are smaller than 2^31 (`ArraysFit`), `Spec` implies `WritesParquet`, the
  refinement of `ParquetWriter`. The invariant `Abreast` says that the builder still
  decodes and starts where its array does, that in the loop as many pages are written as
  there were blocks, and that `offset` is where block `i` ends. The work is in
  what `AddDirect` and `AddMappedRegion` do to the bytes of the file (`Bytes`): both
  append, and no byte there before changes, although a byte is found through the tables
  of the regions and never stored.
- `PagesAreThere` (same module and conditions): `Spec` implies `[]ReaderFindsPages`. Its
  invariant `Laid` has every page start where the one before ends, its header at its
  start, and `total` tell where the last one ends (`Chained`), then the footer behind it.
  Both follow the sizes in the page headers, which is why the blocks have to fit.
- `PagesArePlain`: if arrays and blocks hold whole values (`Whole`), `Spec` implies
  `[]WidePlainPages`, for blocks of any size: what is cut to 32 bits is cut alike in
  both fields, because the widths are multiples of the sizes of values.
- `RowsAreThere`: if the blocks hold whole values, fit in 31 bits and the last one has a size
  (`RowsFit`), `Spec` implies `[]RowsMatchArray`. The invariant `Counted` says that the
  values counted so far are those of the blocks so far and the sum over the pages. The
  condition on the last block is what `build_full` violates.
- `FuseServer_proofs!TypeCorrect`, `PromisedIsServed`: `Spec` implies `[]TypeOK`, and
  `ServesFs` if names are names (`NamesAreNames`: a client writes a separator between two
  components, no component is empty or has a separator in it, and no two arrays of a section
  have one name). The argument has three parts: `Components` gives back the components
  of a path however its separators are repeated (`PathComponents`); in a tree of two levels
  the loop ends at the node they name or with the errno that the promise has (`PathLeads`);
  and the nodes of the tree that `ParseVtkFile` builds are those of `Promised`
  (`NodesPromised`). The invariant is that a server that serves has a file that parses,
  and its tree, and that a pending read has a handle on a file.
- `Mount_proofs!TypeCorrect`, `NothingDeletedTwice`, `WholeTreeOrNone`, `NoDanglingRead`:
  `Spec` implies `[]TypeOK`, `[]OneOwner`, `[]AllOrNothing` and `[]ReadsReachLiveObjects`, for any
  mesh types, files and handles. The properties compare what exists with what is owned and are
  far from inductive; the invariant says at each step which objects exist and which are roots
  (`Heap`), from the sections done and the arrays left (`Place`).
- `ArrayHeader_proofs!TypeCorrect`, `ParsedAsWritten`, `ReleasesAll`: `Spec` implies
  `[]TypeOK`, `[]ArrayAsWritten` and `[]NothingLeaked`, from `WordAssumption`. The
  invariant says step by step what has been read, that it is what VTK wrote, and
  which buffers are in flight at each step; `ArrayAsWritten` speaks of the end only.
- `Bench_proofs!TypeCorrect`, `WholeFileCounted`, `NothingHeld`: `Spec` implies
  `[]TypeOK`, `[]CountsWholeFile` and `[]HoldsNothing`. The invariant is that what was
  counted and what was read last do not exceed the file, and that a bypass read that falls
  short of the buffer has reached the end.
- `ThriftRecords_proofs!TypeCorrect`, `RoundTripAlways`, `ReadsWhatItKnowsAlways`,
  `RefusesWhatItMustAlways`, `StopsAtTheEndAlways`: `Spec` implies `[]` of `TypeOK`, `RoundTrip`,
  `ReadsWhatItKnows`, `RefusesWhatItMust` and `StopsAtTheEnd`, for any types, versions, objects
  and cuts that satisfy the assumptions, hence also for records nested deeper and versions
  further apart than those of the run. The properties speak of a `read()` that has returned. The
  invariant `RecordsInv` gives each call in progress a sender that the model does not have: the
  part of the sent object it reads, where in the file `write()` put each piece of that part
  (`RecordLies`, `ListLies`), and how many pieces are read. A call holds what can be known of
  those pieces (`SoFar`), the call it made reads the next one (`Calls`), and the innermost stands
  where that piece is (`ReadAt`), or at the end of what arrived (`Clip`). Below it are three
  lemmas by induction on the nesting of types: the functions that refer to themselves exist
  (`NewIs` and its like), `write()` of a value lies in one piece between two positions
  (`Stands`), and `skip` called in front of a value stops right behind it, if it is there, and at
  the end otherwise (`SkipEnds`). `RoundTrip` follows because what a version can know of an
  object it wrote itself is the object (`OwnVersions`).
- `MetadataAgreesAlways`, `SchemaIsTreeAlways`, `SchemaTellsTypeAlways`,
  `PageMatchesSchemaAlways`, `NothingLeftToDefaultAlways` (same module): `Spec` implies `[]` of
  the five properties of `ParquetMetadata`, for any names, sizes and counts of arrays and any
  number of calls. By `RoundTrip` the reader has the record the setters filled (`CallIs`), and
  the lemmas on each record (`PageIs`, `FooterIs`, `GroupIs`, `ColumnIs`, `SchemaIs`) say what
  is in it. Assumed of calls: `CallsAssumption`.

`Induction` has what these proofs need of numbers: a set of naturals with 0 and the
successors of its members is all of them, because a smallest counterexample has a
predecessor; that the fold of `+` is a sum, whatever the order; and where the elements of a
flattened sequence are. The prover cannot
take a theorem that has an operator as a parameter, so claims are put as sets. Induction on
the nesting of types is induction on their place in `Types`.

The conditions on arrays and names are defined with the models (`ArraysFit`, `RowsFit`,
`NamesAreNames`), and TLC evaluates that the instances of `build_all` and `fuse_all` satisfy
them. Names with a separator, for which `ServesFs` fails, are named above.

Only model-checked: liveness (`ReadsReturn`, `DecodedReadsReturn`, `ParseEnds`,
`MountEnds`, `BenchEnds`, `ReadReturns`), which the prover does not support. Every invariant
that a passing run checks is also a theorem. `PlainPages` is refuted for values of a byte
(`build_narrow`) and proved for the others.

## Assumptions about the outside

- VTK: a block size list holds the sizes of the blocks it wrote; `last_blk_sz` is 0
  if the last block is full; block sizes are multiples of the value size; a base64
  header is a text of its own; a data set has one array of a name.
- libfuse and the kernel: no request before `init` has returned, handles are used
  between open and release only, nothing runs after `destroy`.
- Thrift: the compact protocol yields the tokens that were written, in order, or throws
  at the end of the transport; `skip` passes over one value of any type. Writers keep the
  type of the elements of a list.
- Memory does not run out.

## Not modelled, and the plan

Left out for good: option parsing and libfuse, the bytes of the compact protocol,
`swap`, `operator==`, `printTo` and the copy and move members of generated records (they
go through the fields and have no other state), the cache dropping and measurements of
bench but for the calls, the order of directory listings, times and owners in the stat buffer.

Next, the most important first:

1. A composition of `ArrayHeader`, `BuildMap` and `FilePread`: what a client reads is
   the file the Parquet writer would have stored of the array VTK wrote. `MapsForPread`
   and `FileIsWritten` are two of its thirds; that the arrays `ParsedAsWritten` yields
   are those `BuildMap` assumes is the third.
2. `FilePread` under a file that shrinks: which reads still end. TLC has the answer for
   small maps (`pread_shared`, `pread_raw_cut`).
3. The same for records: that the calls `BuildMap` makes are those `IsCall` allows, so that the
   theorems on metadata are about every page of every array.
