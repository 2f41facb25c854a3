--------------------------- MODULE ThriftRecords ---------------------------
(***************************************************************************)
(* What the generated code of every record does (gen-cpp): the             *)
(* constructor, the setters, write() and read().  The code of a record     *)
(* differs from that of another by its table in ParquetTypes only.         *)
(*                                                                         *)
(* An object is a function from the names of its fields to values; an      *)
(* optional field whose __isset bit is false is not in its domain.  The    *)
(* wire is a sequence of tokens in place of the bytes of the compact       *)
(* protocol: the head of a field, a value, the head of a list, the stop of *)
(* a record.                                                               *)
(*                                                                         *)
(* read() calls the read() of nested records; a step here is one call on   *)
(* the protocol, and the stack is the one of the calls in progress.        *)
(* Writers may know other versions of a record than the reader: more       *)
(* fields, fewer, or fields of another type.  A list keeps the type of its *)
(* elements, which read() takes from the wire and never looks at.          *)
(***************************************************************************)
EXTENDS ParquetTypes, SequencesExt

CONSTANTS
  Types,       \* the types in use, each behind the types of its members
  Versions,    \* pairs of types that meet: the one of the reader, the one of
               \* the writer
  Objects(_),  \* the objects of a type
  Jobs         \* a sequence of [reader, writer : types of a record, sent :
               \* object of the writer, into : object that is read into, lost :
               \* tokens at the end that do not reach the reader]

TypeSet == Range(Types)

VARIABLES
  job,     \* the job in progress
  stream,  \* the tokens that reach the reader
  pos,     \* next token of the stream
  stack,   \* read() in progress, the innermost last
  outcome  \* "none" until the outermost returns or throws

input == <<job, stream>>
vars  == <<input, pos, stack, outcome>>

-----------------------------------------------------------------------------
(* Constructor and setters. *)

FieldNames(type) == {type.fields[k].name : k \in DOMAIN type.fields}

FieldNamed(type, name) ==
  LET k == CHOOSE k \in DOMAIN type.fields : type.fields[k].name = name
  IN  type.fields[k]

\* f, and what g has beyond it.
Over(f, g) == [x \in DOMAIN f \cup DOMAIN g |-> IF x \in DOMAIN f THEN f[x] ELSE g[x]]

IsSet(f) == "default" \in DOMAIN f

\* The fields an object has from the start.
FirstFields(type) ==
  {type.fields[k].name : k \in {k \in DOMAIN type.fields :
                                  IsSet(type.fields[k]) \/ type.fields[k].req}}

New[type \in TypeSet] ==
  CASE type.wire = "STRUCT" ->
         [name \in FirstFields(type) |->
            LET f == FieldNamed(type, name) IN IF IsSet(f) THEN f.default ELSE New[f.type]]
    [] type.wire = "LIST"   -> <<>>
    [] type.wire = "STRING" -> ""
    [] type.wire = "BOOL"   -> FALSE
    [] OTHER -> 0

\* An object after __set_x for every x of values.
WithFields(type, values) == Over(values, New[type])

-----------------------------------------------------------------------------
(* write() *)

FieldHead(f)  == [is |-> "field", wire |-> f.type.wire, id |-> f.id]
ListHead(n)   == [is |-> "list", size |-> n]
Value(v)      == [is |-> "value", val |-> v]
Stop          == [is |-> "stop"]
PageBytes     == [is |-> "page"]  \* what follows a record in the file

Write[type \in TypeSet] == [v \in Objects(type) |->
  CASE type.wire = "STRUCT" ->
         FlattenSeq([k \in 1..Len(type.fields) |->
                       LET f == type.fields[k]
                       IN  IF f.name \in DOMAIN v
                           THEN <<FieldHead(f)>> \o Write[f.type][v[f.name]] ELSE <<>>])
           \o <<Stop>>
    [] type.wire = "LIST" ->
         <<ListHead(Len(v))>> \o FlattenSeq([k \in 1..Len(v) |-> Write[type.of][v[k]]])
    [] OTHER -> <<Value(v)>>]

Written(j) == Write[j.writer][j.sent]

\* A file with the record in front.
File(j) == Written(j) \o <<PageBytes, PageBytes>>

-----------------------------------------------------------------------------
(* read() *)

\* How many values follow a token as parts of what it begins: the elements
\* of a list; the value of a field and the rest of the record.
Follow(token) ==
  CASE token.is = "list"  -> token.size
    [] token.is = "field" -> 2
    [] OTHER -> 0

\* TProtocol::skip: where the value that begins at p ends.
Skip(in, p) ==
  LET after[q \in 1..Len(in) + 1] ==  \* n values on
        [n \in Nat |-> IF n = 0 \/ q > Len(in) THEN q ELSE after[q + 1][n - 1 + Follow(in[q])]]
  IN  after[p][1]

\* A call of read() on an object, and the reading of a list.
RecordFrame(type, obj) == [type |-> type, obj |-> obj, seen |-> {}, at |-> 0]
ListFrame(type, n)     == [type |-> type, left |-> n, items |-> <<>>]

top == stack[Len(stack)]

\* What a call that is not between two fields is about to read.
WantedBy(frame) ==
  IF frame.type.wire = "STRUCT" THEN frame.type.fields[frame.at].type ELSE frame.type.of

InRecord == top.type.wire = "STRUCT"
Between  == InRecord /\ top.at = 0
InList   == ~InRecord /\ top.left > 0
Wanted   == WantedBy(top)

Here(kind) == pos <= Len(stream) /\ stream[pos].is = kind

\* Mutant: the elements of a list are put in front.
StoreInFront(frame, v) ==
  IF frame.type.wire = "STRUCT"
  THEN LET name == frame.type.fields[frame.at].name
       IN  [frame EXCEPT !.obj = Over([n \in {name} |-> v], @), !.seen = @ \cup {name}, !.at = 0]
  ELSE [frame EXCEPT !.left = @ - 1, !.items = <<v>> \o @]

\* The frame after v was read into it.
Store(frame, v) ==
  IF frame.type.wire = "STRUCT"
  THEN LET name == frame.type.fields[frame.at].name
       IN  [frame EXCEPT !.obj = Over([n \in {name} |-> v], @), !.seen = @ \cup {name}, !.at = 0]
  ELSE [frame EXCEPT !.left = @ - 1, !.items = Append(@, v)]

Deliver(frames, v) == [frames EXCEPT ![Len(frames)] = Store(@, v)]

\* Fields of the reader that the head of a field stands for: read() looks at
\* the id, then at the type.
Known(token) ==
  {k \in DOMAIN top.type.fields :
     top.type.fields[k].id = token.id /\ top.type.fields[k].type.wire = token.wire}

Init ==
  /\ \E k \in DOMAIN Jobs : job = Jobs[k]
  /\ stream = SubSeq(File(job), 1, Len(File(job)) - job.lost)
  /\ pos = 1
  /\ stack = <<RecordFrame(job.reader, job.into)>>
  /\ outcome = "none"

KnownField ==
  /\ outcome = "none" /\ Between /\ Here("field")
  /\ \E k \in Known(stream[pos]) : stack' = [stack EXCEPT ![Len(stack)].at = k]
  /\ pos' = pos + 1
  /\ UNCHANGED <<input, outcome>>

\* Mutant: only the head of an unknown field is skipped.
SkipHead ==
  /\ outcome = "none" /\ Between /\ Here("field")
  /\ Known(stream[pos]) = {}
  /\ pos' = pos + 2
  /\ UNCHANGED <<input, stack, outcome>>

\* Mutant: of an unknown record the first field is skipped.
SkipFirst ==
  /\ outcome = "none" /\ Between /\ Here("field")
  /\ Known(stream[pos]) = {}
  /\ pos' = Skip(stream, pos + (IF pos < Len(stream) /\ stream[pos + 1].is = "field" THEN 2 ELSE 1))
  /\ UNCHANGED <<input, stack, outcome>>

\* A field the reader does not know, or knows as another type.
SkipField ==
  /\ outcome = "none" /\ Between /\ Here("field")
  /\ Known(stream[pos]) = {}
  /\ pos' = Skip(stream, pos + 1)
  /\ UNCHANGED <<input, stack, outcome>>

ReadValue ==
  /\ outcome = "none" /\ ~Between /\ (InRecord \/ InList)
  /\ Wanted.wire \notin {"STRUCT", "LIST"} /\ Here("value")
  /\ stack' = Deliver(stack, stream[pos].val)
  /\ pos' = pos + 1
  /\ UNCHANGED <<input, outcome>>

\* The vector is cleared and resized; its elements are constructed anew.
ReadListBegin ==
  /\ outcome = "none" /\ InRecord /\ ~Between
  /\ Wanted.wire = "LIST" /\ Here("list")
  /\ stack' = Append(stack, ListFrame(Wanted, stream[pos].size))
  /\ pos' = pos + 1
  /\ UNCHANGED <<input, outcome>>

ReadListEnd ==
  /\ outcome = "none" /\ ~InRecord /\ ~InList
  /\ stack' = Deliver(Front(stack), top.items)
  /\ UNCHANGED <<input, pos, outcome>>

\* Mutant: the members of an object are constructed anew.
FreshMember == New[Wanted]

\* The object a nested read() is called on: the member, with what it has.
Member ==
  IF InRecord /\ top.type.fields[top.at].name \in DOMAIN top.obj
  THEN top.obj[top.type.fields[top.at].name] ELSE New[Wanted]

ReadRecord ==
  /\ outcome = "none" /\ ~Between /\ (InRecord \/ InList)
  /\ Wanted.wire = "STRUCT"
  /\ stack' = Append(stack, RecordFrame(Wanted, Member))
  /\ UNCHANGED <<input, pos, outcome>>

\* Mutant: nothing is required.
NoneMissing == {}

Missing ==
  {k \in DOMAIN top.type.fields :
     top.type.fields[k].req /\ top.type.fields[k].name \notin top.seen}

\* The stop of the record: read() returns, or throws INVALID_DATA.
StructEnds ==
  /\ outcome = "none" /\ Between /\ Here("stop")
  /\ IF Missing # {} THEN outcome' = "invalid" /\ UNCHANGED stack
     ELSE IF Len(stack) = 1 THEN outcome' = "read" /\ UNCHANGED stack
     ELSE stack' = Deliver(Front(stack), top.obj) /\ UNCHANGED outcome
  /\ pos' = pos + 1
  /\ UNCHANGED input

\* Mutant: readAll takes a read of no bytes for progress and tries again.
StreamStalls ==
  /\ outcome = "none" /\ pos > Len(stream)
  /\ \/ Between
     \/ ~Between /\ (InRecord \/ InList) /\ Wanted.wire # "STRUCT"
  /\ UNCHANGED vars

\* The transport has no more bytes: it throws.
StreamEnds ==
  /\ outcome = "none" /\ pos > Len(stream)
  /\ \/ Between
     \/ ~Between /\ (InRecord \/ InList) /\ Wanted.wire # "STRUCT"
  /\ outcome' = "cut"
  /\ UNCHANGED <<input, pos, stack>>

Next ==
  \/ KnownField \/ SkipField \/ ReadValue \/ ReadListBegin \/ ReadListEnd
  \/ ReadRecord \/ StructEnds \/ StreamEnds

Spec == Init /\ [][Next]_vars /\ WF_vars(Next)

-----------------------------------------------------------------------------
(* Reference: what a reader can know of an object another version wrote,   *)
(* told without the wire.                                                  *)

\* Field g of a writer is what a reader takes field f from.
Meets(f, g) == g.id = f.id /\ g.type.wire = f.type.wire

\* The fields of the writer that hold a value and that field f stands for.
SentAs(f, writer, obj) ==
  {k \in DOMAIN writer.fields :
     Meets(f, writer.fields[k]) /\ writer.fields[k].name \in DOMAIN obj}

Readable[m \in Versions] == [v \in Objects(m[2]) |->
  LET reader == m[1]
      writer == m[2]
  IN  CASE reader.wire = "STRUCT" ->
             \A k \in DOMAIN reader.fields :
               LET f == reader.fields[k]
                   sent == SentAs(f, writer, v)
               IN  /\ f.req => sent # {}
                   /\ \A s \in sent :
                        LET g == writer.fields[s] IN Readable[<<f.type, g.type>>][v[g.name]]
        [] reader.wire = "LIST" -> \A k \in DOMAIN v : Readable[<<reader.of, writer.of>>][v[k]]
        [] OTHER -> TRUE]

\* The names of a reader's fields that came.
Came(reader, writer, v) ==
  {name \in FieldNames(reader) : SentAs(FieldNamed(reader, name), writer, v) # {}}

\* What the reader then has, if it read into an object that held old.
Understood[m \in Versions] == [v \in Objects(m[2]) |-> [old \in Objects(m[1]) |->
  LET reader == m[1]
      writer == m[2]
      new(name) ==
        LET f == FieldNamed(reader, name)
            g == writer.fields[CHOOSE s \in SentAs(f, writer, v) : TRUE]
        IN  Understood[<<f.type, g.type>>][v[g.name]]
              [IF name \in DOMAIN old THEN old[name] ELSE New[f.type]]
  IN  CASE reader.wire = "STRUCT" -> Over([name \in Came(reader, writer, v) |-> new(name)], old)
        [] reader.wire = "LIST" ->
             [k \in DOMAIN v |-> Understood[<<reader.of, writer.of>>][v[k]][New[reader.of]]]
        [] OTHER -> v]]

-----------------------------------------------------------------------------
(* Assumptions on the constants. *)

\* A class is declared before it is a member, its fields have an id and a
\* name each, and no record of Parquet has a list of lists or a record for a
\* default.
ASSUME TypesAssumption ==
  /\ Types \in Seq(TypeSet)
  /\ \A k \in DOMAIN Types :
       \A member \in MemberTypes(Types[k]) : \E i \in 1..k - 1 : Types[i] = member
  /\ \A type \in TypeSet :
       /\ type.wire = "STRUCT" =>
            /\ type.fields \in Seq(Range(type.fields))
            /\ \A i, j \in DOMAIN type.fields :
                 \/ type.fields[i].id = type.fields[j].id
                 \/ type.fields[i].name = type.fields[j].name
                 => i = j
            /\ \A i \in DOMAIN type.fields :
                 IsSet(type.fields[i]) => type.fields[i].type.wire # "STRUCT"
       /\ type.wire = "LIST" => type.of.wire # "LIST"

\* Where two types meet, so do those of their fields that are read from each
\* other, and those of the elements of lists.
ASSUME VersionsAssumption ==
  /\ Versions \subseteq TypeSet \X TypeSet
  /\ \A m \in Versions :
      LET reader == m[1]
          writer == m[2]
      IN  /\ reader.wire = writer.wire
          /\ reader.wire = "STRUCT" =>
               \A i \in DOMAIN reader.fields, j \in DOMAIN writer.fields :
                 Meets(reader.fields[i], writer.fields[j])
                   => <<reader.fields[i].type, writer.fields[j].type>> \in Versions
          /\ reader.wire = "LIST" => <<reader.of, writer.of>> \in Versions

\* Objects are made of objects.  No setter clears a bit of __isset: what the
\* constructor sets is there.
ASSUME ObjectsAssumption ==
  \A type \in TypeSet :
    /\ New[type] \in Objects(type)
    /\ \A v \in Objects(type) :
         /\ type.wire = "STRUCT" =>
              /\ v = [name \in DOMAIN v |-> v[name]]
              /\ FirstFields(type) \subseteq DOMAIN v /\ DOMAIN v \subseteq FieldNames(type)
              /\ \A k \in DOMAIN type.fields :
                   LET f == type.fields[k] IN f.name \in DOMAIN v => v[f.name] \in Objects(f.type)
         /\ type.wire = "LIST" => v \in Seq(Objects(type.of))

ASSUME JobsAssumption ==
  \A k \in DOMAIN Jobs :
    LET j == Jobs[k]
    IN  /\ j.reader.wire = "STRUCT" /\ <<j.reader, j.writer>> \in Versions
        /\ j.sent \in Objects(j.writer) /\ j.into \in Objects(j.reader)
        /\ j.lost \in 0..Len(File(j))

-----------------------------------------------------------------------------
(* Properties. *)

\* Types of the state; each call in progress reads what the one that made it
\* was about to read.
TypeOK ==
  /\ Len(stream) = Len(File(job)) - job.lost
  /\ pos \in 1..Len(stream) + 1
  /\ outcome \in {"none", "read", "invalid", "cut"}
  /\ stack[1].type = job.reader
  /\ \A d \in 2..Len(stack) : stack[d].type = WantedBy(stack[d - 1])
  /\ \A d \in DOMAIN stack :
       stack[d].type.wire = "STRUCT" => DOMAIN stack[d].obj \subseteq FieldNames(stack[d].type)

\* A record read by the version that wrote it, into an object just
\* constructed, equals the one that was written: no field is lost, misplaced
\* or defaulted by write() and read() (the operator== of every record).
RoundTrip ==
  (outcome = "read" /\ job.reader = job.writer /\ job.into = New[job.reader])
    => top.obj = job.sent

\* A reader of any version has exactly what it can know: the fields with the
\* id and type it expects, its defaults for the others, and, in an object it
\* used before, what that held in the fields that did not come, since read()
\* clears no __isset bit.
ReadsWhatItKnows ==
  outcome = "read" => top.obj = Understood[<<job.reader, job.writer>>][job.sent][job.into]

\* read() refuses a record exactly when a field it requires did not come, at
\* any depth, and takes no record whose end did not reach it.
RefusesWhatItMust ==
  /\ outcome = "read" => Readable[<<job.reader, job.writer>>][job.sent] /\ Len(stream) >= Len(Written(job))
  /\ outcome = "invalid" => ~Readable[<<job.reader, job.writer>>][job.sent]
  /\ outcome = "cut" => Len(stream) < Len(Written(job))

\* read() stops right behind the record, whatever it skipped in it, so that
\* the body of a page is found behind its header.
StopsAtTheEnd == outcome = "read" => pos = Len(Written(job)) + 1

\* Every read() returns or throws.
ReadReturns == <>(outcome # "none")

=============================================================================
