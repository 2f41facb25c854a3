-------------------------- MODULE MCRecordTypes ---------------------------
(***************************************************************************)
(* Every record of ParquetTypes and other versions of it, sample objects,  *)
(* and the types they take.                                                *)
(***************************************************************************)
EXTENDS ParquetTypes, SequencesExt

RECURSIVE TypesIn(_)
TypesIn(type) == {type} \cup UNION {TypesIn(member) : member \in MemberTypes(type)}

\* The records that are members of no other; every other is in one of them.
Roots == {FileMetaData, FileCryptoMetaData, PageHeader, BloomFilterHeader, OffsetIndex, ColumnIndex}

RecordSet == {type \in UNION {TypesIn(root) : root \in Roots} : type.wire = "STRUCT"}

Listed(set) ==
  LET upto[s \in SUBSET set] ==
        IF s = {} THEN <<>>
        ELSE LET x == CHOOSE x \in s : TRUE IN Append(upto[s \ {x}], x)
  IN  upto[set]

Records == Listed(RecordSet)

\* A value of the type, other than the one New gives and, mostly, other than
\* the values of its neighbours.  Records have every field, lists n
\* records or twice as many other elements.
RECURSIVE Sample(_, _, _)
Sample(type, n, seed) ==
  CASE type.wire = "BOOL"   -> seed % 2 = 1
    [] type.wire = "STRING" -> IF seed % 2 = 1 THEN "a" ELSE "b"
    [] type.wire = "LIST"   ->
         LET size == IF type.of.wire = "STRUCT" THEN n ELSE 2 * n
         IN  SubSeq([k \in 1..size |-> Sample(type.of, n, seed + k)], 1, size)
    [] type.wire = "STRUCT" ->
         LET upto[k \in 0..Len(type.fields)] ==
               IF k = 0 THEN <<>>
               ELSE LET f == type.fields[k]
                    IN  (f.name :> Sample(f.type, n, ((7 * seed + f.id) % 997) + 1)) @@ upto[k - 1]
         IN  upto[Len(type.fields)]
    [] OTHER -> seed

Full(type)  == Sample(type, 1, 1)
Other(type) == Sample(type, 0, 4)

\* Another version of the record: with fields this one does not know, before
\* and after its own.
Note  == Struct(<<Req(3, "x", T_I64), Opt(4, "y", ListOf(T_STRING))>>)
Newer(type) ==
  Struct(<<Opt(0, "note", Note)>> \o type.fields
         \o <<Opt(40, "notes", ListOf(Note)), Opt(41, "more", T_BOOL)>>)

\* One that lacks the fields with an odd id, those with an even id, or one
\* whose fields are all of another type.
Keeping(type, fs(_)) == Struct(SelectSeq(type.fields, fs))
OddsOnly(type)  == LET odd(f) == f.id % 2 = 1 IN Keeping(type, odd)
EvensOnly(type) == LET even(f) == f.id % 2 = 0 IN Keeping(type, even)
Retyped(type) ==
  Struct([k \in DOMAIN type.fields |->
            LET f == type.fields[k]
            IN  [id |-> f.id, name |-> f.name, req |-> f.req,
                 type |-> IF f.type.wire = "STRUCT" THEN T_STRING ELSE Note]])
RequiredOnly(type) == LET req(f) == f.req IN Keeping(type, req)

\* One whose nested records have no optional fields.
ThinMembers(type) ==
  Struct([k \in DOMAIN type.fields |->
            [type.fields[k] EXCEPT !.type = IF @.wire = "STRUCT" THEN RequiredOnly(@) ELSE @]])

-----------------------------------------------------------------------------
(* The types that occur, each behind its members. *)

Writers(type) ==
  {type, RequiredOnly(type), ThinMembers(type), Newer(type), OddsOnly(type), EvensOnly(type),
   Retyped(type)}

RECURSIVE Depth(_)
Depth(type) == 1 + Max({Depth(member) : member \in MemberTypes(type)} \cup {0})

ByDepth(types) ==
  FlattenSeq([d \in 1..Max({Depth(type) : type \in types}) |->
                Listed({type \in types : Depth(type) = d})])

TypeList == ByDepth(UNION {TypesIn(type) : type \in UNION {Writers(r) : r \in RecordSet}})

AllTypes == TypeList

=============================================================================
