------------------------ MODULE ThriftRecords_proofs ------------------------
(***************************************************************************)
(* Proofs about the records of Parquet metadata: for every set of types,   *)
(* of versions that meet and of objects, read() of a record ends where     *)
(* write() stopped, with what can be known of what was written.            *)
(***************************************************************************)
EXTENDS ParquetMetadata, Induction, SequenceTheorems

-----------------------------------------------------------------------------
(* Induction on types: each is listed behind its members. *)

Listed(k) == {Types[i] : i \in 1..k}

LEMMA TypesListed ==
  /\ Len(Types) \in Nat /\ DOMAIN Types = 1..Len(Types)
  /\ TypeSet = Listed(Len(Types))
  /\ \A k \in 1..Len(Types) : Types[k] \in TypeSet /\ MemberTypes(Types[k]) \subseteq Listed(k - 1)
<1>1. Types \in Seq(TypeSet)
  BY TypesAssumption DEF TypesAssumption
<1>2. Len(Types) \in Nat /\ DOMAIN Types = 1..Len(Types)
  BY <1>1
<1>3. TypeSet = Listed(Len(Types))
  BY <1>2 DEF TypeSet, Range, Listed
<1>4. ASSUME NEW k \in 1..Len(Types), NEW member \in MemberTypes(Types[k])
      PROVE  member \in Listed(k - 1)
  <2>1. \E i \in 1..k - 1 : Types[i] = member
    BY <1>2, TypesAssumption DEF TypesAssumption
  <2> QED
    BY <2>1 DEF Listed
<1> QED
  BY <1>1, <1>2, <1>3, <1>4

LEMMA ListedGrows ==
  ASSUME NEW k \in Nat, k + 1 \in 1..Len(Types)
  PROVE  /\ Listed(k + 1) = Listed(k) \cup {Types[k + 1]}
         /\ MemberTypes(Types[k + 1]) \subseteq Listed(k)
<1>1. 1..k + 1 = (1..k) \cup {k + 1}
  BY SMT
<1>2. Listed(k + 1) = Listed(k) \cup {Types[k + 1]}
  BY <1>1 DEF Listed
<1>3. (k + 1) - 1 = k
  OBVIOUS
<1> QED
  BY <1>2, <1>3, TypesListed

LEMMA ListedMembers ==
  ASSUME NEW k \in Nat, k + 1 <= Len(Types)
  PROVE  /\ Listed(k) \subseteq Listed(k + 1) /\ Listed(k + 1) \subseteq TypeSet
         /\ \A type \in Listed(k + 1) : MemberTypes(type) \subseteq Listed(k)
<1>1. Listed(k + 1) = Listed(k) \cup {Types[k + 1]} /\ MemberTypes(Types[k + 1]) \subseteq Listed(k)
  BY ListedGrows, TypesListed
<1>2. \A i \in 1..k : MemberTypes(Types[i]) \subseteq Listed(k)
  <2>1. ASSUME NEW i \in 1..k PROVE Listed(i - 1) \subseteq Listed(k)
    BY DEF Listed
  <2> QED
    BY <2>1, TypesListed
<1>3. Listed(k + 1) \subseteq TypeSet
  BY TypesListed DEF Listed
<1> QED
  BY <1>1, <1>2, <1>3 DEF Listed

LEMMA MembersInTypeSet ==
  ASSUME NEW type \in TypeSet
  PROVE  MemberTypes(type) \subseteq TypeSet
<1>1. PICK k \in 1..Len(Types) : type = Types[k]
  BY TypesListed DEF Listed
<1>2. Listed(k - 1) \subseteq Listed(Len(Types))
  <2>1. 1..k - 1 \subseteq 1..Len(Types)
    BY TypesListed
  <2> QED
    BY <2>1 DEF Listed
<1> QED
  BY <1>1, <1>2, TypesListed

\* A claim that holds of a type whenever it holds of its members holds of all.
LEMMA TypeInduction ==
  ASSUME NEW S, \A type \in TypeSet : MemberTypes(type) \subseteq S => type \in S
  PROVE  TypeSet \subseteq S
<1> DEFINE T == {k \in Nat : k <= Len(Types) => Listed(k) \subseteq S}
<1>1. 0 \in T
  BY DEF Listed
<1>2. ASSUME NEW k \in Nat, k \in T PROVE k + 1 \in T
  <2> SUFFICES ASSUME k + 1 <= Len(Types) PROVE Listed(k + 1) \subseteq S
    OBVIOUS
  <2>1. Listed(k) \subseteq S
    BY <1>2, TypesListed
  <2>2. k + 1 \in 1..Len(Types)
    BY TypesListed
  <2> HIDE DEF T
  <2> QED
    BY <2>1, <2>2, ListedGrows, TypesListed
<1>3. Nat \subseteq T
  <2> HIDE DEF T
  <2> QED
    BY <1>1, <1>2, SetInduction
<1> QED
  BY <1>3, TypesListed

\* The members of a record and of a list.
LEMMA MembersAre ==
  ASSUME NEW type
  PROVE  /\ type.wire = "STRUCT" => \A k \in DOMAIN type.fields : type.fields[k].type \in MemberTypes(type)
         /\ type.wire = "LIST" => type.of \in MemberTypes(type)
BY DEF MemberTypes

-----------------------------------------------------------------------------
(* New, by recursion on the type. *)

NewFrom(h, type) ==
  CASE type.wire = "STRUCT" ->
         [name \in FirstFields(type) |->
            LET f == FieldNamed(type, name) IN IF IsSet(f) THEN f.default ELSE h[f.type]]
    [] type.wire = "LIST"   -> <<>>
    [] type.wire = "STRING" -> ""
    [] type.wire = "BOOL"   -> FALSE
    [] OTHER -> 0

LEMMA NamedField ==
  ASSUME NEW type, NEW name \in FieldNames(type)
  PROVE  \E k \in DOMAIN type.fields : FieldNamed(type, name) = type.fields[k] /\ type.fields[k].name = name
BY DEF FieldNames, FieldNamed

LEMMA FirstFieldsNamed ==
  ASSUME NEW type
  PROVE  FirstFields(type) \subseteq FieldNames(type)
BY DEF FirstFields, FieldNames

LEMMA NewFromMembers ==
  ASSUME NEW g, NEW h, NEW type, \A member \in MemberTypes(type) : g[member] = h[member]
  PROVE  NewFrom(g, type) = NewFrom(h, type)
<1>1. CASE type.wire = "STRUCT"
  <2>1. ASSUME NEW name \in FirstFields(type)
        PROVE  g[FieldNamed(type, name).type] = h[FieldNamed(type, name).type]
    <3>1. name \in FieldNames(type)
      BY FirstFieldsNamed
    <3>2. PICK k \in DOMAIN type.fields : FieldNamed(type, name) = type.fields[k]
      BY <3>1, NamedField
    <3> QED
      BY <1>1, <3>2, MembersAre
  <2> QED
    BY <1>1, <2>1 DEF NewFrom
<1>2. CASE type.wire # "STRUCT"
  BY <1>2 DEF NewFrom
<1> QED
  BY <1>1, <1>2

LEMMA NewIs ==
  /\ New = [type \in TypeSet |-> NewFrom(New, type)]
  /\ \A type \in TypeSet : New[type] = NewFrom(New, type)
<1> DEFINE Fits(h, S) == h = [type \in S |-> NewFrom(h, type)]
           T == {k \in Nat : k <= Len(Types) => \E h : Fits(h, Listed(k))}
<1>1. 0 \in T
  <2>1. Listed(0) = {}
    BY DEF Listed
  <2>2. Fits([type \in {} |-> 0], {})
    OBVIOUS
  <2> HIDE DEF Fits
  <2> QED
    BY <2>1, <2>2
<1>2. ASSUME NEW k \in Nat, k \in T PROVE k + 1 \in T
  <2> SUFFICES ASSUME k + 1 <= Len(Types) PROVE \E h : Fits(h, Listed(k + 1))
    OBVIOUS
  <2>1. PICK h : Fits(h, Listed(k))
    BY <1>2, TypesListed
  <2>2. /\ Listed(k) \subseteq Listed(k + 1)
        /\ \A type \in Listed(k + 1) : MemberTypes(type) \subseteq Listed(k)
    BY ListedMembers
  <2> DEFINE g == [type \in Listed(k + 1) |-> IF type \in Listed(k) THEN h[type] ELSE NewFrom(h, type)]
  <2>3. \A type \in Listed(k + 1) : g[type] = NewFrom(h, type)
    BY <2>1
  <2>4. \A type \in Listed(k) : g[type] = h[type]
    BY <2>2
  <2>5. ASSUME NEW type \in Listed(k + 1) PROVE NewFrom(g, type) = NewFrom(h, type)
    <3>1. \A member \in MemberTypes(type) : g[member] = h[member]
      BY <2>2, <2>4
    <3> HIDE DEF g
    <3> QED
      BY <3>1, NewFromMembers
  <2>6. g = [type \in Listed(k + 1) |-> g[type]]
    OBVIOUS
  <2>7. Fits(g, Listed(k + 1))
    <3> HIDE DEF g
    <3> QED
      BY <2>3, <2>5, <2>6
  <2> QED
    BY <2>7
<1>3. Nat \subseteq T
  <2> HIDE DEF T
  <2> QED
    BY <1>1, <1>2, SetInduction
<1>4. \E h : Fits(h, TypeSet)
  BY <1>3, TypesListed
<1>5. New = CHOOSE h : Fits(h, TypeSet)
  BY Zenon DEF New, NewFrom
<1>6. Fits(New, TypeSet)
  <2> HIDE DEF Fits
  <2> QED
    BY <1>4, <1>5
<1> QED
  BY <1>6

-----------------------------------------------------------------------------
(* Write, by recursion on the type. *)

LEMMA FieldsAre ==
  ASSUME NEW type \in TypeSet, type.wire = "STRUCT"
  PROVE  /\ Len(type.fields) \in Nat /\ DOMAIN type.fields = 1..Len(type.fields)
         /\ \A k \in 1..Len(type.fields) :
              type.fields[k].type \in MemberTypes(type) /\ type.fields[k].type \in TypeSet
<1>1. type.fields \in Seq(Range(type.fields))
  BY TypesAssumption DEF TypesAssumption
<1>2. Len(type.fields) \in Nat /\ DOMAIN type.fields = 1..Len(type.fields)
  BY <1>1
<1> QED
  BY <1>2, MembersAre, MembersInTypeSet

\* What write() sends of a field and of an element.
FieldFrom(h, type, v, k) ==
  LET f == type.fields[k]
  IN  IF f.name \in DOMAIN v THEN <<FieldHead(f)>> \o h[f.type][v[f.name]] ELSE <<>>

FieldsFrom(h, type, v)   == [k \in 1..Len(type.fields) |-> FieldFrom(h, type, v, k)]
ElementsFrom(h, type, v) == [k \in 1..Len(v) |-> h[type.of][v[k]]]

TokensFrom(h, type, v) ==
  CASE type.wire = "STRUCT" -> FlattenSeq(FieldsFrom(h, type, v)) \o <<Stop>>
    [] type.wire = "LIST" -> <<ListHead(Len(v))>> \o FlattenSeq(ElementsFrom(h, type, v))
    [] OTHER -> <<Value(v)>>

WriteFrom(h, type) == [v \in Objects(type) |-> TokensFrom(h, type, v)]

LEMMA WriteFromMembers ==
  ASSUME NEW g, NEW h, NEW type \in TypeSet, \A member \in MemberTypes(type) : g[member] = h[member]
  PROVE  WriteFrom(g, type) = WriteFrom(h, type)
<1> SUFFICES ASSUME NEW v \in Objects(type) PROVE TokensFrom(g, type, v) = TokensFrom(h, type, v)
  BY DEF WriteFrom
<1>1. CASE type.wire = "STRUCT"
  <2>1. \A k \in 1..Len(type.fields) : g[type.fields[k].type] = h[type.fields[k].type]
    BY <1>1, FieldsAre
  <2>2. \A k \in 1..Len(type.fields) : FieldFrom(g, type, v, k) = FieldFrom(h, type, v, k)
    BY <2>1 DEF FieldFrom
  <2>3. FieldsFrom(g, type, v) = FieldsFrom(h, type, v)
    BY <2>2 DEF FieldsFrom
  <2> QED
    BY <1>1, <2>3 DEF TokensFrom
<1>2. CASE type.wire = "LIST"
  <2>1. g[type.of] = h[type.of]
    BY <1>2, MembersAre
  <2>2. ElementsFrom(g, type, v) = ElementsFrom(h, type, v)
    BY <2>1 DEF ElementsFrom
  <2> QED
    BY <1>2, <2>2 DEF TokensFrom
<1>3. CASE type.wire \notin {"STRUCT", "LIST"}
  BY <1>3 DEF TokensFrom
<1> QED
  BY <1>1, <1>2, <1>3

LEMMA WriteIs ==
  \A type \in TypeSet : Write[type] = WriteFrom(Write, type)
<1> DEFINE Fits(h, S) == h = [type \in S |-> WriteFrom(h, type)]
           T == {k \in Nat : k <= Len(Types) => \E h : Fits(h, Listed(k))}
<1>1. 0 \in T
  <2>1. Listed(0) = {}
    BY DEF Listed
  <2>2. Fits([type \in {} |-> 0], {})
    OBVIOUS
  <2> HIDE DEF Fits
  <2> QED
    BY <2>1, <2>2
<1>2. ASSUME NEW k \in Nat, k \in T PROVE k + 1 \in T
  <2> SUFFICES ASSUME k + 1 <= Len(Types) PROVE \E h : Fits(h, Listed(k + 1))
    OBVIOUS
  <2>1. PICK h : Fits(h, Listed(k))
    BY <1>2, TypesListed
  <2> DEFINE g == [type \in Listed(k + 1) |-> IF type \in Listed(k) THEN h[type] ELSE WriteFrom(h, type)]
  <2>2. Listed(k) \subseteq Listed(k + 1) /\ Listed(k + 1) \subseteq TypeSet
        /\ \A type \in Listed(k + 1) : MemberTypes(type) \subseteq Listed(k)
    BY ListedMembers
  <2>3. \A type \in Listed(k + 1) : g[type] = WriteFrom(h, type)
    BY <2>1
  <2>4. \A type \in Listed(k) : g[type] = h[type]
    BY <2>2
  <2>5. ASSUME NEW type \in Listed(k + 1) PROVE WriteFrom(g, type) = WriteFrom(h, type)
    <3>1. \A member \in MemberTypes(type) : g[member] = h[member]
      BY <2>2, <2>4
    <3> HIDE DEF g
    <3> QED
      BY <2>2, <3>1, WriteFromMembers
  <2>6. g = [type \in Listed(k + 1) |-> g[type]]
    OBVIOUS
  <2>7. Fits(g, Listed(k + 1))
    <3> HIDE DEF g
    <3> QED
      BY <2>3, <2>5, <2>6
  <2> QED
    BY <2>7
<1>3. Nat \subseteq T
  <2> HIDE DEF T
  <2> QED
    BY <1>1, <1>2, SetInduction
<1>4. \E h : Fits(h, TypeSet)
  BY <1>3, TypesListed
<1>5. Write = CHOOSE h : Fits(h, TypeSet)
  BY Zenon DEF Write, WriteFrom, TokensFrom, FieldsFrom, FieldFrom, ElementsFrom
<1>6. Fits(Write, TypeSet)
  <2> HIDE DEF Fits
  <2> QED
    BY <1>4, <1>5
<1> QED
  BY <1>6

-----------------------------------------------------------------------------
(* Readable and Understood, by recursion on the type of the reader. *)

\* What meets is read from what it met, member by member.
LEMMA VersionsAre ==
  ASSUME NEW m \in Versions
  PROVE  /\ m[1] \in TypeSet /\ m[2] \in TypeSet /\ m = <<m[1], m[2]>> /\ m[1].wire = m[2].wire
         /\ m[1].wire = "STRUCT" =>
              \A i \in DOMAIN m[1].fields : \A v : \A s \in SentAs(m[1].fields[i], m[2], v) :
                /\ s \in DOMAIN m[2].fields
                /\ <<m[1].fields[i].type, m[2].fields[s].type>> \in Versions
                /\ m[1].fields[i].type \in MemberTypes(m[1])
         /\ m[1].wire = "LIST" => <<m[1].of, m[2].of>> \in Versions /\ m[1].of \in MemberTypes(m[1])
<1>1. Versions \subseteq TypeSet \X TypeSet
  BY VersionsAssumption DEF VersionsAssumption
<1>2. m[1] \in TypeSet /\ m[2] \in TypeSet /\ m = <<m[1], m[2]>>
  BY <1>1
<1>3. /\ m[1].wire = m[2].wire
      /\ m[1].wire = "LIST" => <<m[1].of, m[2].of>> \in Versions
      /\ m[1].wire = "STRUCT" =>
           \A i \in DOMAIN m[1].fields, j \in DOMAIN m[2].fields :
             Meets(m[1].fields[i], m[2].fields[j])
               => <<m[1].fields[i].type, m[2].fields[j].type>> \in Versions
  BY VersionsAssumption DEF VersionsAssumption
<1>4. ASSUME m[1].wire = "STRUCT", NEW i \in DOMAIN m[1].fields, NEW v,
             NEW s \in SentAs(m[1].fields[i], m[2], v)
      PROVE  /\ s \in DOMAIN m[2].fields
             /\ <<m[1].fields[i].type, m[2].fields[s].type>> \in Versions
             /\ m[1].fields[i].type \in MemberTypes(m[1])
  <2>1. s \in DOMAIN m[2].fields /\ Meets(m[1].fields[i], m[2].fields[s])
    BY DEF SentAs
  <2> QED
    BY <1>3, <1>4, <2>1, MembersAre
<1> QED
  BY <1>2, <1>3, <1>4, MembersAre

\* What is sent of field f of a reader can be read.
FieldReads(h, f, writer, v) ==
  LET sent == SentAs(f, writer, v)
  IN  /\ f.req => sent # {}
      /\ \A s \in sent :
           LET g == writer.fields[s] IN h[<<f.type, g.type>>][v[g.name]]

ReadableFrom(h, m, v) ==
  LET reader == m[1]
      writer == m[2]
  IN  CASE reader.wire = "STRUCT" ->
             \A k \in DOMAIN reader.fields : FieldReads(h, reader.fields[k], writer, v)
        [] reader.wire = "LIST" -> \A k \in DOMAIN v : h[<<reader.of, writer.of>>][v[k]]
        [] OTHER -> TRUE

UnderstoodFrom(h, m, v, old) ==
  LET reader == m[1]
      writer == m[2]
      new(name) ==
        LET f == FieldNamed(reader, name)
            g == writer.fields[CHOOSE s \in SentAs(f, writer, v) : TRUE]
        IN  h[<<f.type, g.type>>][v[g.name]]
              [IF name \in DOMAIN old THEN old[name] ELSE New[f.type]]
  IN  CASE reader.wire = "STRUCT" -> Over([name \in Came(reader, writer, v) |-> new(name)], old)
        [] reader.wire = "LIST" ->
             [k \in DOMAIN v |-> h[<<reader.of, writer.of>>][v[k]][New[reader.of]]]
        [] OTHER -> v

\* Both are told of the members of the reader's type.
AgreeBelow(g, h, m) == \A n \in Versions : n[1] \in MemberTypes(m[1]) => g[n] = h[n]

LEMMA ReadableFromMembers ==
  ASSUME NEW g, NEW h, NEW m \in Versions, AgreeBelow(g, h, m), NEW v
  PROVE  ReadableFrom(g, m, v) = ReadableFrom(h, m, v)
<1>1. CASE m[1].wire = "STRUCT"
  <2>1. ASSUME NEW i \in DOMAIN m[1].fields, NEW s \in SentAs(m[1].fields[i], m[2], v)
        PROVE  g[<<m[1].fields[i].type, m[2].fields[s].type>>]
                 = h[<<m[1].fields[i].type, m[2].fields[s].type>>]
    BY <1>1, VersionsAre DEF AgreeBelow
  <2>2. \A i \in DOMAIN m[1].fields :
          FieldReads(g, m[1].fields[i], m[2], v) <=> FieldReads(h, m[1].fields[i], m[2], v)
    BY <2>1, Zenon DEF FieldReads
  <2>3. /\ ReadableFrom(g, m, v) = \A i \in DOMAIN m[1].fields : FieldReads(g, m[1].fields[i], m[2], v)
        /\ ReadableFrom(h, m, v) = \A i \in DOMAIN m[1].fields : FieldReads(h, m[1].fields[i], m[2], v)
    BY <1>1 DEF ReadableFrom
  <2> QED
    BY <2>2, <2>3, Zenon
<1>2. CASE m[1].wire = "LIST"
  <2>1. g[<<m[1].of, m[2].of>>] = h[<<m[1].of, m[2].of>>]
    BY <1>2, VersionsAre DEF AgreeBelow
  <2> QED
    BY <1>2, <2>1 DEF ReadableFrom
<1>3. CASE m[1].wire \notin {"STRUCT", "LIST"}
  BY <1>3 DEF ReadableFrom
<1> QED
  BY <1>1, <1>2, <1>3

LEMMA CameNamed ==
  ASSUME NEW reader, NEW writer, NEW v, NEW name \in Came(reader, writer, v)
  PROVE  /\ \E i \in DOMAIN reader.fields :
              FieldNamed(reader, name) = reader.fields[i] /\ reader.fields[i].name = name
         /\ (CHOOSE s \in SentAs(FieldNamed(reader, name), writer, v) : TRUE)
              \in SentAs(FieldNamed(reader, name), writer, v)
<1>1. name \in FieldNames(reader) /\ SentAs(FieldNamed(reader, name), writer, v) # {}
  BY DEF Came
<1> QED
  BY <1>1, NamedField

LEMMA UnderstoodFromMembers ==
  ASSUME NEW g, NEW h, NEW m \in Versions, AgreeBelow(g, h, m), NEW v, NEW old
  PROVE  UnderstoodFrom(g, m, v, old) = UnderstoodFrom(h, m, v, old)
<1>1. CASE m[1].wire = "STRUCT"
  <2> DEFINE f(name) == FieldNamed(m[1], name)
             s(name) == CHOOSE s \in SentAs(f(name), m[2], v) : TRUE
             pair(name) == <<f(name).type, m[2].fields[s(name)].type>>
             new(k, name) == k[pair(name)][v[m[2].fields[s(name)].name]]
                               [IF name \in DOMAIN old THEN old[name] ELSE New[f(name).type]]
  <2>1. ASSUME NEW name \in Came(m[1], m[2], v)
        PROVE  g[pair(name)] = h[pair(name)]
    <3>1. PICK i \in DOMAIN m[1].fields : f(name) = m[1].fields[i]
      BY CameNamed
    <3>2. s(name) \in SentAs(f(name), m[2], v)
      BY CameNamed
    <3> HIDE DEF s, f
    <3>3. pair(name) \in Versions /\ f(name).type \in MemberTypes(m[1])
      BY <1>1, <3>1, <3>2, VersionsAre
    <3>4. pair(name)[1] = f(name).type
      OBVIOUS
    <3> QED
      BY <3>3, <3>4 DEF AgreeBelow
  <2>2. /\ UnderstoodFrom(g, m, v, old) = Over([name \in Came(m[1], m[2], v) |-> new(g, name)], old)
        /\ UnderstoodFrom(h, m, v, old) = Over([name \in Came(m[1], m[2], v) |-> new(h, name)], old)
    BY <1>1 DEF UnderstoodFrom
  <2>3. \A name \in Came(m[1], m[2], v) : new(g, name) = new(h, name)
    <3> HIDE DEF pair
    <3> QED
      BY <2>1
  <2> HIDE DEF new
  <2>4. [name \in Came(m[1], m[2], v) |-> new(g, name)] = [name \in Came(m[1], m[2], v) |-> new(h, name)]
    BY <2>3
  <2> QED
    BY <2>2, <2>4
<1>2. CASE m[1].wire = "LIST"
  <2>1. g[<<m[1].of, m[2].of>>] = h[<<m[1].of, m[2].of>>]
    BY <1>2, VersionsAre DEF AgreeBelow
  <2> QED
    BY <1>2, <2>1 DEF UnderstoodFrom
<1>3. CASE m[1].wire \notin {"STRUCT", "LIST"}
  BY <1>3 DEF UnderstoodFrom
<1> QED
  BY <1>1, <1>2, <1>3

ReadableAt(h, m)   == [v \in Objects(m[2]) |-> ReadableFrom(h, m, v)]
UnderstoodAt(h, m) ==
  [v \in Objects(m[2]) |-> [old \in Objects(m[1]) |-> UnderstoodFrom(h, m, v, old)]]

VersionsOf(readers) == {m \in Versions : m[1] \in readers}

LEMMA ReadableIs ==
  \A m \in Versions : Readable[m] = ReadableAt(Readable, m)
<1> DEFINE Fits(h, S) == h = [m \in S |-> ReadableAt(h, m)]
           T == {k \in Nat : k <= Len(Types) => \E h : Fits(h, VersionsOf(Listed(k)))}
<1>1. 0 \in T
  <2>1. VersionsOf(Listed(0)) = {}
    BY DEF Listed, VersionsOf
  <2>2. Fits([m \in {} |-> 0], {})
    OBVIOUS
  <2> HIDE DEF Fits
  <2> QED
    BY <2>1, <2>2
<1>2. ASSUME NEW k \in Nat, k \in T PROVE k + 1 \in T
  <2> SUFFICES ASSUME k + 1 <= Len(Types) PROVE \E h : Fits(h, VersionsOf(Listed(k + 1)))
    OBVIOUS
  <2> DEFINE A == VersionsOf(Listed(k))
             B == VersionsOf(Listed(k + 1))
  <2>1. PICK h : Fits(h, A)
    BY <1>2, TypesListed
  <2> DEFINE g == [m \in B |-> IF m \in A THEN h[m] ELSE ReadableAt(h, m)]
  <2>2. A \subseteq B /\ B \subseteq Versions
        /\ \A m \in B : \A n \in Versions : n[1] \in MemberTypes(m[1]) => n \in A
    BY ListedMembers DEF VersionsOf
  <2> HIDE DEF A, B
  <2>3. \A m \in B : g[m] = ReadableAt(h, m)
    BY <2>1
  <2>4. \A m \in A : g[m] = h[m]
    BY <2>2
  <2>5. ASSUME NEW m \in B PROVE ReadableAt(g, m) = ReadableAt(h, m)
    <3>1. AgreeBelow(g, h, m)
      BY <2>2, <2>4 DEF AgreeBelow
    <3> HIDE DEF g
    <3> QED
      BY <2>2, <3>1, ReadableFromMembers DEF ReadableAt
  <2>6. g = [m \in B |-> g[m]]
    OBVIOUS
  <2>7. Fits(g, B)
    <3> HIDE DEF g
    <3> QED
      BY <2>3, <2>5, <2>6
  <2> QED
    BY <2>7 DEF B
<1>3. Nat \subseteq T
  <2> HIDE DEF T
  <2> QED
    BY <1>1, <1>2, SetInduction
<1>4. \E h : Fits(h, Versions)
  <2>1. VersionsOf(Listed(Len(Types))) = Versions
    BY TypesListed, VersionsAre DEF VersionsOf
  <2> QED
    BY <1>3, <2>1, TypesListed
<1>5. Readable = CHOOSE h : Fits(h, Versions)
  BY Zenon DEF Readable, ReadableAt, ReadableFrom, FieldReads
<1>6. Fits(Readable, Versions)
  <2> HIDE DEF Fits
  <2> QED
    BY <1>4, <1>5
<1> QED
  BY <1>6

LEMMA UnderstoodIs ==
  \A m \in Versions : Understood[m] = UnderstoodAt(Understood, m)
<1> DEFINE Fits(h, S) == h = [m \in S |-> UnderstoodAt(h, m)]
           T == {k \in Nat : k <= Len(Types) => \E h : Fits(h, VersionsOf(Listed(k)))}
<1>1. 0 \in T
  <2>1. VersionsOf(Listed(0)) = {}
    BY DEF Listed, VersionsOf
  <2>2. Fits([m \in {} |-> 0], {})
    OBVIOUS
  <2> HIDE DEF Fits
  <2> QED
    BY <2>1, <2>2
<1>2. ASSUME NEW k \in Nat, k \in T PROVE k + 1 \in T
  <2> SUFFICES ASSUME k + 1 <= Len(Types) PROVE \E h : Fits(h, VersionsOf(Listed(k + 1)))
    OBVIOUS
  <2> DEFINE A == VersionsOf(Listed(k))
             B == VersionsOf(Listed(k + 1))
  <2>1. PICK h : Fits(h, A)
    BY <1>2, TypesListed
  <2> DEFINE g == [m \in B |-> IF m \in A THEN h[m] ELSE UnderstoodAt(h, m)]
  <2>2. A \subseteq B /\ B \subseteq Versions
        /\ \A m \in B : \A n \in Versions : n[1] \in MemberTypes(m[1]) => n \in A
    BY ListedMembers DEF VersionsOf
  <2> HIDE DEF A, B
  <2>3. \A m \in B : g[m] = UnderstoodAt(h, m)
    BY <2>1
  <2>4. \A m \in A : g[m] = h[m]
    BY <2>2
  <2>5. ASSUME NEW m \in B PROVE UnderstoodAt(g, m) = UnderstoodAt(h, m)
    <3>1. AgreeBelow(g, h, m)
      BY <2>2, <2>4 DEF AgreeBelow
    <3> HIDE DEF g
    <3> QED
      BY <2>2, <3>1, UnderstoodFromMembers DEF UnderstoodAt
  <2>6. g = [m \in B |-> g[m]]
    OBVIOUS
  <2>7. Fits(g, B)
    <3> HIDE DEF g
    <3> QED
      BY <2>3, <2>5, <2>6
  <2> QED
    BY <2>7 DEF B
<1>3. Nat \subseteq T
  <2> HIDE DEF T
  <2> QED
    BY <1>1, <1>2, SetInduction
<1>4. \E h : Fits(h, Versions)
  <2>1. VersionsOf(Listed(Len(Types))) = Versions
    BY TypesListed, VersionsAre DEF VersionsOf
  <2> QED
    BY <1>3, <2>1, TypesListed
<1>5. Understood = CHOOSE h : Fits(h, Versions)
  BY Zenon DEF Understood, UnderstoodAt, UnderstoodFrom
<1>6. Fits(Understood, Versions)
  <2> HIDE DEF Fits
  <2> QED
    BY <1>4, <1>5
<1> QED
  BY <1>6

-----------------------------------------------------------------------------
(* Where what was written stands in the file. *)

\* The sequence s is at p..q-1 of F.
Stands(F, s, p, q) ==
  /\ Len(s) \in Nat /\ p \in Nat /\ p >= 1 /\ q = p + Len(s) /\ q <= Len(F) + 1
  /\ \A k \in 1..Len(s) : F[p + k - 1] = s[k]

LEMMA StandsParts ==
  ASSUME NEW S, NEW F, Len(F) \in Nat, NEW a \in Seq(S), NEW b \in Seq(S), NEW p, NEW q,
         Stands(F, a \o b, p, q)
  PROVE  Stands(F, a, p, p + Len(a)) /\ Stands(F, b, p + Len(a), q)
<1>1. /\ Len(a) \in Nat /\ Len(b) \in Nat /\ Len(a \o b) = Len(a) + Len(b)
      /\ \A k \in 1..Len(a) : (a \o b)[k] = a[k]
      /\ \A k \in 1..Len(b) : (a \o b)[Len(a) + k] = b[k]
  <2>1. \A k \in 1..Len(b) : (a \o b)[Len(a) + k] = b[k]
    <3> SUFFICES ASSUME NEW k \in 1..Len(b) PROVE (a \o b)[Len(a) + k] = b[k]
      OBVIOUS
    <3>1. Len(a) + k \in 1..Len(a) + Len(b) /\ ~(Len(a) + k <= Len(a)) /\ (Len(a) + k) - Len(a) = k
      OBVIOUS
    <3> QED
      BY <3>1, ConcatProperties
  <2> QED
    BY <2>1, ConcatProperties
<1> DEFINE ab == a \o b
<1> HIDE DEF ab
<1>2. /\ Len(ab) = Len(a) + Len(b)
      /\ \A k \in 1..Len(a) : ab[k] = a[k]
      /\ \A k \in 1..Len(b) : ab[Len(a) + k] = b[k]
  BY <1>1 DEF ab
<1>3. Stands(F, ab, p, q)
  BY DEF ab
<1>4. p \in Nat /\ p >= 1 /\ q = p + (Len(a) + Len(b)) /\ q <= Len(F) + 1
      /\ \A k \in 1..Len(a) + Len(b) : F[p + k - 1] = ab[k]
  BY <1>2, <1>3 DEF Stands
<1>5. ASSUME NEW k \in 1..Len(a) PROVE F[p + k - 1] = a[k]
  BY <1>1, <1>2, <1>4
<1>6. ASSUME NEW k \in 1..Len(b) PROVE F[(p + Len(a)) + k - 1] = b[k]
  <2>1. Len(a) + k \in 1..Len(a) + Len(b) /\ p + (Len(a) + k) - 1 = (p + Len(a)) + k - 1
    BY <1>1, <1>4
  <2>2. F[p + (Len(a) + k) - 1] = ab[Len(a) + k]
    BY <1>4, <2>1
  <2> QED
    BY <1>2, <2>1, <2>2
<1>7. /\ Len(a) \in Nat /\ p \in Nat /\ p >= 1 /\ p + Len(a) <= Len(F) + 1
      /\ Len(b) \in Nat /\ p + Len(a) \in Nat /\ p + Len(a) >= 1
      /\ q = (p + Len(a)) + Len(b) /\ q <= Len(F) + 1
  BY <1>1, <1>4
<1>8. Stands(F, a, p, p + Len(a))
  BY <1>5, <1>7 DEF Stands
<1>9. Stands(F, b, p + Len(a), q)
  BY <1>6, <1>7 DEF Stands
<1> QED
  BY <1>8, <1>9

LEMMA StandsFlat ==
  ASSUME NEW S, NEW F, Len(F) \in Nat, NEW s \in Seq(Seq(S)), NEW p, NEW q,
         Stands(F, FlattenSeq(s), p, q)
  PROVE  \E c \in [0..Len(s) -> p..q] :
           /\ c[0] = p /\ c[Len(s)] = q
           /\ \A k \in 1..Len(s) : Stands(F, s[k], c[k - 1], c[k])
<1> DEFINE n == Len(s)
<1>1. n \in Nat /\ \A k \in 1..n : s[k] \in Seq(S)
  OBVIOUS
<1> HIDE DEF n
<1>2. PICK b \in [0..n -> Seq(S)] :
        /\ b[0] = <<>>
        /\ \A k \in 1..n : b[k] = b[k - 1] \o s[k]
        /\ FlattenSeq(s) = b[n]
  BY Blocks DEF n
<1>3. p \in Nat /\ q = p + Len(b[n])
  BY <1>2 DEF Stands
<1> DEFINE c == [k \in 0..n |-> p + Len(b[k])]
           T == {j \in Nat : j \in 0..n => Stands(F, b[n - j], p, c[n - j]) /\ c[n - j] <= q}
<1>4. ASSUME NEW k \in 1..n, Stands(F, b[k], p, c[k])
      PROVE  Stands(F, b[k - 1], p, c[k - 1]) /\ Stands(F, s[k], c[k - 1], c[k]) /\ c[k - 1] <= c[k]
  <2>1. k \in 0..n /\ k - 1 \in 0..n /\ b[k - 1] \in Seq(S) /\ s[k] \in Seq(S)
    BY <1>1
  <2>2. c[k - 1] = p + Len(b[k - 1])
    BY <2>1
  <2>3. Stands(F, b[k - 1] \o s[k], p, c[k])
    BY <1>2, <1>4
  <2> HIDE DEF c
  <2>4. Stands(F, b[k - 1], p, c[k - 1]) /\ Stands(F, s[k], c[k - 1], c[k])
    BY <2>1, <2>2, <2>3, StandsParts
  <2>5. c[k - 1] \in Nat /\ Len(s[k]) \in Nat /\ c[k] = c[k - 1] + Len(s[k])
    BY <2>4 DEF Stands
  <2> QED
    BY <2>4, <2>5
<1>5. 0 \in T
  <2>1. n - 0 = n /\ n \in 0..n
    BY <1>1
  <2> QED
    BY <1>2, <1>3, <2>1
<1>6. \A k \in 0..n : c[k] \in Nat /\ c[k] >= p
  BY <1>1, <1>2, <1>3
<1>7. ASSUME NEW j \in Nat, j \in T PROVE j + 1 \in T
  <2> SUFFICES ASSUME j + 1 \in 0..n PROVE Stands(F, b[n - (j + 1)], p, c[n - (j + 1)]) /\ c[n - (j + 1)] <= q
    OBVIOUS
  <2>1. j \in 0..n /\ n - j \in 1..n /\ (n - j) - 1 = n - (j + 1)
    BY <1>1
  <2>2. Stands(F, b[n - j], p, c[n - j]) /\ c[n - j] <= q
    BY <1>7, <2>1
  <2>3. q \in Nat /\ n - (j + 1) \in 0..n /\ n - j \in 0..n
    BY <1>1, <1>2, <1>3, <2>1
  <2> HIDE DEF c, T
  <2>4. Stands(F, b[n - (j + 1)], p, c[n - (j + 1)]) /\ c[n - (j + 1)] <= c[n - j]
    BY <1>4, <2>1, <2>2
  <2> QED
    BY <1>6, <2>2, <2>3, <2>4
<1>8. Nat \subseteq T
  <2> HIDE DEF T
  <2> QED
    BY <1>5, <1>7, SetInduction
<1>9. ASSUME NEW k \in 0..n PROVE Stands(F, b[k], p, c[k]) /\ c[k] <= q
  <2>1. n - k \in Nat /\ n - k \in 0..n /\ n - (n - k) = k
    BY <1>1
  <2> HIDE DEF c
  <2> QED
    BY <1>8, <2>1
<1>10. c[0] = p /\ c[n] = q
  <2>1. 0 \in 0..n /\ n \in 0..n /\ Len(b[0]) = 0
    BY <1>1, <1>2
  <2> QED
    BY <1>3, <2>1
<1>11. q \in Nat
  BY <1>1, <1>2, <1>3
<1> HIDE DEF c, T
<1>12. \A k \in 0..n : c[k] \in p..q
  BY <1>3, <1>6, <1>9, <1>11
<1>13. c \in [0..n -> p..q]
  BY <1>12 DEF c
<1>14. \A k \in 1..n : Stands(F, s[k], c[k - 1], c[k])
  BY <1>1, <1>4, <1>9
<1> QED
  BY <1>10, <1>13, <1>14 DEF n

LEMMA FlattenType ==
  ASSUME NEW S, NEW s \in Seq(Seq(S))
  PROVE  FlattenSeq(s) \in Seq(S)
<1>1. PICK b \in [0..Len(s) -> Seq(S)] : FlattenSeq(s) = b[Len(s)]
  BY Blocks
<1>2. Len(s) \in 0..Len(s)
  OBVIOUS
<1> QED
  BY <1>1, <1>2

\* What an object is made of.
LEMMA ObjectsAre ==
  ASSUME NEW type \in TypeSet, NEW v \in Objects(type)
  PROVE  /\ type.wire = "STRUCT" =>
              /\ v = [name \in DOMAIN v |-> v[name]]
              /\ FirstFields(type) \subseteq DOMAIN v /\ DOMAIN v \subseteq FieldNames(type)
              /\ \A k \in DOMAIN type.fields :
                   type.fields[k].name \in DOMAIN v => v[type.fields[k].name] \in Objects(type.fields[k].type)
         /\ type.wire = "LIST" => /\ v \in Seq(Objects(type.of)) /\ Len(v) \in Nat
                                  /\ DOMAIN v = 1..Len(v) /\ \A k \in 1..Len(v) : v[k] \in Objects(type.of)
<1>1. type.wire = "LIST" => v \in Seq(Objects(type.of))
  BY ObjectsAssumption DEF ObjectsAssumption
<1>2. type.wire = "STRUCT" =>
        /\ v = [name \in DOMAIN v |-> v[name]]
        /\ FirstFields(type) \subseteq DOMAIN v /\ DOMAIN v \subseteq FieldNames(type)
        /\ \A k \in DOMAIN type.fields :
             type.fields[k].name \in DOMAIN v => v[type.fields[k].name] \in Objects(type.fields[k].type)
  BY ObjectsAssumption DEF ObjectsAssumption
<1>3. v \in Seq(Objects(type.of)) =>
        Len(v) \in Nat /\ DOMAIN v = 1..Len(v) /\ \A k \in 1..Len(v) : v[k] \in Objects(type.of)
  OBVIOUS
<1> QED
  BY <1>1, <1>2, <1>3

LEMMA NewIsObject ==
  ASSUME NEW type \in TypeSet
  PROVE  New[type] \in Objects(type)
BY ObjectsAssumption DEF ObjectsAssumption

LEMMA WriteAt ==
  ASSUME NEW type \in TypeSet, NEW v \in Objects(type)
  PROVE  Write[type][v] = TokensFrom(Write, type, v)
BY WriteIs DEF WriteFrom

\* Every token there may be.
Heads  == UNION {{FieldHead(type.fields[k]) : k \in DOMAIN type.fields} : type \in TypeSet}
Values == {Value(v) : v \in UNION {Objects(type) : type \in TypeSet}}
Tokens == {Stop} \cup {ListHead(n) : n \in Nat} \cup Heads \cup Values

LEMMA TokensAre ==
  /\ Stop \in Tokens
  /\ \A n \in Nat : ListHead(n) \in Tokens
  /\ \A type \in TypeSet : \A k \in DOMAIN type.fields : FieldHead(type.fields[k]) \in Tokens
  /\ \A type \in TypeSet : \A v \in Objects(type) : Value(v) \in Tokens
<1>1. \A type \in TypeSet : \A k \in DOMAIN type.fields : FieldHead(type.fields[k]) \in Heads
  BY DEF Heads
<1>2. \A type \in TypeSet : \A v \in Objects(type) : Value(v) \in Values
  BY DEF Values
<1> QED
  BY <1>1, <1>2 DEF Tokens

\* What write() sends of the parts, given what it sends of the members.
LEMMA PartTypes ==
  ASSUME NEW type \in TypeSet, NEW v \in Objects(type),
         \A member \in MemberTypes(type) : \A x \in Objects(member) : Write[member][x] \in Seq(Tokens)
  PROVE  /\ type.wire = "STRUCT" => FieldsFrom(Write, type, v) \in Seq(Seq(Tokens))
         /\ type.wire = "LIST" => ElementsFrom(Write, type, v) \in Seq(Seq(Tokens))
<1>1. ASSUME type.wire = "STRUCT" PROVE FieldsFrom(Write, type, v) \in Seq(Seq(Tokens))
  <2>1. ASSUME NEW k \in 1..Len(type.fields) PROVE FieldFrom(Write, type, v, k) \in Seq(Tokens)
    <3>1. CASE type.fields[k].name \in DOMAIN v
      <4>1. Write[type.fields[k].type][v[type.fields[k].name]] \in Seq(Tokens)
        BY <1>1, <3>1, FieldsAre, ObjectsAre
      <4>2. FieldHead(type.fields[k]) \in Tokens
        BY <1>1, FieldsAre, TokensAre
      <4>3. FieldFrom(Write, type, v, k)
              = <<FieldHead(type.fields[k])>> \o Write[type.fields[k].type][v[type.fields[k].name]]
        BY <3>1 DEF FieldFrom
      <4> DEFINE head == FieldHead(type.fields[k])
                 tail == Write[type.fields[k].type][v[type.fields[k].name]]
      <4> HIDE DEF head, tail
      <4>4. <<head>> \o tail \in Seq(Tokens)
        BY <4>1, <4>2 DEF head, tail
      <4> QED
        BY <4>3, <4>4 DEF head, tail
    <3>2. CASE type.fields[k].name \notin DOMAIN v
      BY <3>2 DEF FieldFrom
    <3> QED
      BY <3>1, <3>2
  <2> QED
    BY <1>1, <2>1, FieldsAre DEF FieldsFrom
<1>2. ASSUME type.wire = "LIST" PROVE ElementsFrom(Write, type, v) \in Seq(Seq(Tokens))
  <2>1. ASSUME NEW k \in 1..Len(v) PROVE Write[type.of][v[k]] \in Seq(Tokens)
    BY <1>2, MembersAre, ObjectsAre
  <2> QED
    BY <1>2, <2>1, ObjectsAre DEF ElementsFrom
<1> QED
  BY <1>1, <1>2

\* write() sends a sequence of tokens, and at least one.
LEMMA WriteType ==
  \A type \in TypeSet : \A v \in Objects(type) :
    /\ Write[type][v] \in Seq(Tokens) /\ Len(Write[type][v]) \in Nat /\ Len(Write[type][v]) >= 1
    /\ type.wire = "STRUCT" => FieldsFrom(Write, type, v) \in Seq(Seq(Tokens))
    /\ type.wire = "LIST" => ElementsFrom(Write, type, v) \in Seq(Seq(Tokens))
<1> DEFINE S == {type \in TypeSet : \A v \in Objects(type) : Write[type][v] \in Seq(Tokens)}
<1>1. ASSUME NEW type \in TypeSet, MemberTypes(type) \subseteq S, NEW v \in Objects(type)
      PROVE  /\ Write[type][v] \in Seq(Tokens) /\ Len(Write[type][v]) >= 1
             /\ type.wire = "STRUCT" => FieldsFrom(Write, type, v) \in Seq(Seq(Tokens))
             /\ type.wire = "LIST" => ElementsFrom(Write, type, v) \in Seq(Seq(Tokens))
  <2>1. /\ type.wire = "STRUCT" => FieldsFrom(Write, type, v) \in Seq(Seq(Tokens))
        /\ type.wire = "LIST" => ElementsFrom(Write, type, v) \in Seq(Seq(Tokens))
    BY <1>1, PartTypes
  <2>2. CASE type.wire = "STRUCT"
    <3>1. FlattenSeq(FieldsFrom(Write, type, v)) \in Seq(Tokens)
      BY <2>1, <2>2, FlattenType
    <3>2. Write[type][v] = FlattenSeq(FieldsFrom(Write, type, v)) \o <<Stop>>
      BY <2>2, WriteAt DEF TokensFrom
    <3> QED
      BY <2>1, <3>1, <3>2, TokensAre
  <2>3. CASE type.wire = "LIST"
    <3>1. FlattenSeq(ElementsFrom(Write, type, v)) \in Seq(Tokens)
      BY <2>1, <2>3, FlattenType
    <3>2. Write[type][v] = <<ListHead(Len(v))>> \o FlattenSeq(ElementsFrom(Write, type, v))
      BY <2>3, WriteAt DEF TokensFrom
    <3>3. ListHead(Len(v)) \in Tokens
      BY <2>3, ObjectsAre, TokensAre
    <3> QED
      BY <2>1, <3>1, <3>2, <3>3
  <2>4. CASE type.wire \notin {"STRUCT", "LIST"}
    <3>1. Write[type][v] = <<Value(v)>>
      BY <2>4, WriteAt DEF TokensFrom
    <3> QED
      BY <2>4, <3>1, TokensAre
  <2> QED
    BY <2>2, <2>3, <2>4
<1>2. TypeSet \subseteq S
  <2>1. \A type \in TypeSet : MemberTypes(type) \subseteq S => type \in S
    BY <1>1
  <2> HIDE DEF S
  <2> QED
    BY <2>1, TypeInduction
<1>3. ASSUME NEW type \in TypeSet PROVE MemberTypes(type) \subseteq S
  BY <1>2, MembersInTypeSet
<1> QED
  BY <1>1, <1>3

LEMMA StandsHead ==
  ASSUME NEW S, NEW F, Len(F) \in Nat, NEW x \in S, NEW s \in Seq(S), NEW p, NEW q,
         Stands(F, <<x>> \o s, p, q)
  PROVE  F[p] = x /\ Stands(F, s, p + 1, q)
<1>1. <<x>> \in Seq(S) /\ Len(<<x>>) = 1 /\ <<x>>[1] = x
  OBVIOUS
<1>2. Stands(F, <<x>>, p, p + 1) /\ Stands(F, s, p + 1, q)
  BY <1>1, StandsParts
<1>3. F[p + 1 - 1] = x /\ p \in Nat
  BY <1>1, <1>2 DEF Stands
<1>4. p + 1 - 1 = p
  BY <1>3
<1> QED
  BY <1>2, <1>3, <1>4

LEMMA StandsLast ==
  ASSUME NEW S, NEW F, Len(F) \in Nat, NEW x \in S, NEW s \in Seq(S), NEW p, NEW q,
         Stands(F, s \o <<x>>, p, q)
  PROVE  q - 1 \in Nat /\ F[q - 1] = x /\ Stands(F, s, p, q - 1)
<1>1. <<x>> \in Seq(S) /\ Len(<<x>>) = 1 /\ <<x>>[1] = x
  OBVIOUS
<1>2. Stands(F, s, p, p + Len(s)) /\ Stands(F, <<x>>, p + Len(s), q)
  BY <1>1, StandsParts
<1>3. p + Len(s) \in Nat /\ q = (p + Len(s)) + 1 /\ F[(p + Len(s)) + 1 - 1] = x
  BY <1>1, <1>2 DEF Stands
<1>4. q - 1 = p + Len(s) /\ (p + Len(s)) + 1 - 1 = p + Len(s)
  BY <1>3
<1> QED
  BY <1>2, <1>3, <1>4

\* What write() sent of v stands at p..q-1 of F.
Lies(F, type, v, p, q) == Stands(F, Write[type][v], p, q)

\* Field by field, each from c[k-1] to c[k]; one that is absent takes no room.
RecordLies(F, type, v, p, q, c) ==
  LET n == Len(type.fields)
  IN  /\ c \in [0..n -> p..q - 1] /\ c[0] = p /\ c[n] = q - 1 /\ F[q - 1] = Stop
      /\ \A k \in 1..n :
           LET f == type.fields[k]
           IN  IF f.name \in DOMAIN v
               THEN F[c[k - 1]] = FieldHead(f) /\ Lies(F, f.type, v[f.name], c[k - 1] + 1, c[k])
               ELSE c[k] = c[k - 1]

\* Element by element.
ListLies(F, type, v, p, q, c) ==
  /\ F[p] = ListHead(Len(v))
  /\ c \in [0..Len(v) -> p + 1..q] /\ c[0] = p + 1 /\ c[Len(v)] = q
  /\ \A k \in 1..Len(v) : Lies(F, type.of, v[k], c[k - 1], c[k])

LEMMA LiesWhere ==
  ASSUME NEW F, Len(F) \in Nat, NEW type \in TypeSet, NEW v \in Objects(type), NEW p, NEW q,
         Lies(F, type, v, p, q)
  PROVE  p \in Nat /\ q \in Nat /\ 1 <= p /\ p < q /\ q <= Len(F) + 1
BY WriteType DEF Lies, Stands

LEMMA LiesAsRecord ==
  ASSUME NEW F, Len(F) \in Nat, NEW type \in TypeSet, NEW v \in Objects(type), NEW p, NEW q,
         Lies(F, type, v, p, q), type.wire = "STRUCT"
  PROVE  \E c : RecordLies(F, type, v, p, q, c)
<1> DEFINE s == FieldsFrom(Write, type, v)
           n == Len(type.fields)
<1>1. s \in Seq(Seq(Tokens)) /\ n \in Nat /\ Len(s) = n
  <2>1. n \in Nat /\ s \in Seq(Seq(Tokens))
    BY FieldsAre, WriteType
  <2> QED
    BY <2>1 DEF FieldsFrom
<1>2. Write[type][v] = FlattenSeq(s) \o <<Stop>>
  BY WriteAt DEF TokensFrom
<1>3. ASSUME NEW k \in 1..n PROVE s[k] = FieldFrom(Write, type, v, k)
  BY <1>3 DEF FieldsFrom
<1> HIDE DEF s, n
<1>4. q - 1 \in Nat /\ F[q - 1] = Stop /\ Stands(F, FlattenSeq(s), p, q - 1)
  <2>1. FlattenSeq(s) \in Seq(Tokens) /\ Stop \in Tokens
    BY <1>1, FlattenType, TokensAre
  <2>2. Stands(F, FlattenSeq(s) \o <<Stop>>, p, q)
    BY <1>2 DEF Lies
  <2> QED
    BY <2>1, <2>2, StandsLast
<1>5. PICK c \in [0..n -> p..q - 1] :
        /\ c[0] = p /\ c[n] = q - 1
        /\ \A k \in 1..n : Stands(F, s[k], c[k - 1], c[k])
  <2> DEFINE r == q - 1
  <2> HIDE DEF r
  <2>1. s \in Seq(Seq(Tokens)) /\ Stands(F, FlattenSeq(s), p, r)
    BY <1>1, <1>4 DEF r
  <2>2. \E c \in [0..Len(s) -> p..r] :
          /\ c[0] = p /\ c[Len(s)] = r
          /\ \A k \in 1..Len(s) : Stands(F, s[k], c[k - 1], c[k])
    BY <2>1, StandsFlat
  <2> QED
    BY <1>1, <2>2 DEF r
<1>6. ASSUME NEW k \in 1..n, type.fields[k].name \in DOMAIN v
      PROVE  /\ F[c[k - 1]] = FieldHead(type.fields[k])
             /\ Lies(F, type.fields[k].type, v[type.fields[k].name], c[k - 1] + 1, c[k])
  <2> DEFINE f == type.fields[k]
             w == Write[f.type][v[f.name]]
  <2>1. f.type \in TypeSet /\ v[f.name] \in Objects(f.type) /\ FieldHead(f) \in Tokens
    BY <1>6, FieldsAre, ObjectsAre, TokensAre DEF n
  <2>2. w \in Seq(Tokens)
    BY <2>1, WriteType
  <2>3. s[k] = <<FieldHead(f)>> \o w
    BY <1>3, <1>6 DEF FieldFrom
  <2> HIDE DEF w, f
  <2>4. Stands(F, <<FieldHead(f)>> \o w, c[k - 1], c[k])
    BY <1>5, <2>3
  <2>5. F[c[k - 1]] = FieldHead(f) /\ Stands(F, w, c[k - 1] + 1, c[k])
    BY <2>1, <2>2, <2>4, StandsHead
  <2> QED
    BY <2>5 DEF Lies, w, f
<1>7. ASSUME NEW k \in 1..n, type.fields[k].name \notin DOMAIN v PROVE c[k] = c[k - 1]
  <2>1. s[k] = <<>>
    BY <1>3, <1>7 DEF FieldFrom
  <2>2. Stands(F, <<>>, c[k - 1], c[k])
    BY <1>5, <2>1
  <2> QED
    BY <2>2 DEF Stands
<1>8. RecordLies(F, type, v, p, q, c)
  BY <1>4, <1>5, <1>6, <1>7 DEF RecordLies, n
<1> QED
  BY <1>8

LEMMA LiesAsList ==
  ASSUME NEW F, Len(F) \in Nat, NEW type \in TypeSet, NEW v \in Objects(type), NEW p, NEW q,
         Lies(F, type, v, p, q), type.wire = "LIST"
  PROVE  \E c : ListLies(F, type, v, p, q, c)
<1> DEFINE s == ElementsFrom(Write, type, v)
           n == Len(v)
<1>1. s \in Seq(Seq(Tokens)) /\ n \in Nat /\ Len(s) = n
  <2>1. n \in Nat /\ s \in Seq(Seq(Tokens))
    BY ObjectsAre, WriteType
  <2> QED
    BY <2>1 DEF ElementsFrom
<1>2. Write[type][v] = <<ListHead(n)>> \o FlattenSeq(s)
  BY WriteAt DEF TokensFrom
<1>3. \A k \in 1..n : s[k] = Write[type.of][v[k]]
  BY DEF ElementsFrom
<1> HIDE DEF s
<1>4. F[p] = ListHead(n) /\ Stands(F, FlattenSeq(s), p + 1, q)
  <2>1. FlattenSeq(s) \in Seq(Tokens) /\ ListHead(n) \in Tokens
    BY <1>1, FlattenType, TokensAre
  <2>2. Stands(F, <<ListHead(n)>> \o FlattenSeq(s), p, q)
    BY <1>2 DEF Lies
  <2> HIDE DEF n
  <2> QED
    BY <2>1, <2>2, StandsHead
<1>5. PICK c \in [0..n -> p + 1..q] :
        /\ c[0] = p + 1 /\ c[n] = q
        /\ \A k \in 1..n : Stands(F, s[k], c[k - 1], c[k])
  BY <1>1, <1>4, StandsFlat
<1>6. ListLies(F, type, v, p, q, c)
  BY <1>3, <1>4, <1>5 DEF ListLies, Lies
<1> QED
  BY <1>6

LEMMA LiesAsValue ==
  ASSUME NEW F, Len(F) \in Nat, NEW type \in TypeSet, NEW v \in Objects(type), NEW p, NEW q,
         Lies(F, type, v, p, q), type.wire \notin {"STRUCT", "LIST"}
  PROVE  F[p] = Value(v) /\ q = p + 1
<1>1. Write[type][v] = <<Value(v)>>
  BY WriteAt DEF TokensFrom
<1>2. Len(<<Value(v)>>) = 1 /\ <<Value(v)>>[1] = Value(v) /\ 1 \in 1..1
  OBVIOUS
<1> DEFINE s == <<Value(v)>>
<1> HIDE DEF s
<1>3. Stands(F, s, p, q) /\ Len(s) = 1 /\ s[1] = Value(v)
  BY <1>1, <1>2 DEF Lies, s
<1>4. p \in Nat /\ q = p + 1 /\ F[p + 1 - 1] = Value(v)
  BY <1>3 DEF Stands
<1>5. p + 1 - 1 = p
  BY <1>4
<1> QED
  BY <1>4, <1>5

-----------------------------------------------------------------------------
(* skip() goes past what write() sent, as far as that arrived. *)

AfterFrom(h, in, q) ==
  [n \in Nat |-> IF n = 0 \/ q > Len(in) THEN q ELSE h[q + 1][n - 1 + Follow(in[q])]]

Skips(h, in) == h = [q \in 1..Len(in) + 1 |-> AfterFrom(h, in, q)]

LEMMA SkipIs ==
  ASSUME NEW in, Len(in) \in Nat
  PROVE  \E h : Skips(h, in) /\ \A p : Skip(in, p) = h[p][1]
<1> DEFINE L == Len(in)
           Fits(h, a) == h = [q \in a..L + 1 |-> AfterFrom(h, in, q)]
           T == {k \in Nat : k <= L => \E h : Fits(h, L + 1 - k)}
<1>1. 0 \in T
  <2> DEFINE h == [q \in L + 1..L + 1 |-> AfterFrom(0, in, q)]
  <2>1. \A q \in L + 1..L + 1 : q > L
    OBVIOUS
  <2>2. \A q \in L + 1..L + 1 : AfterFrom(h, in, q) = AfterFrom(0, in, q)
    <3> HIDE DEF h
    <3> QED
      BY <2>1 DEF AfterFrom
  <2>3. Fits(h, L + 1)
    BY <2>2
  <2>4. L + 1 - 0 = L + 1
    OBVIOUS
  <2> HIDE DEF Fits
  <2> QED
    BY <2>3, <2>4
<1>2. ASSUME NEW k \in Nat, k \in T PROVE k + 1 \in T
  <2> SUFFICES ASSUME k + 1 <= L PROVE \E h : Fits(h, L + 1 - (k + 1))
    OBVIOUS
  <2>1. PICK h : Fits(h, L + 1 - k)
    BY <1>2
  <2> DEFINE b == L + 1 - k
             a == L + 1 - (k + 1)
             g == [q \in a..L + 1 |-> IF q \in b..L + 1 THEN h[q] ELSE AfterFrom(h, in, q)]
  <2>2. a \in Nat /\ b = a + 1 /\ b \in 1..L + 1 /\ \A q \in a..L : q + 1 \in b..L + 1
    OBVIOUS
  <2> HIDE DEF a, b
  <2>3. \A q \in a..L + 1 : g[q] = AfterFrom(h, in, q)
    BY <2>1 DEF b
  <2>4. \A q \in b..L + 1 : g[q] = h[q]
    BY <2>2
  <2> HIDE DEF g
  <2>5. ASSUME NEW q \in a..L + 1 PROVE AfterFrom(g, in, q) = AfterFrom(h, in, q)
    <3>1. CASE q > L
      BY <3>1 DEF AfterFrom
    <3>2. CASE ~(q > L)
      <4>1. q \in a..L
        BY <2>2, <3>2
      <4>2. g[q + 1] = h[q + 1]
        BY <2>2, <2>4, <4>1
      <4> QED
        BY <4>2 DEF AfterFrom
    <3> QED
      BY <3>1, <3>2
  <2>6. g = [q \in a..L + 1 |-> g[q]]
    BY DEF g
  <2>7. Fits(g, a)
    BY <2>3, <2>5, <2>6
  <2> QED
    BY <2>7 DEF a
<1>3. Nat \subseteq T
  <2> HIDE DEF T
  <2> QED
    BY <1>1, <1>2, SetInduction
<1>4. \E h : Fits(h, 1)
  <2>1. L + 1 - L = 1
    OBVIOUS
  <2>2. \E h : Fits(h, L + 1 - L)
    BY <1>3
  <2> HIDE DEF Fits
  <2> QED
    BY <2>1, <2>2
<1>5. \A p : Skip(in, p) = (CHOOSE h : Skips(h, in))[p][1]
  BY Zenon DEF Skip, Skips, AfterFrom
<1>6. Skips(CHOOSE h : Skips(h, in), in)
  BY <1>4 DEF Skips
<1> QED
  BY <1>5, <1>6

\* The stream has the beginning of the file.
Begins(in, F) ==
  Len(F) \in Nat /\ Len(in) \in Nat /\ Len(in) <= Len(F) /\ \A k \in 1..Len(in) : in[k] = F[k]

\* A place in the file, or the end of the stream.
Clip(in, p) == IF p <= Len(in) + 1 THEN p ELSE Len(in) + 1

LEMMA SkipsToken ==
  ASSUME NEW F, NEW in, Begins(in, F), NEW h, Skips(h, in),
         NEW p \in 1..Len(F), Follow(F[p]) \in Nat, NEW n \in Nat
  PROVE  h[Clip(in, p)][n + 1] = h[Clip(in, p + 1)][n + Follow(F[p])]
<1>1. Len(in) \in Nat
  BY DEF Begins
<1>2. \A q \in 1..Len(in) + 1 :
        h[q] = [k \in Nat |-> IF k = 0 \/ q > Len(in) THEN q ELSE h[q + 1][k - 1 + Follow(in[q])]]
  BY DEF Skips, AfterFrom
<1>3. CASE p <= Len(in)
  <2>1. p \in 1..Len(in) + 1 /\ Clip(in, p) = p /\ Clip(in, p + 1) = p + 1 /\ in[p] = F[p] /\ ~(p > Len(in))
    BY <1>1, <1>3 DEF Clip, Begins
  <2>2. n + 1 \in Nat /\ n + 1 # 0 /\ n + 1 - 1 + Follow(F[p]) = n + Follow(F[p])
    OBVIOUS
  <2>3. \A k \in Nat : k # 0 => h[p][k] = h[p + 1][k - 1 + Follow(in[p])]
    BY <1>2, <2>1
  <2>4. h[p][n + 1] = h[p + 1][n + 1 - 1 + Follow(in[p])]
    BY <2>2, <2>3
  <2> QED
    BY <2>1, <2>2, <2>4
<1>4. CASE ~(p <= Len(in))
  <2> DEFINE e == Len(in) + 1
  <2>1. e \in 1..e /\ Clip(in, p) = e /\ Clip(in, p + 1) = e /\ e > Len(in)
    BY <1>1, <1>4 DEF Clip
  <2>2. \A k \in Nat : h[e][k] = e
    BY <1>2, <2>1
  <2>3. n + 1 \in Nat /\ n + Follow(F[p]) \in Nat
    OBVIOUS
  <2> HIDE DEF e
  <2> QED
    BY <2>1, <2>2, <2>3
<1> QED
  BY <1>3, <1>4

\* One value less to skip behind what a value of the type lies on.
SkipsType(F, in, h, type) ==
  \A v \in Objects(type) : \A p, q :
    Lies(F, type, v, p, q) => \A n \in Nat : h[Clip(in, p)][n + 1] = h[Clip(in, q)][n]

LEMMA SkipsRecord ==
  ASSUME NEW F, NEW in, Begins(in, F), NEW h, Skips(h, in), NEW type \in TypeSet,
         type.wire = "STRUCT", \A member \in MemberTypes(type) : SkipsType(F, in, h, member)
  PROVE  SkipsType(F, in, h, type)
<1> SUFFICES ASSUME NEW v \in Objects(type), NEW p, NEW q, Lies(F, type, v, p, q), NEW n \in Nat
             PROVE  h[Clip(in, p)][n + 1] = h[Clip(in, q)][n]
  BY DEF SkipsType
<1> DEFINE l == Len(type.fields)
<1>1. Len(F) \in Nat /\ l \in Nat
  BY FieldsAre DEF Begins
<1>2. PICK c : RecordLies(F, type, v, p, q, c)
  BY <1>1, LiesAsRecord
<1>3. p \in Nat /\ q \in Nat /\ 1 <= p /\ p < q /\ q <= Len(F) + 1
  BY <1>1, LiesWhere
<1> HIDE DEF l
<1>4. c \in [0..l -> p..q - 1] /\ c[0] = p /\ c[l] = q - 1 /\ F[q - 1] = Stop
  BY <1>2 DEF RecordLies, l
<1>5. ASSUME NEW k \in 1..l PROVE h[Clip(in, c[k - 1])][n + 1] = h[Clip(in, c[k])][n + 1]
  <2> DEFINE f == type.fields[k]
  <2>1. f.type \in MemberTypes(type) /\ f.name \in DOMAIN v => v[f.name] \in Objects(f.type)
    BY FieldsAre, ObjectsAre DEF l
  <2>2. f.type \in MemberTypes(type)
    BY FieldsAre DEF l
  <2>3. CASE f.name \in DOMAIN v
    <3>1. F[c[k - 1]] = FieldHead(f) /\ Lies(F, f.type, v[f.name], c[k - 1] + 1, c[k])
      BY <1>2, <2>3 DEF RecordLies, l
    <3>2. c[k - 1] \in 1..Len(F)
      BY <1>1, <1>3, <1>4
    <3>3. Follow(F[c[k - 1]]) = 2
      BY <3>1 DEF FieldHead, Follow
    <3>0. PICK a : a = c[k - 1]
      OBVIOUS
    <3>4. h[Clip(in, a)][n + 1] = h[Clip(in, a + 1)][n + 2]
      <4>1. a \in 1..Len(F) /\ Follow(F[a]) = 2 /\ Follow(F[a]) \in Nat
        BY <3>2, <3>3, <3>0
      <4>2. a \in 1..Len(F)
        BY <4>1
      <4>3. Follow(F[a]) \in Nat
        BY <4>1
      <4>4. h[Clip(in, a)][n + 1] = h[Clip(in, a + 1)][n + Follow(F[a])]
        BY <4>2, <4>3, SkipsToken
      <4> QED
        BY <4>1, <4>4
    <3>5. h[Clip(in, a + 1)][(n + 1) + 1] = h[Clip(in, c[k])][n + 1]
      <4>1. n + 1 \in Nat /\ SkipsType(F, in, h, f.type)
        BY <2>2
      <4>2. v[f.name] \in Objects(f.type)
        BY <2>1, <2>2, <2>3
      <4> HIDE DEF f
      <4> QED
        BY <3>1, <3>0, <4>1, <4>2 DEF SkipsType
    <3>6. n + 2 = (n + 1) + 1
      OBVIOUS
    <3> QED
      BY <3>0, <3>4, <3>5, <3>6
  <2>4. CASE f.name \notin DOMAIN v
    BY <1>2, <2>4 DEF RecordLies, l
  <2> QED
    BY <2>3, <2>4
<1> DEFINE T == {k \in Nat : k <= l => h[Clip(in, p)][n + 1] = h[Clip(in, c[k])][n + 1]}
<1>6. 0 \in T
  BY <1>4
<1>7. ASSUME NEW k \in Nat, k \in T PROVE k + 1 \in T
  <2> SUFFICES ASSUME k + 1 <= l PROVE h[Clip(in, p)][n + 1] = h[Clip(in, c[k + 1])][n + 1]
    OBVIOUS
  <2>1. k + 1 \in 1..l /\ (k + 1) - 1 = k /\ k <= l
    BY <1>1
  <2>2. h[Clip(in, c[k])][n + 1] = h[Clip(in, c[k + 1])][n + 1]
    BY <1>5, <2>1
  <2> QED
    BY <1>7, <2>1, <2>2
<1>8. Nat \subseteq T
  <2> HIDE DEF T
  <2> QED
    BY <1>6, <1>7, SetInduction
<1>9. h[Clip(in, p)][n + 1] = h[Clip(in, q - 1)][n + 1]
  BY <1>1, <1>4, <1>8
<1>10. h[Clip(in, q - 1)][n + 1] = h[Clip(in, q)][n]
  <2>1. q - 1 \in 1..Len(F) /\ (q - 1) + 1 = q /\ n + 0 = n
    BY <1>1, <1>3
  <2>2. Follow(F[q - 1]) = 0
    BY <1>4 DEF Stop, Follow
  <2>0. PICK r : r = q - 1
    OBVIOUS
  <2>3. h[Clip(in, r)][n + 1] = h[Clip(in, r + 1)][n + 0]
    <3>1. Follow(F[r]) = 0
      BY <2>2, <2>0
    <3>2. Follow(F[r]) \in Nat
      BY <3>1
    <3>3. r \in 1..Len(F)
      BY <2>1, <2>0
    <3>4. h[Clip(in, r)][n + 1] = h[Clip(in, r + 1)][n + Follow(F[r])]
      BY <3>2, <3>3, SkipsToken
    <3> QED
      BY <3>1, <3>4
  <2> QED
    BY <2>1, <2>3, <2>0
<1> QED
  BY <1>9, <1>10

LEMMA SkipsList ==
  ASSUME NEW F, NEW in, Begins(in, F), NEW h, Skips(h, in), NEW type \in TypeSet,
         type.wire = "LIST", \A member \in MemberTypes(type) : SkipsType(F, in, h, member)
  PROVE  SkipsType(F, in, h, type)
<1> SUFFICES ASSUME NEW v \in Objects(type), NEW p, NEW q, Lies(F, type, v, p, q), NEW n \in Nat
             PROVE  h[Clip(in, p)][n + 1] = h[Clip(in, q)][n]
  BY DEF SkipsType
<1> DEFINE l == Len(v)
<1>1. Len(F) \in Nat /\ l \in Nat
  BY ObjectsAre DEF Begins
<1>2. PICK c : ListLies(F, type, v, p, q, c)
  BY <1>1, LiesAsList
<1>3. p \in Nat /\ q \in Nat /\ 1 <= p /\ p < q /\ q <= Len(F) + 1
  BY <1>1, LiesWhere
<1>4. /\ c \in [0..l -> p + 1..q] /\ c[0] = p + 1 /\ c[l] = q /\ F[p] = ListHead(l)
      /\ \A k \in 1..l : Lies(F, type.of, v[k], c[k - 1], c[k])
  BY <1>2 DEF ListLies
<1> HIDE DEF l
<1>5. h[Clip(in, p)][n + 1] = h[Clip(in, p + 1)][n + l]
  <2>1. Follow(F[p]) = l
    BY <1>4 DEF ListHead, Follow
  <2>2. p \in 1..Len(F)
    BY <1>1, <1>3
  <2>3. Follow(F[p]) \in Nat
    BY <1>1, <2>1
  <2>4. h[Clip(in, p)][n + 1] = h[Clip(in, p + 1)][n + Follow(F[p])]
    BY <2>2, <2>3, SkipsToken
  <2> QED
    BY <2>1, <2>4
<1>6. ASSUME NEW k \in 1..l
      PROVE  h[Clip(in, c[k - 1])][(n + (l - k)) + 1] = h[Clip(in, c[k])][n + (l - k)]
  <2>1. SkipsType(F, in, h, type.of) /\ v[k] \in Objects(type.of)
    BY MembersAre, ObjectsAre DEF l
  <2>2. n + (l - k) \in Nat
    BY <1>1
  <2>3. Lies(F, type.of, v[k], c[k - 1], c[k])
    BY <1>4
  <2> DEFINE j == n + (l - k)
  <2> HIDE DEF j
  <2>4. h[Clip(in, c[k - 1])][j + 1] = h[Clip(in, c[k])][j]
    BY <2>1, <2>2, <2>3 DEF SkipsType, j
  <2> QED
    BY <2>4 DEF j
<1> DEFINE T == {k \in Nat : k <= l => h[Clip(in, p)][n + 1] = h[Clip(in, c[k])][n + (l - k)]}
<1>7. 0 \in T
  <2>1. l - 0 = l
    BY <1>1
  <2> QED
    BY <1>4, <1>5, <2>1
<1>8. ASSUME NEW k \in Nat, k \in T PROVE k + 1 \in T
  <2> SUFFICES ASSUME k + 1 <= l
               PROVE  h[Clip(in, p)][n + 1] = h[Clip(in, c[k + 1])][n + (l - (k + 1))]
    OBVIOUS
  <2>1. k + 1 \in 1..l /\ (k + 1) - 1 = k /\ k <= l /\ (n + (l - (k + 1))) + 1 = n + (l - k)
    BY <1>1
  <2>2. h[Clip(in, c[(k + 1) - 1])][(n + (l - (k + 1))) + 1] = h[Clip(in, c[k + 1])][n + (l - (k + 1))]
    BY <1>6, <2>1
  <2>3. h[Clip(in, p)][n + 1] = h[Clip(in, c[k])][n + (l - k)]
    BY <1>8, <2>1
  <2> QED
    BY <2>1, <2>2, <2>3
<1>9. Nat \subseteq T
  <2> HIDE DEF T
  <2> QED
    BY <1>7, <1>8, SetInduction
<1>10. n + (l - l) = n
  BY <1>1
<1> QED
  BY <1>1, <1>4, <1>9, <1>10

LEMMA SkipsAny ==
  ASSUME NEW F, NEW in, Begins(in, F), NEW h, Skips(h, in)
  PROVE  \A type \in TypeSet : SkipsType(F, in, h, type)
<1> DEFINE S == {type \in TypeSet : SkipsType(F, in, h, type)}
<1>1. ASSUME NEW type \in TypeSet, MemberTypes(type) \subseteq S PROVE type \in S
  <2>1. CASE type.wire = "STRUCT"
    BY <1>1, <2>1, SkipsRecord
  <2>2. CASE type.wire = "LIST"
    BY <1>1, <2>2, SkipsList
  <2>3. CASE type.wire \notin {"STRUCT", "LIST"}
    <3> SUFFICES ASSUME NEW v \in Objects(type), NEW p, NEW q, Lies(F, type, v, p, q), NEW n \in Nat
                 PROVE  h[Clip(in, p)][n + 1] = h[Clip(in, q)][n]
      BY DEF SkipsType
    <3>1. Len(F) \in Nat
      BY DEF Begins
    <3>2. F[p] = Value(v) /\ q = p + 1
      BY <2>3, <3>1, LiesAsValue
    <3>3. p \in 1..Len(F)
      BY <3>1, LiesWhere
    <3>4. Follow(F[p]) = 0
      BY <3>2 DEF Value, Follow
    <3>5. Follow(F[p]) \in Nat /\ n + 0 = n
      BY <3>4
    <3>6. h[Clip(in, p)][n + 1] = h[Clip(in, p + 1)][n + Follow(F[p])]
      BY <3>3, <3>5, SkipsToken
    <3> QED
      BY <3>2, <3>4, <3>5, <3>6
  <2> QED
    BY <2>1, <2>2, <2>3
<1>2. TypeSet \subseteq S
  <2> HIDE DEF S
  <2> QED
    BY <1>1, TypeInduction
<1> QED
  BY <1>2

\* What skip() is called on: a value of any type, the head of which arrived.
LEMMA SkipEnds ==
  ASSUME NEW F, NEW in, Begins(in, F), NEW type \in TypeSet, NEW v \in Objects(type), NEW p, NEW q,
         Lies(F, type, v, p, q), p <= Len(in) + 1
  PROVE  Skip(in, p) = Clip(in, q)
<1>1. Len(in) \in Nat /\ Len(F) \in Nat
  BY DEF Begins
<1>2. PICK h : Skips(h, in) /\ \A r : Skip(in, r) = h[r][1]
  BY <1>1, SkipIs
<1>3. p \in Nat /\ 1 <= p /\ p < q /\ q \in Nat
  BY <1>1, LiesWhere
<1>4. h[Clip(in, p)][0 + 1] = h[Clip(in, q)][0]
  <2>1. SkipsType(F, in, h, type) /\ 0 \in Nat
    BY <1>2, SkipsAny
  <2> QED
    BY <2>1 DEF SkipsType
<1>5. Clip(in, q) \in 1..Len(in) + 1
  BY <1>1, <1>3 DEF Clip
<1>6. h[Clip(in, q)][0] = Clip(in, q)
  BY <1>2, <1>5 DEF Skips, AfterFrom
<1>7. Clip(in, p) = p /\ 0 + 1 = 1
  BY <1>1, <1>3 DEF Clip
<1> QED
  BY <1>2, <1>4, <1>6, <1>7

-----------------------------------------------------------------------------
(* Fields of a reader and of a writer. *)

LEMMA FieldsDiffer ==
  ASSUME NEW type \in TypeSet, type.wire = "STRUCT",
         NEW i \in DOMAIN type.fields, NEW j \in DOMAIN type.fields,
         \/ type.fields[i].id = type.fields[j].id
         \/ type.fields[i].name = type.fields[j].name
  PROVE  i = j
BY TypesAssumption DEF TypesAssumption

LEMMA FieldNamedIs ==
  ASSUME NEW type \in TypeSet, type.wire = "STRUCT", NEW i \in DOMAIN type.fields
  PROVE  type.fields[i].name \in FieldNames(type) /\ FieldNamed(type, type.fields[i].name) = type.fields[i]
<1>1. type.fields[i].name \in FieldNames(type)
  BY DEF FieldNames
<1>2. PICK k \in DOMAIN type.fields :
        FieldNamed(type, type.fields[i].name) = type.fields[k] /\ type.fields[k].name = type.fields[i].name
  BY <1>1, NamedField
<1>3. k = i
  BY <1>2, FieldsDiffer
<1> QED
  BY <1>1, <1>2, <1>3

\* A field is sent by one field and read as one.
LEMMA SentOnce ==
  ASSUME NEW type \in TypeSet, type.wire = "STRUCT", NEW f, NEW v,
         NEW s \in SentAs(f, type, v), NEW t \in SentAs(f, type, v)
  PROVE  s = t
<1>1. /\ s \in DOMAIN type.fields /\ t \in DOMAIN type.fields
      /\ type.fields[s].id = type.fields[t].id
  BY DEF SentAs, Meets
<1> QED
  BY <1>1, FieldsDiffer

LEMMA ReadOnce ==
  ASSUME NEW type \in TypeSet, type.wire = "STRUCT", NEW w, NEW v,
         NEW i \in DOMAIN type.fields, NEW j \in DOMAIN type.fields,
         NEW s \in SentAs(type.fields[i], w, v), s \in SentAs(type.fields[j], w, v)
  PROVE  i = j
<1>1. type.fields[i].id = type.fields[j].id
  BY DEF SentAs, Meets
<1> QED
  BY <1>1, FieldsDiffer

\* What is sent of a field is an object of the type that sends it.
LEMMA SentAre ==
  ASSUME NEW type \in TypeSet, type.wire = "STRUCT", NEW v \in Objects(type), NEW f,
         NEW s \in SentAs(f, type, v)
  PROVE  /\ s \in 1..Len(type.fields) /\ type.fields[s].name \in DOMAIN v
         /\ v[type.fields[s].name] \in Objects(type.fields[s].type)
<1>1. s \in DOMAIN type.fields /\ type.fields[s].name \in DOMAIN v
  BY DEF SentAs
<1> QED
  BY <1>1, FieldsAre, ObjectsAre

-----------------------------------------------------------------------------
(* What a call of read() has before it read the fields that follow the      *)
(* first n that were sent.                                                  *)

Seen(r, w, v, n) == {name \in FieldNames(r) : \E s \in SentAs(FieldNamed(r, name), w, v) : s <= n}

Got(r, w, v, old, name) ==
  LET f == FieldNamed(r, name)
      g == w.fields[CHOOSE s \in SentAs(f, w, v) : TRUE]
  IN  Understood[<<f.type, g.type>>][v[g.name]]
        [IF name \in DOMAIN old THEN old[name] ELSE New[f.type]]

SoFar(r, w, v, old, n) == Over([name \in Seen(r, w, v, n) |-> Got(r, w, v, old, name)], old)

ReadSoFar(r, w, v, n) ==
  \A i \in DOMAIN r.fields : \A s \in SentAs(r.fields[i], w, v) :
    s <= n => Readable[<<r.fields[i].type, w.fields[s].type>>][v[w.fields[s].name]]

LEMMA UnderstoodTold ==
  ASSUME NEW m \in Versions, NEW v \in Objects(m[2]), NEW old \in Objects(m[1])
  PROVE  Understood[m][v][old] = UnderstoodFrom(Understood, m, v, old)
<1>1. Understood[m] = UnderstoodAt(Understood, m)
  BY UnderstoodIs
<1>2. UnderstoodAt(Understood, m)[v] = [o \in Objects(m[1]) |-> UnderstoodFrom(Understood, m, v, o)]
  BY DEF UnderstoodAt
<1>3. [o \in Objects(m[1]) |-> UnderstoodFrom(Understood, m, v, o)][old]
        = UnderstoodFrom(Understood, m, v, old)
  OBVIOUS
<1> QED
  BY <1>1, <1>2, <1>3

LEMMA UnderstoodRecord ==
  ASSUME NEW m \in Versions, m[1].wire = "STRUCT", NEW v \in Objects(m[2]), NEW old \in Objects(m[1])
  PROVE  Understood[m][v][old] = Over([name \in Came(m[1], m[2], v) |-> Got(m[1], m[2], v, old, name)], old)
<1>1. Understood[m][v][old] = UnderstoodFrom(Understood, m, v, old)
  BY UnderstoodTold
<1> QED
  BY <1>1 DEF UnderstoodFrom, Got

LEMMA UnderstoodList ==
  ASSUME NEW m \in Versions, m[1].wire = "LIST", NEW v \in Objects(m[2]), NEW old \in Objects(m[1])
  PROVE  Understood[m][v][old] = [k \in 1..Len(v) |-> Understood[<<m[1].of, m[2].of>>][v[k]][New[m[1].of]]]
<1>1. Understood[m][v][old] = UnderstoodFrom(Understood, m, v, old)
  BY UnderstoodTold
<1>2. DOMAIN v = 1..Len(v)
  BY VersionsAre, ObjectsAre
<1> QED
  BY <1>1, <1>2 DEF UnderstoodFrom

LEMMA UnderstoodValue ==
  ASSUME NEW m \in Versions, m[1].wire \notin {"STRUCT", "LIST"}, NEW v \in Objects(m[2]), NEW old \in Objects(m[1])
  PROVE  Understood[m][v][old] = v
<1>1. Understood[m][v][old] = UnderstoodFrom(Understood, m, v, old)
  BY UnderstoodTold
<1> QED
  BY <1>1 DEF UnderstoodFrom

LEMMA ReadableRecord ==
  ASSUME NEW m \in Versions, m[1].wire = "STRUCT", NEW v \in Objects(m[2])
  PROVE  Readable[m][v] <=>
           \A i \in DOMAIN m[1].fields :
             /\ m[1].fields[i].req => SentAs(m[1].fields[i], m[2], v) # {}
             /\ \A s \in SentAs(m[1].fields[i], m[2], v) :
                  Readable[<<m[1].fields[i].type, m[2].fields[s].type>>][v[m[2].fields[s].name]]
<1>1. Readable[m][v] = ReadableFrom(Readable, m, v)
  BY ReadableIs DEF ReadableAt
<1>2. ReadableFrom(Readable, m, v) <=>
        \A i \in DOMAIN m[1].fields : FieldReads(Readable, m[1].fields[i], m[2], v)
  BY DEF ReadableFrom
<1> QED
  BY <1>1, <1>2, Zenon DEF FieldReads

LEMMA ReadableList ==
  ASSUME NEW m \in Versions, m[1].wire = "LIST", NEW v \in Objects(m[2])
  PROVE  Readable[m][v] <=> \A k \in 1..Len(v) : Readable[<<m[1].of, m[2].of>>][v[k]]
<1>1. Readable[m][v] = ReadableFrom(Readable, m, v)
  BY ReadableIs DEF ReadableAt
<1>2. DOMAIN v = 1..Len(v)
  BY VersionsAre, ObjectsAre
<1> QED
  BY <1>1, <1>2 DEF ReadableFrom

LEMMA ReadableValue ==
  ASSUME NEW m \in Versions, m[1].wire \notin {"STRUCT", "LIST"}, NEW v \in Objects(m[2])
  PROVE  Readable[m][v]
<1>1. Readable[m][v] = ReadableFrom(Readable, m, v)
  BY ReadableIs DEF ReadableAt
<1> QED
  BY <1>1 DEF ReadableFrom

-----------------------------------------------------------------------------
(* A call of read() in progress, and what it is reading: the object of the  *)
(* writer, where its members end in the file, and how many of them are      *)
(* done.                                                                    *)

Sender(type, obj, old, cuts, done, end) ==
  [type |-> type, obj |-> obj, old |-> old, cuts |-> cuts, done |-> done, end |-> end]

DoneTo(g, n) == Sender(g.type, g.obj, g.old, g.cuts, n, g.end)

\* The versions that meet in a call, and what is read into.
CallOK(fr, g) ==
  /\ <<fr.type, g.type>> \in Versions
  /\ g.obj \in Objects(g.type) /\ g.old \in Objects(fr.type)

RecordOK(F, fr, g) ==
  /\ fr.type.wire = "STRUCT" /\ CallOK(fr, g)
  /\ 1 <= g.cuts[0] /\ RecordLies(F, g.type, g.obj, g.cuts[0], g.end, g.cuts)
  /\ g.done \in 0..Len(g.type.fields)
  /\ fr = [type |-> fr.type, obj |-> SoFar(fr.type, g.type, g.obj, g.old, g.done),
           seen |-> Seen(fr.type, g.type, g.obj, g.done), at |-> fr.at]
  /\ ReadSoFar(fr.type, g.type, g.obj, g.done)
  /\ fr.at # 0 => /\ fr.at \in DOMAIN fr.type.fields
                  /\ g.done + 1 \in SentAs(fr.type.fields[fr.at], g.type, g.obj)

ListOK(F, fr, g) ==
  /\ fr.type.wire = "LIST" /\ CallOK(fr, g)
  /\ g.cuts \in [0..Len(g.obj) -> 1..g.end] /\ g.cuts[Len(g.obj)] = g.end
  /\ \A k \in 1..Len(g.obj) : Lies(F, g.type.of, g.obj[k], g.cuts[k - 1], g.cuts[k])
  /\ g.done \in 0..Len(g.obj)
  /\ fr = [type |-> fr.type, left |-> Len(g.obj) - g.done,
           items |-> [k \in 1..g.done |->
                        Understood[<<fr.type.of, g.type.of>>][g.obj[k]][New[fr.type.of]]]]
  /\ \A k \in 1..g.done : Readable[<<fr.type.of, g.type.of>>][g.obj[k]]

FrameOK(F, fr, g) == g.end \in Nat /\ g.end <= Len(F) + 1 /\ (RecordOK(F, fr, g) \/ ListOK(F, fr, g))

\* What the call is about to read, if it is about to read a value.
Asks(fr) == IF fr.type.wire = "STRUCT" THEN fr.at # 0 ELSE fr.left > 0

SentType(g)  == IF g.type.wire = "STRUCT" THEN g.type.fields[g.done + 1].type ELSE g.type.of
SentValue(g) == IF g.type.wire = "STRUCT" THEN g.obj[g.type.fields[g.done + 1].name] ELSE g.obj[g.done + 1]

MemberOf(fr) ==
  IF fr.type.wire = "STRUCT" /\ fr.type.fields[fr.at].name \in DOMAIN fr.obj
  THEN fr.obj[fr.type.fields[fr.at].name] ELSE New[WantedBy(fr)]

\* Where in the file the call is.
ReadAt(fr, g) ==
  IF fr.type.wire = "STRUCT" /\ fr.at # 0 THEN g.cuts[g.done] + 1 ELSE g.cuts[g.done]

\* What may be read was sent by a version that meets the one it is read as,
\* and stands where the call is.
AskOK(F, fr, g) ==
  /\ <<WantedBy(fr), SentType(g)>> \in Versions
  /\ SentValue(g) \in Objects(SentType(g))
  /\ MemberOf(fr) \in Objects(WantedBy(fr))
  /\ Lies(F, SentType(g), SentValue(g), ReadAt(fr, g), g.cuts[g.done + 1])
  /\ g.cuts[g.done + 1] <= g.end
  /\ Readable[<<fr.type, g.type>>][g.obj] => Readable[<<WantedBy(fr), SentType(g)>>][SentValue(g)]

LEMMA RecordAsks ==
  ASSUME NEW F, Len(F) \in Nat, NEW fr, NEW g, FrameOK(F, fr, g), RecordOK(F, fr, g), Asks(fr)
  PROVE  /\ AskOK(F, fr, g)
         /\ LET name == fr.type.fields[fr.at].name
            IN  MemberOf(fr) = IF name \in DOMAIN g.old THEN g.old[name] ELSE New[WantedBy(fr)]
<1> DEFINE m == <<fr.type, g.type>>
           i == fr.at
           s == g.done + 1
           n == Len(g.type.fields)
           f == fr.type.fields[i]
           w == g.type.fields[s]
<1>1. /\ fr.type.wire = "STRUCT" /\ i \in DOMAIN fr.type.fields
      /\ s \in SentAs(f, g.type, g.obj)
      /\ m \in Versions /\ g.obj \in Objects(g.type) /\ g.old \in Objects(fr.type)
  BY DEF RecordOK, Asks, CallOK
<1>2. fr.type \in TypeSet /\ g.type \in TypeSet /\ g.type.wire = "STRUCT" /\ m[1] = fr.type /\ m[2] = g.type
  BY <1>1, VersionsAre
<1>3. /\ n \in Nat /\ s \in 1..n /\ w.name \in DOMAIN g.obj /\ g.obj[w.name] \in Objects(w.type)
      /\ w.type \in TypeSet
  BY <1>1, <1>2, SentAre, FieldsAre
<1>4. WantedBy(fr) = f.type /\ SentType(g) = w.type /\ SentValue(g) = g.obj[w.name]
  BY <1>1, <1>2 DEF WantedBy, SentType, SentValue
<1>5. <<f.type, w.type>> \in Versions
  BY <1>1, <1>2, VersionsAre
<1>6. f.name \notin Seen(fr.type, g.type, g.obj, g.done)
  <2> SUFFICES ASSUME NEW t \in SentAs(FieldNamed(fr.type, f.name), g.type, g.obj), t <= g.done PROVE FALSE
    BY DEF Seen
  <2>1. FieldNamed(fr.type, f.name) = f
    BY <1>1, <1>2, FieldNamedIs
  <2>2. t = s
    BY <1>1, <1>2, <2>1, SentOnce
  <2>3. g.done \in Nat
    BY <1>3 DEF RecordOK
  <2> QED
    BY <2>2, <2>3
<1>7. fr.obj = SoFar(fr.type, g.type, g.obj, g.old, g.done)
  BY DEF RecordOK
<1>8. MemberOf(fr) = IF f.name \in DOMAIN g.old THEN g.old[f.name] ELSE New[f.type]
  <2>1. f.name \in DOMAIN fr.obj <=> f.name \in DOMAIN g.old
    BY <1>6, <1>7 DEF SoFar, Over
  <2>2. f.name \in DOMAIN g.old => fr.obj[f.name] = g.old[f.name]
    BY <1>6, <1>7 DEF SoFar, Over
  <2> QED
    BY <1>1, <1>4, <2>1, <2>2 DEF MemberOf
<1>9. MemberOf(fr) \in Objects(f.type)
  <2>1. f.type \in TypeSet /\ (f.name \in DOMAIN g.old => g.old[f.name] \in Objects(f.type))
    BY <1>1, <1>2, FieldsAre, ObjectsAre
  <2> QED
    BY <1>8, <2>1, NewIsObject
<1>10. RecordLies(F, g.type, g.obj, g.cuts[0], g.end, g.cuts)
  BY DEF RecordOK
<1>11. (s - 1 = g.done) /\ s \in 0..n
  BY <1>3 DEF RecordOK
<1>12. Lies(F, w.type, g.obj[w.name], g.cuts[g.done] + 1, g.cuts[s]) /\ g.cuts[s] \in g.cuts[0]..g.end - 1
  <2> HIDE DEF s
  <2>1. Lies(F, w.type, g.obj[w.name], g.cuts[s - 1] + 1, g.cuts[s]) /\ g.cuts[s] \in g.cuts[0]..g.end - 1
    BY <1>3, <1>10, <1>11 DEF RecordLies
  <2> QED
    BY <1>11, <2>1
<1>13. ReadAt(fr, g) = g.cuts[g.done] + 1
  BY <1>1 DEF ReadAt, Asks
<1>14. g.cuts[s] <= g.end
  <2>1. g.end \in Nat
    BY DEF FrameOK
  <2> HIDE DEF s
  <2> QED
    BY <1>12, <2>1
<1>15. Readable[m][g.obj] => Readable[<<f.type, w.type>>][g.obj[w.name]]
  BY <1>1, <1>2, ReadableRecord
<1> QED
  BY <1>3, <1>4, <1>5, <1>8, <1>9, <1>12, <1>13, <1>14, <1>15 DEF AskOK

LEMMA ListAsks ==
  ASSUME NEW F, Len(F) \in Nat, NEW fr, NEW g, FrameOK(F, fr, g), ListOK(F, fr, g), Asks(fr)
  PROVE  AskOK(F, fr, g) /\ MemberOf(fr) = New[fr.type.of] /\ g.done + 1 \in 1..Len(g.obj)
<1> DEFINE m == <<fr.type, g.type>>
           s == g.done + 1
<1>1. /\ fr.type.wire = "LIST" /\ m \in Versions
      /\ g.obj \in Objects(g.type) /\ g.old \in Objects(fr.type)
  BY DEF ListOK, CallOK
<1>2. fr.type \in TypeSet /\ g.type \in TypeSet /\ g.type.wire = "LIST" /\ m[1] = fr.type /\ m[2] = g.type
  BY <1>1, VersionsAre
<1>3. Len(g.obj) \in Nat /\ \A k \in 1..Len(g.obj) : g.obj[k] \in Objects(g.type.of)
  BY <1>1, <1>2, ObjectsAre
<1>4. fr.left = Len(g.obj) - g.done /\ g.done \in 0..Len(g.obj)
  BY DEF ListOK
<1>5. s \in 1..Len(g.obj) /\ s - 1 = g.done /\ s \in 0..Len(g.obj)
  BY <1>1, <1>3, <1>4 DEF Asks
<1>6. WantedBy(fr) = fr.type.of /\ SentType(g) = g.type.of /\ SentValue(g) = g.obj[s]
  BY <1>1, <1>2 DEF WantedBy, SentType, SentValue
<1>7. <<fr.type.of, g.type.of>> \in Versions /\ fr.type.of \in TypeSet
  BY <1>1, <1>2, VersionsAre, MembersInTypeSet
<1>8. MemberOf(fr) = New[fr.type.of] /\ MemberOf(fr) \in Objects(fr.type.of)
  BY <1>1, <1>6, <1>7, NewIsObject DEF MemberOf
<1> HIDE DEF s
<1>9. Lies(F, g.type.of, g.obj[s], g.cuts[g.done], g.cuts[s]) /\ g.cuts[s] \in 1..g.end
  <2>1. Lies(F, g.type.of, g.obj[s], g.cuts[s - 1], g.cuts[s]) /\ g.cuts[s] \in 1..g.end
    BY <1>5 DEF ListOK
  <2> QED
    BY <1>5, <2>1
<1>10. g.cuts[s] <= g.end
  <2>1. g.end \in Nat
    BY DEF FrameOK
  <2> QED
    BY <1>9, <2>1
<1>11. ReadAt(fr, g) = g.cuts[g.done]
  BY <1>1 DEF ReadAt
<1>12. Readable[m][g.obj] => Readable[<<fr.type.of, g.type.of>>][g.obj[s]]
  BY <1>1, <1>2, <1>5, ReadableList
<1> QED
  BY <1>3, <1>5, <1>6, <1>7, <1>8, <1>9, <1>10, <1>11, <1>12 DEF AskOK, s

LEMMA FrameAsks ==
  ASSUME NEW F, Len(F) \in Nat, NEW fr, NEW g, FrameOK(F, fr, g), Asks(fr)
  PROVE  AskOK(F, fr, g)
BY RecordAsks, ListAsks DEF FrameOK

\* The field that is read is one more that came.
LEMMA SeenGrows ==
  ASSUME NEW F, NEW fr, NEW g, RecordOK(F, fr, g), fr.at # 0
  PROVE  Seen(fr.type, g.type, g.obj, g.done + 1)
           = Seen(fr.type, g.type, g.obj, g.done) \cup {fr.type.fields[fr.at].name}
<1> DEFINE r == fr.type
           n == g.done
           i == fr.at
           sent(f) == SentAs(f, g.type, g.obj)
<1>1. r \in TypeSet /\ r.wire = "STRUCT" /\ i \in DOMAIN r.fields /\ n + 1 \in sent(r.fields[i])
  <2>1. <<r, g.type>> \in Versions
    BY DEF RecordOK, CallOK
  <2>2. r \in TypeSet
    BY <2>1, VersionsAre
  <2> QED
    BY <2>2 DEF RecordOK
<1>2. n \in Nat /\ \A f : \A t \in sent(f) : t \in Nat
  <2>1. <<r, g.type>> \in Versions /\ g.obj \in Objects(g.type)
    BY DEF RecordOK, CallOK
  <2>2. g.type \in TypeSet /\ g.type.wire = "STRUCT"
    BY <1>1, <2>1, VersionsAre
  <2>3. ASSUME NEW f, NEW t \in sent(f) PROVE t \in Nat
    <3>1. t \in 1..Len(g.type.fields)
      BY <2>1, <2>2, SentAre
    <3> QED
      BY <3>1
  <2>4. n \in Nat
    BY DEF RecordOK
  <2> QED
    BY <2>3, <2>4
<1>3. ASSUME NEW name \in Seen(r, g.type, g.obj, n + 1), name \notin Seen(r, g.type, g.obj, n)
      PROVE  name = r.fields[i].name
  <2>1. PICK t \in sent(FieldNamed(r, name)) : t <= n + 1
    BY <1>3 DEF Seen
  <2>2. name \in FieldNames(r)
    BY DEF Seen
  <2>3. ~(t <= n)
    BY <1>3, <2>1, <2>2 DEF Seen
  <2>4. t = n + 1
    BY <1>2, <2>1, <2>3
  <2>5. PICK j \in DOMAIN r.fields : FieldNamed(r, name) = r.fields[j] /\ r.fields[j].name = name
    BY <2>2, NamedField
  <2>6. t \in sent(r.fields[i]) /\ t \in sent(r.fields[j])
    BY <1>1, <2>1, <2>4, <2>5
  <2>7. i = j
    BY <1>1, <2>6, ReadOnce
  <2> QED
    BY <2>5, <2>7
<1>4. Seen(r, g.type, g.obj, n) \subseteq Seen(r, g.type, g.obj, n + 1)
  <2>1. ASSUME NEW f, NEW t \in sent(f), t <= n PROVE t <= n + 1
    <3>1. t \in Nat
      BY <1>2
    <3> QED
      BY <1>2, <2>1, <3>1
  <2> QED
    BY <2>1 DEF Seen
<1>5. r.fields[i].name \in Seen(r, g.type, g.obj, n + 1)
  <2>1. r.fields[i].name \in FieldNames(r) /\ FieldNamed(r, r.fields[i].name) = r.fields[i]
    BY <1>1, FieldNamedIs
  <2> QED
    BY <1>1, <1>2, <2>1 DEF Seen
<1> QED
  BY <1>3, <1>4, <1>5

\* Records but for some of their fields.
LEMMA RecordFrameExcept ==
  ASSUME NEW a, NEW b, NEW c, NEW d, NEW p, NEW q, NEW r
  PROVE  [[type |-> a, obj |-> b, seen |-> c, at |-> d] EXCEPT !.obj = p, !.seen = q, !.at = r]
           = [type |-> a, obj |-> p, seen |-> q, at |-> r]
<1> DEFINE u == [[type |-> a, obj |-> b, seen |-> c, at |-> d] EXCEPT !.obj = p, !.seen = q, !.at = r]
           v == [type |-> a, obj |-> p, seen |-> q, at |-> r]
           names == {"type", "obj", "seen", "at"}
<1>1. DOMAIN u = names /\ u = [x \in DOMAIN u |-> u[x]]
  OBVIOUS
<1>2. DOMAIN v = names /\ v = [x \in DOMAIN v |-> v[x]]
  OBVIOUS
<1>3. u.type = v.type /\ u.obj = v.obj /\ u.seen = v.seen /\ u.at = v.at
  OBVIOUS
<1> HIDE DEF u, v
<1>4. u = v
  BY <1>1, <1>2, <1>3
<1> QED
  BY <1>4 DEF u, v

LEMMA ListFrameExcept ==
  ASSUME NEW a, NEW b, NEW c, NEW p, NEW q
  PROVE  [[type |-> a, left |-> b, items |-> c] EXCEPT !.left = p, !.items = q]
           = [type |-> a, left |-> p, items |-> q]
<1>1. [[type |-> a, left |-> b, items |-> c] EXCEPT !.left = p] = [type |-> a, left |-> p, items |-> c]
  OBVIOUS
<1>2. [[type |-> a, left |-> p, items |-> c] EXCEPT !.items = q] = [type |-> a, left |-> p, items |-> q]
  OBVIOUS
<1> QED
  BY <1>1, <1>2

LEMMA RecordStores ==
  ASSUME NEW F, Len(F) \in Nat, NEW fr, NEW g, FrameOK(F, fr, g), RecordOK(F, fr, g), Asks(fr), NEW x,
         x = Understood[<<WantedBy(fr), SentType(g)>>][SentValue(g)][MemberOf(fr)],
         Readable[<<WantedBy(fr), SentType(g)>>][SentValue(g)]
  PROVE  /\ FrameOK(F, Store(fr, x), DoneTo(g, g.done + 1))
         /\ Store(fr, x).type = fr.type /\ ReadAt(Store(fr, x), DoneTo(g, g.done + 1)) = g.cuts[g.done + 1]
<1> DEFINE m == <<fr.type, g.type>>
           i == fr.at
           s == g.done + 1
           n == Len(g.type.fields)
           f == fr.type.fields[i]
           w == g.type.fields[s]
           old == g.old
<1>1. /\ fr.type.wire = "STRUCT" /\ i \in DOMAIN fr.type.fields
      /\ s \in SentAs(f, g.type, g.obj)
      /\ m \in Versions /\ g.obj \in Objects(g.type) /\ g.old \in Objects(fr.type)
  BY DEF RecordOK, Asks, CallOK
<1>2. fr.type \in TypeSet /\ g.type \in TypeSet /\ g.type.wire = "STRUCT"
  <2>1. m[1] = fr.type /\ m[2] = g.type
    OBVIOUS
  <2> QED
    BY <1>1, <2>1, VersionsAre
<1>3. n \in Nat /\ s \in 1..n
  BY <1>1, <1>2, SentAre, FieldsAre
<1>4. g.done \in Nat /\ g.done < s /\ \A t \in Nat : t <= s <=> t <= g.done \/ t = s
  BY <1>3 DEF RecordOK
<1>5. WantedBy(fr) = f.type /\ SentType(g) = w.type /\ SentValue(g) = g.obj[w.name]
  BY <1>1, <1>2 DEF WantedBy, SentType, SentValue
<1>6. MemberOf(fr) = IF f.name \in DOMAIN old THEN old[f.name] ELSE New[f.type]
  BY <1>5, RecordAsks
<1>7. Seen(fr.type, g.type, g.obj, s) = Seen(fr.type, g.type, g.obj, g.done) \cup {f.name}
  <2>1. fr.at # 0
    BY <1>1 DEF Asks
  <2> QED
    BY <2>1, SeenGrows
<1>8. Got(fr.type, g.type, g.obj, old, f.name) = x
  <2>1. FieldNamed(fr.type, f.name) = f
    BY <1>1, <1>2, FieldNamedIs
  <2>2. (CHOOSE t \in SentAs(f, g.type, g.obj) : TRUE) = s
    <3>1. (CHOOSE t \in SentAs(f, g.type, g.obj) : TRUE) \in SentAs(f, g.type, g.obj)
      BY <1>1
    <3> QED
      BY <1>1, <1>2, <3>1, SentOnce
  <2> QED
    BY <1>5, <1>6, <2>1, <2>2 DEF Got
<1> DEFINE A == Seen(fr.type, g.type, g.obj, g.done)
           B == Seen(fr.type, g.type, g.obj, s)
           got(name) == Got(fr.type, g.type, g.obj, old, name)
           obj == Over([name \in {f.name} |-> x], SoFar(fr.type, g.type, g.obj, old, g.done))
<1>9. obj = SoFar(fr.type, g.type, g.obj, old, s)
  <2>1. B = A \cup {f.name} /\ got(f.name) = x
    BY <1>7, <1>8
  <2> HIDE DEF A, B, got, f, old
  <2>2. Over([name \in {f.name} |-> x], Over([name \in A |-> got(name)], old)) = Over([name \in B |-> got(name)], old)
    BY <2>1 DEF Over
  <2> QED
    BY <2>2 DEF SoFar, A, B, got
<1>10. Store(fr, x) = [type |-> fr.type, obj |-> SoFar(fr.type, g.type, g.obj, old, s),
                       seen |-> Seen(fr.type, g.type, g.obj, s), at |-> 0]
  <2>1. fr = [type |-> fr.type, obj |-> SoFar(fr.type, g.type, g.obj, g.old, g.done),
              seen |-> Seen(fr.type, g.type, g.obj, g.done), at |-> fr.at]
    BY DEF RecordOK
  <2>2. Store(fr, x) = [fr EXCEPT !.obj = Over([name \in {f.name} |-> x], @), !.seen = @ \cup {f.name}, !.at = 0]
    BY <1>1 DEF Store
  <2>3. fr.obj = SoFar(fr.type, g.type, g.obj, old, g.done) /\ fr.seen = A
    BY <2>1
  <2>5. Store(fr, x) = [fr EXCEPT !.obj = obj, !.seen = A \cup {f.name}, !.at = 0]
    BY <2>2, <2>3
  <2> HIDE DEF obj, A, f, s
  <2>6. Store(fr, x) = [type |-> fr.type, obj |-> obj, seen |-> A \cup {f.name}, at |-> 0]
    BY <2>1, <2>5, RecordFrameExcept
  <2> QED
    BY <1>7, <1>9, <2>6 DEF A
<1>11. ReadSoFar(fr.type, g.type, g.obj, s)
  <2> SUFFICES ASSUME NEW j \in DOMAIN fr.type.fields, NEW t \in SentAs(fr.type.fields[j], g.type, g.obj), t <= s
               PROVE  Readable[<<fr.type.fields[j].type, g.type.fields[t].type>>][g.obj[g.type.fields[t].name]]
    BY DEF ReadSoFar
  <2>1. t \in Nat
    BY <1>1, <1>2, SentAre
  <2>2. CASE t <= g.done
    BY <2>2 DEF RecordOK, ReadSoFar
  <2>3. CASE t = s
    <3>1. j = i
      BY <1>1, <1>2, <2>3, ReadOnce
    <3> QED
      BY <1>5, <2>3, <3>1
  <2> QED
    BY <1>4, <2>1, <2>2, <2>3
<1> DEFINE e == DoneTo(g, s)
           u == Store(fr, x)
<1>12. e.type = g.type /\ e.obj = g.obj /\ e.old = g.old /\ e.cuts = g.cuts /\ e.done = s /\ e.end = g.end
  BY DEF DoneTo, Sender
<1>13. u.type = fr.type /\ u.at = 0
  BY <1>10
<1>14. u = [type |-> u.type, obj |-> SoFar(u.type, e.type, e.obj, e.old, e.done),
            seen |-> Seen(u.type, e.type, e.obj, e.done), at |-> u.at]
  BY <1>10, <1>12, <1>13
<1>15. s \in 0..n
  BY <1>3
<1> HIDE DEF e, u, s, f, w, obj, A, B, got
<1>16. RecordOK(F, u, e)
  BY <1>1, <1>11, <1>12, <1>13, <1>14, <1>15 DEF RecordOK, CallOK
<1>17. FrameOK(F, u, e)
  BY <1>12, <1>16 DEF FrameOK
<1>18. ReadAt(u, e) = g.cuts[s]
  BY <1>12, <1>13 DEF ReadAt
<1> QED
  BY <1>13, <1>17, <1>18 DEF u, e, s

LEMMA ListStores ==
  ASSUME NEW F, Len(F) \in Nat, NEW fr, NEW g, FrameOK(F, fr, g), ListOK(F, fr, g), Asks(fr), NEW x,
         x = Understood[<<WantedBy(fr), SentType(g)>>][SentValue(g)][MemberOf(fr)],
         Readable[<<WantedBy(fr), SentType(g)>>][SentValue(g)]
  PROVE  /\ FrameOK(F, Store(fr, x), DoneTo(g, g.done + 1))
         /\ Store(fr, x).type = fr.type /\ ReadAt(Store(fr, x), DoneTo(g, g.done + 1)) = g.cuts[g.done + 1]
<1> DEFINE s == g.done + 1
           got(k) == Understood[<<fr.type.of, g.type.of>>][g.obj[k]][New[fr.type.of]]
<1>1. fr.type.wire = "LIST" /\ g.type.wire = "LIST" /\ Len(g.obj) \in Nat
  <2>1. <<fr.type, g.type>> \in Versions /\ g.obj \in Objects(g.type) /\ fr.type.wire = "LIST"
    BY DEF ListOK, CallOK
  <2>2. g.type \in TypeSet /\ g.type.wire = "LIST"
    BY <2>1, VersionsAre
  <2> QED
    BY <2>1, <2>2, ObjectsAre
<1>2. s \in 1..Len(g.obj) /\ MemberOf(fr) = New[fr.type.of]
  BY ListAsks
<1>3. WantedBy(fr) = fr.type.of /\ SentType(g) = g.type.of /\ SentValue(g) = g.obj[s]
  BY <1>1 DEF WantedBy, SentType, SentValue
<1>4. x = got(s) /\ Readable[<<fr.type.of, g.type.of>>][g.obj[s]]
  BY <1>2, <1>3
<1>5. fr = [type |-> fr.type, left |-> Len(g.obj) - g.done, items |-> [k \in 1..g.done |-> got(k)]]
  BY DEF ListOK
<1>6. g.done \in Nat /\ s = g.done + 1 /\ (Len(g.obj) - g.done) - 1 = Len(g.obj) - s
      /\ \A k \in 1..s : k \in 1..g.done \/ k = s
  <2>1. PICK d : d = g.done
    OBVIOUS
  <2>2. PICK n : n = Len(g.obj)
    OBVIOUS
  <2>3. d \in Nat /\ n \in Nat
    BY <1>1, <2>1, <2>2 DEF ListOK
  <2>4. (n - d) - 1 = n - (d + 1) /\ \A k \in 1..d + 1 : k \in 1..d \/ k = d + 1
    BY <2>3
  <2> QED
    BY <2>1, <2>2, <2>3, <2>4
<1> HIDE DEF s, got
<1>7. Append([k \in 1..g.done |-> got(k)], x) = [k \in 1..s |-> got(k)]
  <2> DEFINE a == [k \in 1..g.done |-> got(k)]
  <2>1. a \in Seq({got(k) : k \in 1..s}) /\ Len(a) = g.done
    <3> DEFINE S == {got(k) : k \in 1..s}
    <3>1. \A k \in 1..g.done : got(k) \in S
      BY <1>6
    <3> HIDE DEF S
    <3>2. a \in Seq(S) /\ Len(a) = g.done
      BY <1>6, <3>1
    <3> QED
      BY <3>2 DEF S
  <2>2. Append(a, x) = [k \in 1..g.done + 1 |-> IF k <= g.done THEN a[k] ELSE x]
    BY <1>6, <2>1
  <2>3. \A k \in 1..g.done + 1 : (IF k <= g.done THEN a[k] ELSE x) = got(k)
    BY <1>4, <1>6
  <2> HIDE DEF a
  <2> QED
    BY <1>6, <2>2, <2>3 DEF a
<1>8. Store(fr, x) = [type |-> fr.type, left |-> Len(g.obj) - s, items |-> [k \in 1..s |-> got(k)]]
  <2>1. Store(fr, x) = [fr EXCEPT !.left = @ - 1, !.items = Append(@, x)]
    BY <1>1 DEF Store
  <2>2. fr.left = Len(g.obj) - g.done /\ fr.items = [k \in 1..g.done |-> got(k)]
    BY <1>5
  <2>3. Store(fr, x) = [fr EXCEPT !.left = Len(g.obj) - s, !.items = [k \in 1..s |-> got(k)]]
    BY <1>6, <1>7, <2>1, <2>2
  <2> QED
    BY <1>5, <2>3, ListFrameExcept
<1> DEFINE e == DoneTo(g, s)
           u == Store(fr, x)
<1>9. e.type = g.type /\ e.obj = g.obj /\ e.old = g.old /\ e.cuts = g.cuts /\ e.done = s /\ e.end = g.end
  BY DEF DoneTo, Sender
<1>10. u.type = fr.type
  BY <1>8
<1>11. \A k \in 1..s : Readable[<<fr.type.of, g.type.of>>][g.obj[k]]
  BY <1>4, <1>6 DEF ListOK
<1>12. s \in 0..Len(g.obj)
  BY <1>2
<1>13. u = [type |-> u.type, left |-> Len(e.obj) - e.done, items |-> [k \in 1..e.done |-> got(k)]]
  BY <1>8, <1>9, <1>10
<1> HIDE DEF e, u
<1>14. ListOK(F, u, e)
  BY <1>9, <1>10, <1>11, <1>12, <1>13 DEF ListOK, CallOK, got
<1>15. FrameOK(F, u, e)
  BY <1>9, <1>14 DEF FrameOK
<1>16. ReadAt(u, e) = g.cuts[s]
  BY <1>1, <1>9, <1>10 DEF ReadAt
<1> QED
  BY <1>10, <1>15, <1>16 DEF u, e, s

LEMMA FrameStores ==
  ASSUME NEW F, Len(F) \in Nat, NEW fr, NEW g, FrameOK(F, fr, g), Asks(fr), NEW x,
         x = Understood[<<WantedBy(fr), SentType(g)>>][SentValue(g)][MemberOf(fr)],
         Readable[<<WantedBy(fr), SentType(g)>>][SentValue(g)]
  PROVE  /\ FrameOK(F, Store(fr, x), DoneTo(g, g.done + 1))
         /\ Store(fr, x).type = fr.type /\ ReadAt(Store(fr, x), DoneTo(g, g.done + 1)) = g.cuts[g.done + 1]
<1>1. CASE RecordOK(F, fr, g)
  BY <1>1, RecordStores
<1>2. CASE ListOK(F, fr, g)
  BY <1>2, ListStores
<1> QED
  BY <1>1, <1>2 DEF FrameOK

-----------------------------------------------------------------------------
(* Between two fields: fields that say nothing to the reader.               *)

LEMMA DoneToIs ==
  ASSUME NEW g, NEW n
  PROVE  /\ DoneTo(g, n).type = g.type /\ DoneTo(g, n).obj = g.obj /\ DoneTo(g, n).old = g.old
         /\ DoneTo(g, n).cuts = g.cuts /\ DoneTo(g, n).done = n /\ DoneTo(g, n).end = g.end
         /\ \A k : DoneTo(DoneTo(g, n), k) = DoneTo(g, k)
BY DEF DoneTo, Sender

LEMMA DoneToSame ==
  ASSUME NEW F, NEW fr, NEW g, RecordOK(F, fr, g)
  PROVE  RecordOK(F, fr, DoneTo(g, g.done))
<1> DEFINE e == DoneTo(g, g.done)
<1>1. e.type = g.type /\ e.obj = g.obj /\ e.old = g.old /\ e.cuts = g.cuts /\ e.done = g.done /\ e.end = g.end
  BY DoneToIs
<1> HIDE DEF e
<1>2. RecordOK(F, fr, e)
  BY <1>1 DEF RecordOK, CallOK
<1> QED
  BY <1>2 DEF e

\* A call that reads a record, and its versions.
LEMMA RecordVersions ==
  ASSUME NEW F, NEW fr, NEW g, RecordOK(F, fr, g)
  PROVE  /\ <<fr.type, g.type>> \in Versions /\ fr.type \in TypeSet /\ g.type \in TypeSet
         /\ fr.type.wire = "STRUCT" /\ g.type.wire = "STRUCT"
         /\ g.obj \in Objects(g.type) /\ g.old \in Objects(fr.type)
         /\ Len(g.type.fields) \in Nat /\ g.done \in 0..Len(g.type.fields)
<1>1. /\ <<fr.type, g.type>> \in Versions /\ fr.type.wire = "STRUCT"
      /\ g.obj \in Objects(g.type) /\ g.old \in Objects(fr.type)
  BY DEF RecordOK, CallOK
<1>2. fr.type \in TypeSet /\ g.type \in TypeSet /\ g.type.wire = "STRUCT"
  BY <1>1, VersionsAre
<1>3. Len(g.type.fields) \in Nat
  BY <1>2, FieldsAre
<1> QED
  BY <1>1, <1>2, <1>3 DEF RecordOK

LEMMA NothingNew ==
  ASSUME NEW F, NEW fr, NEW g, RecordOK(F, fr, g), fr.at = 0, NEW n \in 1..Len(g.type.fields),
         g.done = n - 1, \A i \in DOMAIN fr.type.fields : n \notin SentAs(fr.type.fields[i], g.type, g.obj)
  PROVE  RecordOK(F, fr, DoneTo(g, n))
<1> DEFINE r == fr.type
           sent(f) == SentAs(f, g.type, g.obj)
<1>1. /\ r \in TypeSet /\ r.wire = "STRUCT" /\ g.type \in TypeSet /\ g.type.wire = "STRUCT"
      /\ g.obj \in Objects(g.type) /\ Len(g.type.fields) \in Nat
  BY RecordVersions
<1>2. ASSUME NEW f, NEW s \in sent(f) PROVE s \in Nat
  <2>1. s \in 1..Len(g.type.fields)
    BY <1>1, SentAre
  <2> QED
    BY <2>1
<1>3. ASSUME NEW i \in DOMAIN r.fields, NEW s \in sent(r.fields[i])
      PROVE  s <= n <=> s <= g.done
  <2>1. s \in Nat /\ s # n
    BY <1>2
  <2> QED
    BY <1>1, <2>1
<1>4. Seen(r, g.type, g.obj, n) = Seen(r, g.type, g.obj, g.done)
  <2>1. ASSUME NEW name \in FieldNames(r), NEW s \in sent(FieldNamed(r, name))
        PROVE  s <= n <=> s <= g.done
    <3>1. PICK i \in DOMAIN r.fields : FieldNamed(r, name) = r.fields[i]
      BY NamedField
    <3> QED
      BY <1>3, <2>1, <3>1
  <2> QED
    BY <2>1 DEF Seen
<1>5. SoFar(r, g.type, g.obj, g.old, n) = SoFar(r, g.type, g.obj, g.old, g.done)
  BY <1>4 DEF SoFar
<1>6. ReadSoFar(r, g.type, g.obj, n)
  BY <1>3 DEF RecordOK, ReadSoFar
<1> DEFINE e == DoneTo(g, n)
<1>7. e.type = g.type /\ e.obj = g.obj /\ e.old = g.old /\ e.cuts = g.cuts /\ e.done = n /\ e.end = g.end
  BY DoneToIs
<1>8. n \in 0..Len(g.type.fields)
  BY <1>1
<1> HIDE DEF e
<1>9. RecordOK(F, fr, e)
  BY <1>4, <1>5, <1>6, <1>7, <1>8 DEF RecordOK, CallOK
<1> QED
  BY <1>9 DEF e

\* The fields that are absent take no room: the call is at the next that was
\* sent, or at the stop.
AtNext(F, fr, g) ==
  /\ RecordOK(F, fr, g)
  /\ \/ /\ g.done = Len(g.type.fields) /\ g.cuts[g.done] = g.end - 1 /\ F[g.cuts[g.done]] = Stop
     \/ /\ g.done + 1 \in 1..Len(g.type.fields)
        /\ g.type.fields[g.done + 1].name \in DOMAIN g.obj
        /\ F[g.cuts[g.done]] = FieldHead(g.type.fields[g.done + 1])

LEMMA NextField ==
  ASSUME NEW F, NEW fr, NEW g, RecordOK(F, fr, g), fr.at = 0
  PROVE  \E m : AtNext(F, fr, DoneTo(g, m)) /\ g.cuts[m] = g.cuts[g.done]
<1> DEFINE n == Len(g.type.fields)
           D(m) == m \in 0..n /\ RecordOK(F, fr, DoneTo(g, m)) /\ g.cuts[m] = g.cuts[g.done]
           T == {k \in 0..n : D(n - k)}
<1>1. n \in Nat /\ g.done \in 0..n
  BY RecordVersions
<1>2. RecordLies(F, g.type, g.obj, g.cuts[0], g.end, g.cuts)
  BY DEF RecordOK
<1> HIDE DEF n
<1>3. n - (n - g.done) = g.done /\ n - g.done \in 0..n
  BY <1>1
<1>4. n - g.done \in T
  BY <1>1, <1>3, DoneToSame
<1>5. PICK k \in T : \A i \in T : k <= i
  <2>1. T \subseteq Nat /\ T # {}
    BY <1>4
  <2> HIDE DEF T
  <2> QED
    BY <2>1, SmallestNat
<1> DEFINE m == n - k
<1>6. m \in 0..n /\ D(m) /\ (m < n => ~ D(m + 1))
  <2>1. k \in 0..n /\ D(m)
    BY <1>5
  <2>2. ASSUME m < n, D(m + 1) PROVE FALSE
    <3>1. k - 1 \in 0..n /\ n - (k - 1) = m + 1 /\ ~(k <= k - 1)
      BY <1>1, <2>1, <2>2
    <3>2. k - 1 \in T
      BY <2>2, <3>1
    <3> QED
      BY <1>5, <3>1, <3>2
  <2>3. m \in 0..n
    BY <1>1, <2>1
  <2> QED
    BY <2>1, <2>2, <2>3
<1> HIDE DEF m
<1> DEFINE e == DoneTo(g, m)
<1>7. e.type = g.type /\ e.obj = g.obj /\ e.old = g.old /\ e.cuts = g.cuts /\ e.done = m /\ e.end = g.end
  BY DoneToIs
<1>8. CASE m = n
  <2>1. g.cuts[n] = g.end - 1 /\ F[g.end - 1] = Stop
    BY <1>2 DEF RecordLies, n
  <2>2. AtNext(F, fr, e)
    <3>1. RecordOK(F, fr, e)
      BY <1>6
    <3> HIDE DEF e
    <3> QED
      BY <1>7, <1>8, <2>1, <3>1 DEF AtNext, n
  <2> QED
    BY <1>6, <2>2
<1>9. CASE m # n
  <2>1. m + 1 \in 1..n /\ (m + 1) - 1 = m /\ m < n
    BY <1>1, <1>6, <1>9
  <2> DEFINE s == m + 1
             w == g.type.fields[s]
  <2>2. w.name \in DOMAIN g.obj
    <3> SUFFICES ASSUME w.name \notin DOMAIN g.obj PROVE D(s)
      BY <1>6, <2>1
    <3> HIDE DEF s
    <3>1. g.cuts[s] = g.cuts[s - 1]
      BY <1>2, <2>1 DEF RecordLies, n, s
    <3>2. \A i \in DOMAIN fr.type.fields : s \notin SentAs(fr.type.fields[i], e.type, e.obj)
      BY <1>7 DEF SentAs
    <3>3. RecordOK(F, fr, e) /\ s \in 1..Len(e.type.fields) /\ e.done = s - 1
      BY <1>6, <1>7, <2>1 DEF n, s
    <3>4. RecordOK(F, fr, DoneTo(e, s))
      <4> HIDE DEF e
      <4> QED
        BY <3>2, <3>3, NothingNew
    <3>5. RecordOK(F, fr, DoneTo(g, s))
      BY <3>4, DoneToIs
    <3>6. s \in 0..n
      BY <1>1, <2>1 DEF s
    <3> QED
      BY <1>6, <2>1, <3>1, <3>5, <3>6 DEF s
  <2>3. F[g.cuts[s - 1]] = FieldHead(w)
    <3> HIDE DEF s
    <3> QED
      BY <1>2, <2>1, <2>2 DEF RecordLies, n, s
  <2>4. AtNext(F, fr, e)
    <3>1. RecordOK(F, fr, e)
      BY <1>6
    <3> HIDE DEF e
    <3> QED
      BY <1>7, <2>1, <2>2, <2>3, <3>1 DEF AtNext, n
  <2> QED
    BY <1>6, <2>4
<1> QED
  BY <1>8, <1>9

-----------------------------------------------------------------------------
(* The end and the beginning of a call.                                     *)

LEMMA RecordDone ==
  ASSUME NEW F, NEW fr, NEW g, RecordOK(F, fr, g), g.done = Len(g.type.fields)
  PROVE  /\ fr.obj = Understood[<<fr.type, g.type>>][g.obj][g.old]
         /\ Readable[<<fr.type, g.type>>][g.obj]
              <=> \A k \in DOMAIN fr.type.fields : fr.type.fields[k].req => fr.type.fields[k].name \in fr.seen
<1> DEFINE r == fr.type
           m == <<fr.type, g.type>>
           n == Len(g.type.fields)
           sent(f) == SentAs(f, g.type, g.obj)
<1>1. /\ r \in TypeSet /\ r.wire = "STRUCT" /\ g.type \in TypeSet /\ g.type.wire = "STRUCT"
      /\ g.obj \in Objects(g.type) /\ g.old \in Objects(r) /\ n \in Nat /\ m \in Versions
      /\ m[1] = r /\ m[2] = g.type
  BY RecordVersions
<1>2. ASSUME NEW f, NEW s \in sent(f) PROVE s <= n
  <2>1. s \in 1..Len(g.type.fields)
    BY <1>1, SentAre
  <2> QED
    BY <2>1
<1>3. Seen(r, g.type, g.obj, n) = Came(r, g.type, g.obj)
  BY <1>2 DEF Seen, Came
<1>4. fr.obj = SoFar(r, g.type, g.obj, g.old, n) /\ fr.seen = Seen(r, g.type, g.obj, n)
  BY DEF RecordOK
<1>5. fr.obj = Understood[m][g.obj][g.old]
  <2>1. Understood[m][g.obj][g.old]
          = Over([name \in Came(r, g.type, g.obj) |-> Got(r, g.type, g.obj, g.old, name)], g.old)
    BY <1>1, UnderstoodRecord
  <2> QED
    BY <1>3, <1>4, <2>1 DEF SoFar
<1>6. ASSUME NEW k \in DOMAIN r.fields
      PROVE  r.fields[k].name \in fr.seen <=> sent(r.fields[k]) # {}
  <2>1. r.fields[k].name \in FieldNames(r) /\ FieldNamed(r, r.fields[k].name) = r.fields[k]
    BY <1>1, FieldNamedIs
  <2> QED
    BY <1>3, <1>4, <2>1 DEF Came
<1>7. ASSUME NEW k \in DOMAIN r.fields, NEW s \in sent(r.fields[k])
      PROVE  Readable[<<r.fields[k].type, g.type.fields[s].type>>][g.obj[g.type.fields[s].name]]
  BY <1>2, <1>7 DEF RecordOK, ReadSoFar
<1>8. Readable[m][g.obj] <=> \A k \in DOMAIN r.fields :
        /\ r.fields[k].req => sent(r.fields[k]) # {}
        /\ \A s \in sent(r.fields[k]) :
             Readable[<<r.fields[k].type, g.type.fields[s].type>>][g.obj[g.type.fields[s].name]]
  <2> HIDE DEF m
  <2>1. Readable[m][g.obj] <=> \A k \in DOMAIN m[1].fields :
          /\ m[1].fields[k].req => SentAs(m[1].fields[k], m[2], g.obj) # {}
          /\ \A s \in SentAs(m[1].fields[k], m[2], g.obj) :
               Readable[<<m[1].fields[k].type, m[2].fields[s].type>>][g.obj[m[2].fields[s].name]]
    BY <1>1, ReadableRecord
  <2> QED
    BY <1>1, <2>1, Zenon
<1> QED
  BY <1>5, <1>6, <1>7, <1>8

LEMMA ListDone ==
  ASSUME NEW F, NEW fr, NEW g, ListOK(F, fr, g), ~Asks(fr)
  PROVE  /\ fr.items = Understood[<<fr.type, g.type>>][g.obj][g.old]
         /\ Readable[<<fr.type, g.type>>][g.obj]
         /\ ReadAt(fr, g) = g.end
<1> DEFINE m == <<fr.type, g.type>>
<1>1. fr.type.wire = "LIST" /\ m \in Versions /\ g.obj \in Objects(g.type) /\ g.old \in Objects(fr.type)
  BY DEF ListOK, CallOK
<1>2. g.type \in TypeSet /\ g.type.wire = "LIST" /\ m[1] = fr.type /\ m[2] = g.type
  BY <1>1, VersionsAre
<1>3. Len(g.obj) \in Nat
  BY <1>1, <1>2, ObjectsAre
<1>4. g.done = Len(g.obj)
  <2>1. fr.left = Len(g.obj) - g.done /\ g.done \in 0..Len(g.obj)
    BY DEF ListOK
  <2> QED
    BY <1>1, <1>3, <2>1 DEF Asks
<1>5. Understood[m][g.obj][g.old]
        = [k \in 1..Len(g.obj) |-> Understood[<<fr.type.of, g.type.of>>][g.obj[k]][New[fr.type.of]]]
  <2> HIDE DEF m
  <2>1. m[1].wire = "LIST" /\ g.obj \in Objects(m[2]) /\ g.old \in Objects(m[1])
    BY <1>1, <1>2
  <2>2. Understood[m][g.obj][g.old]
          = [k \in 1..Len(g.obj) |-> Understood[<<m[1].of, m[2].of>>][g.obj[k]][New[m[1].of]]]
    BY <1>1, <2>1, UnderstoodList
  <2> QED
    BY <1>2, <2>2, Zenon
<1>6. fr.items = [k \in 1..g.done |-> Understood[<<fr.type.of, g.type.of>>][g.obj[k]][New[fr.type.of]]]
  <2>1. fr = [type |-> fr.type, left |-> Len(g.obj) - g.done,
              items |-> [k \in 1..g.done |->
                           Understood[<<fr.type.of, g.type.of>>][g.obj[k]][New[fr.type.of]]]]
    BY DEF ListOK
  <2> DEFINE items == [k \in 1..g.done |->
                         Understood[<<fr.type.of, g.type.of>>][g.obj[k]][New[fr.type.of]]]
  <2> HIDE DEF items
  <2>2. fr = [type |-> fr.type, left |-> Len(g.obj) - g.done, items |-> items]
    BY <2>1 DEF items
  <2>3. fr.items = items
    BY <2>2
  <2> QED
    BY <2>3 DEF items
<1>7. Readable[m][g.obj]
  <2>1. \A k \in 1..Len(g.obj) : Readable[<<fr.type.of, g.type.of>>][g.obj[k]]
    BY <1>4 DEF ListOK
  <2> QED
    BY <1>1, <1>2, <2>1, ReadableList
<1>8. ReadAt(fr, g) = g.end
  BY <1>1, <1>4 DEF ReadAt, ListOK
<1> QED
  BY <1>4, <1>5, <1>6, <1>7, <1>8

LEMMA BeginsRecord ==
  ASSUME NEW F, Len(F) \in Nat, NEW r, NEW w, <<r, w>> \in Versions, r.wire = "STRUCT",
         NEW v \in Objects(w), NEW old \in Objects(r), NEW p, NEW q, Lies(F, w, v, p, q)
  PROVE  \E g : /\ FrameOK(F, RecordFrame(r, old), g) /\ RecordOK(F, RecordFrame(r, old), g)
                /\ g.type = w /\ g.obj = v /\ g.old = old /\ g.end = q
                /\ ReadAt(RecordFrame(r, old), g) = p
<1> DEFINE m == <<r, w>>
<1>1. r \in TypeSet /\ w \in TypeSet /\ w.wire = "STRUCT"
  <2>1. m[1] = r /\ m[2] = w
    OBVIOUS
  <2> QED
    BY <2>1, VersionsAre
<1>2. p \in Nat /\ q \in Nat /\ 1 <= p /\ p < q /\ q <= Len(F) + 1
  BY <1>1, LiesWhere
<1>3. PICK c : RecordLies(F, w, v, p, q, c)
  BY <1>1, LiesAsRecord
<1> DEFINE g  == Sender(w, v, old, c, 0, q)
           fr == RecordFrame(r, old)
<1>4. g.type = w /\ g.obj = v /\ g.old = old /\ g.cuts = c /\ g.done = 0 /\ g.end = q
  BY DEF Sender
<1>5. fr.type = r /\ fr.at = 0
  BY DEF RecordFrame
<1>6. c[0] = p /\ Len(w.fields) \in Nat
  BY <1>1, <1>3, FieldsAre DEF RecordLies
<1>7. ASSUME NEW f, NEW s \in SentAs(f, w, v) PROVE ~(s <= 0)
  <2>1. s \in 1..Len(w.fields)
    BY <1>1, SentAre
  <2> QED
    BY <1>6, <2>1
<1>8. Seen(r, w, v, 0) = {}
  BY <1>7 DEF Seen
<1>9. SoFar(r, w, v, old, 0) = old
  <2>1. old = [name \in DOMAIN old |-> old[name]]
    BY <1>1, ObjectsAre
  <2> QED
    BY <1>8, <2>1 DEF SoFar, Over
<1>10. ReadSoFar(r, w, v, 0)
  BY <1>7 DEF ReadSoFar
<1>11. fr = [type |-> fr.type, obj |-> SoFar(r, w, v, old, 0), seen |-> Seen(r, w, v, 0), at |-> fr.at]
  BY <1>8, <1>9 DEF RecordFrame
<1> HIDE DEF g, fr
<1>12. RecordOK(F, fr, g)
  BY <1>2, <1>3, <1>4, <1>5, <1>6, <1>10, <1>11 DEF RecordOK, CallOK
<1>13. FrameOK(F, fr, g)
  BY <1>2, <1>4, <1>12 DEF FrameOK
<1>14. ReadAt(fr, g) = p
  BY <1>4, <1>5, <1>6 DEF ReadAt
<1> QED
  BY <1>4, <1>12, <1>13, <1>14 DEF fr

LEMMA BeginsList ==
  ASSUME NEW F, Len(F) \in Nat, NEW r, NEW w, <<r, w>> \in Versions, r.wire = "LIST",
         NEW v \in Objects(w), NEW old \in Objects(r), NEW p, NEW q, Lies(F, w, v, p, q)
  PROVE  /\ F[p] = ListHead(Len(v))
         /\ \E g : /\ FrameOK(F, ListFrame(r, Len(v)), g)
                   /\ g.type = w /\ g.obj = v /\ g.old = old /\ g.end = q
                   /\ ReadAt(ListFrame(r, Len(v)), g) = p + 1
<1> DEFINE m == <<r, w>>
<1>1. r \in TypeSet /\ w \in TypeSet /\ w.wire = "LIST"
  <2>1. m[1] = r /\ m[2] = w
    OBVIOUS
  <2> QED
    BY <2>1, VersionsAre
<1>2. p \in Nat /\ q \in Nat /\ 1 <= p /\ p < q /\ q <= Len(F) + 1 /\ Len(v) \in Nat
  BY <1>1, LiesWhere, ObjectsAre
<1>3. PICK c : ListLies(F, w, v, p, q, c)
  BY <1>1, LiesAsList
<1> DEFINE g  == Sender(w, v, old, c, 0, q)
           fr == ListFrame(r, Len(v))
           n  == Len(v)
<1>4. g.type = w /\ g.obj = v /\ g.old = old /\ g.cuts = c /\ g.done = 0 /\ g.end = q
  BY DEF Sender
<1>5. fr.type = r
  BY DEF ListFrame
<1>6. /\ F[p] = ListHead(n) /\ c[0] = p + 1 /\ c \in [0..n -> 1..q] /\ c[n] = q
      /\ \A k \in 1..n : Lies(F, w.of, v[k], c[k - 1], c[k])
  <2>1. c \in [0..n -> p + 1..q] /\ p + 1..q \subseteq 1..q
    BY <1>2, <1>3 DEF ListLies
  <2> QED
    BY <1>3, <2>1 DEF ListLies
<1>7. fr = [type |-> fr.type, left |-> n - 0,
            items |-> [k \in 1..0 |-> Understood[<<r.of, w.of>>][v[k]][New[r.of]]]]
  BY <1>2 DEF ListFrame
<1>8. 0 \in 0..n /\ \A k \in 1..0 : Readable[<<r.of, w.of>>][v[k]]
  BY <1>2
<1> HIDE DEF g, fr
<1>9. ListOK(F, fr, g)
  BY <1>4, <1>5, <1>6, <1>7, <1>8 DEF ListOK, CallOK
<1>10. FrameOK(F, fr, g)
  BY <1>2, <1>4, <1>9 DEF FrameOK
<1>11. ReadAt(fr, g) = p + 1
  BY <1>4, <1>5, <1>6 DEF ReadAt
<1> QED
  BY <1>4, <1>6, <1>10, <1>11 DEF fr

-----------------------------------------------------------------------------
(* The stack of the calls in progress.                                      *)

\* One call made the next.
Calls(fr, g, fr2, g2) ==
  /\ Asks(fr)
  /\ fr2.type = WantedBy(fr) /\ g2.type = SentType(g) /\ g2.obj = SentValue(g)
  /\ g2.old = MemberOf(fr) /\ g2.end = g.cuts[g.done + 1]

\* A call reads a part of the record of job j, which is readable if that is.
PartOK(j, fr, g) ==
  /\ FrameOK(File(j), fr, g) /\ g.end <= Len(Written(j)) + 1
  /\ Readable[<<j.reader, j.writer>>][j.sent] => Readable[<<fr.type, g.type>>][g.obj]

RootOK(j, fr, g) ==
  /\ fr.type = j.reader /\ g.type = j.writer /\ g.obj = j.sent /\ g.old = j.into
  /\ g.end = Len(Written(j)) + 1

StackOK(j, s, gs) ==
  /\ s \in Seq(Range(s)) /\ Len(s) >= 1
  /\ \A d \in 1..Len(s) : PartOK(j, s[d], gs[d])
  /\ RootOK(j, s[1], gs[1])
  /\ \A d \in 1..Len(s), e \in 1..Len(s) : e = d + 1 => Calls(s[d], gs[d], s[e], gs[e])

LEMMA StackIs ==
  ASSUME NEW j, NEW s, NEW gs, StackOK(j, s, gs)
  PROVE  /\ Len(s) \in Nat /\ Len(s) >= 1 /\ Len(s) \in 1..Len(s) /\ 1 \in 1..Len(s)
         /\ DOMAIN s = 1..Len(s) /\ PartOK(j, s[Len(s)], gs[Len(s)])
<1>1. s \in Seq(Range(s)) /\ Len(s) >= 1
  BY DEF StackOK
<1>2. Len(s) \in Nat /\ DOMAIN s = 1..Len(s)
  BY <1>1
<1>3. Len(s) \in 1..Len(s) /\ 1 \in 1..Len(s)
  BY <1>1, <1>2
<1> QED
  BY <1>1, <1>2, <1>3 DEF StackOK

LEMMA InOwnRange ==
  ASSUME NEW S, NEW s \in Seq(S)
  PROVE  s \in Seq(Range(s))
<1>1. \A k \in 1..Len(s) : s[k] \in Range(s)
  BY DEF Range
<1> QED
  BY <1>1

\* The innermost call goes on.
LEMMA StackGoesOn ==
  ASSUME NEW j, NEW s, NEW gs, StackOK(j, s, gs), NEW fr, NEW g, PartOK(j, fr, g),
         fr.type = s[Len(s)].type, g.type = gs[Len(s)].type, g.obj = gs[Len(s)].obj,
         g.old = gs[Len(s)].old, g.end = gs[Len(s)].end
  PROVE  LET t == [s EXCEPT ![Len(s)] = fr]
         IN  t[Len(t)] = fr /\ \E hs : StackOK(j, t, hs) /\ hs[Len(t)] = g
<1> DEFINE n  == Len(s)
           t  == [s EXCEPT ![n] = fr]
           hs == [d \in 1..n |-> IF d = n THEN g ELSE gs[d]]
<1>1. n \in Nat /\ n >= 1 /\ n \in 1..n /\ 1 \in 1..n /\ DOMAIN s = 1..n
  BY StackIs
<1>2. t \in Seq(Range(t)) /\ Len(t) = n
  <2>1. s \in Seq(Range(s))
    BY DEF StackOK
  <2>2. t \in Seq(Range(s) \cup {fr}) /\ Len(t) = n
    BY <1>1, <2>1
  <2> HIDE DEF t
  <2> QED
    BY <2>2, InOwnRange
<1>3. /\ t[n] = fr /\ hs[n] = g
      /\ \A d \in 1..n : d # n => t[d] = s[d] /\ hs[d] = gs[d]
  BY <1>1
<1> HIDE DEF t, hs
<1>4. ASSUME NEW d \in 1..n PROVE PartOK(j, t[d], hs[d])
  <2>1. PartOK(j, s[d], gs[d])
    BY DEF StackOK
  <2> QED
    BY <1>3, <2>1
<1>5. RootOK(j, t[1], hs[1])
  <2>1. RootOK(j, s[1], gs[1])
    BY DEF StackOK
  <2>2. CASE n = 1
    BY <1>3, <2>1, <2>2 DEF RootOK
  <2>3. CASE n # 1
    BY <1>1, <1>3, <2>1, <2>3
  <2> QED
    BY <2>2, <2>3
<1>6. ASSUME NEW d \in 1..n, NEW e \in 1..n, e = d + 1
      PROVE  Calls(t[d], hs[d], t[e], hs[e])
  <2>1. Calls(s[d], gs[d], s[e], gs[e])
    BY <1>6 DEF StackOK
  <2>2. d # n
    <3> HIDE DEF n
    <3> QED
      BY <1>1, <1>6
  <2>3. t[d] = s[d] /\ hs[d] = gs[d]
    BY <1>3, <2>2
  <2>4. t[e].type = s[e].type /\ hs[e].type = gs[e].type /\ hs[e].obj = gs[e].obj
        /\ hs[e].old = gs[e].old /\ hs[e].end = gs[e].end
    <3>1. CASE e = n
      BY <1>3, <3>1
    <3>2. CASE e # n
      BY <1>3, <3>2
    <3> QED
      BY <3>1, <3>2
  <2> QED
    BY <2>1, <2>3, <2>4 DEF Calls
<1>7. StackOK(j, t, hs)
  BY <1>1, <1>2, <1>4, <1>5, <1>6 DEF StackOK
<1> QED
  BY <1>2, <1>3, <1>7 DEF t

\* It makes a call.
LEMMA StackCalls ==
  ASSUME NEW j, NEW s, NEW gs, StackOK(j, s, gs), NEW fr, NEW g, PartOK(j, fr, g),
         Calls(s[Len(s)], gs[Len(s)], fr, g)
  PROVE  LET t == Append(s, fr)
         IN  t[Len(t)] = fr /\ \E hs : StackOK(j, t, hs) /\ hs[Len(t)] = g
<1> DEFINE t  == Append(s, fr)
           n  == Len(s)
           k  == n + 1
           hs == [d \in 1..k |-> IF d = k THEN g ELSE gs[d]]
<1>1. n \in Nat /\ n >= 1 /\ n \in 1..n /\ 1 \in 1..n /\ DOMAIN s = 1..n
  BY StackIs
<1>2. /\ t \in Seq(Range(t)) /\ Len(t) = k /\ t[k] = fr
      /\ \A d \in 1..n : t[d] = s[d]
  <2>1. s \in Seq(Range(s))
    BY DEF StackOK
  <2>2. s \in Seq(Range(s) \cup {fr})
    BY <2>1
  <2>3. /\ t \in Seq(Range(s) \cup {fr}) /\ Len(t) = k /\ t[k] = fr
        /\ \A d \in 1..n : t[d] = s[d]
    BY <1>1, <2>2
  <2> HIDE DEF t, k
  <2> QED
    BY <2>3, InOwnRange
<1>3. /\ hs[k] = g /\ \A d \in 1..n : hs[d] = gs[d]
      /\ k \in 1..k /\ k \notin 1..n /\ (\A d \in 1..k : d \in 1..n \/ d = k) /\ 1 \in 1..k
  BY <1>1
<1>4. \A d \in 1..k, e \in 1..k : e = d + 1 => d \in 1..n /\ (e \in 1..n \/ (d = n /\ e = k))
  <2>1. ASSUME NEW d \in 1..k, NEW e \in 1..k, e = d + 1
        PROVE  d \in 1..n /\ (e \in 1..n \/ (d = n /\ e = k))
    <3>1. d \in Int /\ e \in Int /\ 1 <= d /\ e <= n + 1
      BY <1>1, <2>1
    <3> HIDE DEF n
    <3> QED
      BY <1>1, <2>1, <3>1
  <2> QED
    BY <2>1
<1>5. k >= 1
  BY <1>1
<1> HIDE DEF t, hs, k
<1>6. ASSUME NEW d \in 1..k PROVE PartOK(j, t[d], hs[d])
  <2>1. CASE d \in 1..n
    <3>1. PartOK(j, s[d], gs[d])
      BY <2>1 DEF StackOK
    <3> QED
      BY <1>2, <1>3, <2>1, <3>1
  <2>2. CASE d = k
    BY <1>2, <1>3, <2>2
  <2> QED
    BY <1>3, <2>1, <2>2
<1>7. RootOK(j, t[1], hs[1])
  <2>1. RootOK(j, s[1], gs[1])
    BY DEF StackOK
  <2>2. t[1] = s[1] /\ hs[1] = gs[1]
    BY <1>1, <1>2, <1>3
  <2> QED
    BY <2>1, <2>2
<1>8. ASSUME NEW d \in 1..k, NEW e \in 1..k, e = d + 1 PROVE Calls(t[d], hs[d], t[e], hs[e])
  <2>1. t[d] = s[d] /\ hs[d] = gs[d] /\ d \in 1..n
    BY <1>2, <1>3, <1>4, <1>8
  <2>2. CASE e \in 1..n
    <3>1. Calls(s[d], gs[d], s[e], gs[e])
      BY <1>8, <2>1, <2>2 DEF StackOK
    <3> QED
      BY <1>2, <1>3, <2>1, <2>2, <3>1
  <2>3. CASE d = n /\ e = k
    BY <1>2, <1>3, <2>1, <2>3
  <2> QED
    BY <1>4, <1>8, <2>2, <2>3
<1>9. StackOK(j, t, hs)
  BY <1>2, <1>5, <1>6, <1>7, <1>8 DEF StackOK
<1> QED
  BY <1>2, <1>3, <1>9 DEF t

\* It returns.
LEMMA StackReturns ==
  ASSUME NEW j, NEW s, NEW gs, StackOK(j, s, gs), Len(s) # 1
  PROVE  LET t == Front(s)
             k == Len(t)
         IN  /\ StackOK(j, t, gs) /\ t[k] = s[k]
             /\ Calls(s[k], gs[k], s[Len(s)], gs[Len(s)])
<1> DEFINE t == Front(s)
           n == Len(s)
           k == n - 1
<1>1. n \in Nat /\ n >= 1 /\ n \in 1..n /\ DOMAIN s = 1..n
  BY StackIs
<1>2. k \in Nat /\ k >= 1 /\ k \in 1..n /\ n = k + 1 /\ \A d \in 1..k : d \in 1..n
  BY <1>1
<1>3. /\ t \in Seq(Range(t)) /\ Len(t) = k
      /\ \A d \in 1..k : t[d] = s[d]
  <2>1. s \in Seq(Range(s))
    BY DEF StackOK
  <2>2. /\ t \in Seq(Range(s)) /\ Len(t) = k
        /\ \A d \in 1..k : t[d] = s[d]
    BY <1>1, <1>2, <2>1 DEF Front
  <2> HIDE DEF t, k
  <2> QED
    BY <2>2, InOwnRange
<1>4. k \in 1..k /\ 1 \in 1..k
  BY <1>2
<1> HIDE DEF t, k
<1>5. StackOK(j, t, gs)
  <2>1. \A d \in 1..k : PartOK(j, t[d], gs[d])
    BY <1>2, <1>3 DEF StackOK
  <2>2. RootOK(j, t[1], gs[1])
    BY <1>3, <1>4 DEF StackOK
  <2>3. \A d \in 1..k, e \in 1..k : e = d + 1 => Calls(t[d], gs[d], t[e], gs[e])
    BY <1>2, <1>3 DEF StackOK
  <2> QED
    BY <1>2, <1>3, <2>1, <2>2, <2>3 DEF StackOK
<1>6. Calls(s[k], gs[k], s[n], gs[n])
  BY <1>1, <1>2 DEF StackOK
<1> QED
  BY <1>3, <1>4, <1>5, <1>6 DEF t

\* What the innermost call returns is stored in the one that made it.
Answer(fr, g)  == Understood[<<fr.type, g.type>>][g.obj][g.old]
Answers(fr, g) == Readable[<<fr.type, g.type>>][g.obj]

StackAt(j, t, p) == \E hs : StackOK(j, t, hs) /\ ReadAt(t[Len(t)], hs[Len(t)]) = p

LEMMA ReturnStores ==
  ASSUME NEW j, NEW s, NEW gs, StackOK(j, s, gs), Len(File(j)) \in Nat, Len(s) # 1,
         Answers(s[Len(s)], gs[Len(s)])
  PROVE  StackAt(j, Deliver(Front(s), Answer(s[Len(s)], gs[Len(s)])), gs[Len(s)].end)
<1>0. PICK x : x = Answer(s[Len(s)], gs[Len(s)])
  OBVIOUS
<1> DEFINE t == Front(s)
           k == Len(t)
           n == Len(s)
           F == File(j)
<1>1. StackOK(j, t, gs) /\ t[k] = s[k] /\ Calls(s[k], gs[k], s[n], gs[n])
  BY StackReturns
<1>2. k \in Nat /\ k \in 1..k /\ PartOK(j, t[k], gs[k]) /\ DOMAIN t = 1..k
  BY <1>1, StackIs
<1> DEFINE fr == t[k]
           g  == gs[k]
           e  == g.done + 1
           h  == DoneTo(g, e)
           fr2 == Store(fr, x)
<1>3. Calls(fr, g, s[n], gs[n]) /\ FrameOK(F, fr, g) /\ Asks(fr) /\ Len(F) \in Nat
  BY <1>1, <1>2 DEF PartOK, Calls
<1>4. x = Understood[<<WantedBy(fr), SentType(g)>>][SentValue(g)][MemberOf(fr)]
      /\ Readable[<<WantedBy(fr), SentType(g)>>][SentValue(g)]
  BY <1>0, <1>3 DEF Calls, Answer, Answers
<1>5. FrameOK(F, fr2, h) /\ fr2.type = fr.type /\ ReadAt(fr2, h) = g.cuts[e]
  <2> HIDE DEF fr, g, F
  <2> QED
    BY <1>3, <1>4, FrameStores
<1>6. h.type = g.type /\ h.obj = g.obj /\ h.old = g.old /\ h.end = g.end
  BY DoneToIs
<1>7. Deliver(t, x) = [t EXCEPT ![k] = fr2]
  BY <1>2 DEF Deliver
<1> HIDE DEF fr2, h, t, F, e
<1>8. PartOK(j, fr2, h)
  <2>1. FrameOK(File(j), fr2, h)
    BY <1>5 DEF F
  <2> QED
    BY <1>2, <1>5, <1>6, <2>1 DEF PartOK
<1> DEFINE u == Deliver(t, x)
<1>9. u[Len(u)] = fr2 /\ \E hs : StackOK(j, u, hs) /\ hs[Len(u)] = h
  <2>1. fr2.type = t[k].type
    BY <1>5
  <2>2. h.type = gs[k].type /\ h.obj = gs[k].obj /\ h.old = gs[k].old /\ h.end = gs[k].end
    BY <1>6
  <2>3. PICK a, b, c : a = t /\ b = fr2 /\ c = h
    OBVIOUS
  <2>4. StackOK(j, a, gs) /\ PartOK(j, b, c)
    BY <1>1, <1>8, <2>3
  <2>5. b.type = a[Len(a)].type /\ c.type = gs[Len(a)].type /\ c.obj = gs[Len(a)].obj
        /\ c.old = gs[Len(a)].old /\ c.end = gs[Len(a)].end
    BY <2>1, <2>2, <2>3
  <2> DEFINE w == [a EXCEPT ![Len(a)] = b]
  <2>6. w[Len(w)] = b /\ \E hs : StackOK(j, w, hs) /\ hs[Len(w)] = c
    BY <2>4, <2>5, StackGoesOn
  <2> QED
    BY <1>7, <2>3, <2>6
<1>10. gs[n].end = g.cuts[e]
  BY <1>3 DEF Calls, e
<1>11. StackAt(j, u, gs[n].end)
  BY <1>5, <1>9, <1>10 DEF StackAt
<1> QED
  BY <1>0, <1>11 DEF t

LEMMA ReadAtWhere ==
  ASSUME NEW F, Len(F) \in Nat, NEW fr, NEW g, FrameOK(F, fr, g)
  PROVE  /\ g.end \in Nat /\ ReadAt(fr, g) \in Nat /\ 1 <= ReadAt(fr, g) /\ ReadAt(fr, g) <= g.end
         /\ Asks(fr) \/ fr.type.wire = "STRUCT" => ReadAt(fr, g) < g.end
<1>1. g.end \in Nat
  BY DEF FrameOK
<1>2. CASE Asks(fr)
  <2> DEFINE p == ReadAt(fr, g)
             q == g.cuts[g.done + 1]
             w == SentType(g)
             v == SentValue(g)
             m == <<WantedBy(fr), w>>
  <2>1. m \in Versions /\ v \in Objects(w) /\ Lies(F, w, v, p, q) /\ q <= g.end
    BY <1>2, FrameAsks DEF AskOK
  <2>2. m[2] = w
    OBVIOUS
  <2> HIDE DEF p, q, w, v, m
  <2>3. w \in TypeSet
    BY <2>1, <2>2, VersionsAre
  <2>4. p \in Nat /\ q \in Nat /\ 1 <= p /\ p < q
    BY <2>1, <2>3, LiesWhere
  <2>5. p <= g.end /\ p < g.end
    BY <1>1, <2>1, <2>4
  <2> QED
    BY <1>1, <2>4, <2>5 DEF p
<1>3. CASE RecordOK(F, fr, g) /\ ~Asks(fr)
  <2>1. fr.type.wire = "STRUCT" /\ ReadAt(fr, g) = g.cuts[g.done]
    BY <1>3 DEF RecordOK, Asks, ReadAt
  <2>2. g.cuts \in [0..Len(g.type.fields) -> g.cuts[0]..g.end - 1] /\ g.done \in 0..Len(g.type.fields) /\ 1 <= g.cuts[0]
    BY <1>3 DEF RecordOK, RecordLies
  <2>3. g.cuts[0] \in Nat
    <3>1. RecordOK(F, fr, g)
      BY <1>3
    <3>2. Len(g.type.fields) \in Nat
      BY <3>1, RecordVersions
    <3>3. g.cuts[0] \in g.cuts[0]..g.end - 1
      BY <2>2, <3>2
    <3> QED
      BY <1>1, <2>2, <3>3
  <2>4. g.cuts[g.done] \in g.cuts[0]..g.end - 1
    BY <2>2
  <2> QED
    BY <1>1, <2>1, <2>2, <2>3, <2>4
<1>4. CASE ListOK(F, fr, g) /\ ~Asks(fr)
  <2>1. fr.type.wire = "LIST" /\ ReadAt(fr, g) = g.cuts[g.done]
    BY <1>4 DEF ListOK, ReadAt
  <2>2. g.cuts[g.done] \in 1..g.end
    BY <1>4 DEF ListOK
  <2> QED
    BY <1>1, <1>4, <2>1, <2>2
<1> QED
  BY <1>2, <1>3, <1>4 DEF FrameOK

-----------------------------------------------------------------------------
(* The invariant. *)

JobOK ==
  /\ \E k \in DOMAIN Jobs : job = Jobs[k]
  /\ stream = SubSeq(File(job), 1, Len(File(job)) - job.lost)

LEMMA JobIs ==
  ASSUME JobOK
  PROVE  /\ Begins(stream, File(job)) /\ Len(stream) = Len(File(job)) - job.lost
         /\ Len(stream) \in Nat /\ Len(File(job)) \in Nat /\ Len(Written(job)) \in Nat
         /\ Len(File(job)) = Len(Written(job)) + 2
         /\ Lies(File(job), job.writer, job.sent, 1, Len(Written(job)) + 1)
         /\ <<job.reader, job.writer>> \in Versions /\ job.reader.wire = "STRUCT"
         /\ job.reader \in TypeSet /\ job.writer \in TypeSet
         /\ job.sent \in Objects(job.writer) /\ job.into \in Objects(job.reader)
<1> DEFINE m == <<job.reader, job.writer>>
           W == Written(job)
           F == File(job)
<1>1. /\ m \in Versions /\ job.reader.wire = "STRUCT"
      /\ job.sent \in Objects(job.writer) /\ job.into \in Objects(job.reader)
      /\ job.lost \in 0..Len(F)
  BY JobsAssumption DEF JobOK, JobsAssumption
<1>2. job.reader \in TypeSet /\ job.writer \in TypeSet
  <2>1. m[1] = job.reader /\ m[2] = job.writer
    OBVIOUS
  <2> QED
    BY <1>1, <2>1, VersionsAre
<1>3. W \in Seq(Tokens)
  BY <1>1, <1>2, WriteType DEF Written
<1>4. F = W \o <<PageBytes, PageBytes>>
  BY DEF File
<1> DEFINE S == Tokens \cup {PageBytes}
           tail == <<PageBytes, PageBytes>>
<1>5. tail \in Seq(S) /\ Len(tail) = 2 /\ PageBytes \in S
  OBVIOUS
<1>6. W \in Seq(S)
  BY <1>3
<1> HIDE DEF W, F, S, tail
<1>7. /\ Len(W) \in Nat /\ F \in Seq(S) /\ Len(F) = Len(W) + 2 /\ Len(F) \in Nat
      /\ \A k \in 1..Len(W) : F[k] = W[k]
  BY <1>4, <1>5, <1>6 DEF tail
<1>8. Stands(F, W, 1, Len(W) + 1)
  BY <1>7 DEF Stands
<1>9. Lies(F, job.writer, job.sent, 1, Len(W) + 1)
  BY <1>8 DEF Lies, W, Written
<1>10. Len(stream) = Len(F) - job.lost /\ Len(stream) \in Nat /\ \A k \in 1..Len(stream) : stream[k] = F[k]
  <2> DEFINE n == Len(F) - job.lost
  <2>1. n \in 0..Len(F) /\ stream = SubSeq(F, 1, n)
    BY <1>1, <1>7 DEF JobOK, F
  <2> HIDE DEF n
  <2>2. Len(stream) = n /\ \A k \in 1..n : stream[k] = F[k]
    BY <1>7, <2>1
  <2> QED
    BY <2>1, <2>2 DEF n
<1>11. Begins(stream, F)
  BY <1>1, <1>7, <1>10 DEF Begins
<1> QED
  BY <1>1, <1>2, <1>7, <1>9, <1>10, <1>11 DEF W, F

\* Every call reads a part of what was sent, into what it was called on, and
\* has what it read of it so far; the innermost is where the stream is.
RecordsInv ==
  /\ JobOK
  /\ pos \in 1..Len(stream) + 1
  /\ outcome \in {"none", "read", "invalid", "cut"}
  /\ \E gs : /\ StackOK(job, stack, gs)
             /\ outcome = "none" => pos = Clip(stream, ReadAt(top, gs[Len(stack)]))
  /\ ReadsWhatItKnows
  /\ RefusesWhatItMust
  /\ StopsAtTheEnd

LEMMA InvInit ==
  ASSUME Init
  PROVE  RecordsInv
<1> DEFINE fr == RecordFrame(job.reader, job.into)
           F  == File(job)
           q  == Len(Written(job)) + 1
<1>1. JobOK
  BY DEF Init, JobOK
<1>2. /\ Len(F) \in Nat /\ <<job.reader, job.writer>> \in Versions /\ job.reader.wire = "STRUCT"
      /\ job.sent \in Objects(job.writer) /\ job.into \in Objects(job.reader)
      /\ Lies(F, job.writer, job.sent, 1, q) /\ Len(stream) \in Nat /\ q \in Nat
  BY <1>1, JobIs
<1>3. PICK g : /\ FrameOK(F, fr, g)
               /\ g.type = job.writer /\ g.obj = job.sent /\ g.old = job.into /\ g.end = q
               /\ ReadAt(fr, g) = 1
  <2> HIDE DEF q, F
  <2> QED
    BY <1>2, BeginsRecord
<1> DEFINE gs == [d \in {1} |-> g]
<1>4. stack = <<fr>> /\ fr.type = job.reader
  BY DEF Init, RecordFrame
<1> HIDE DEF fr
<1>5. Len(stack) = 1 /\ stack[1] = fr /\ gs[1] = g /\ stack \in Seq(Range(stack)) /\ 1..1 = {1}
  <2>1. stack \in Seq({fr})
    BY <1>4
  <2>2. stack \in Seq(Range(stack))
    BY <2>1, InOwnRange
  <2>3. Len(stack) = 1 /\ stack[1] = fr
    BY <1>4
  <2>4. gs[1] = g /\ 1..1 = {1}
    OBVIOUS
  <2> QED
    BY <2>2, <2>3, <2>4
<1> HIDE DEF gs
<1>6. PartOK(job, fr, g)
  BY <1>2, <1>3, <1>4 DEF PartOK
<1>7. RootOK(job, fr, g)
  BY <1>3, <1>4 DEF RootOK
<1>8. StackOK(job, stack, gs)
  <2>1. \A d \in 1..1, e \in 1..1 : ~ (e = d + 1)
    BY <1>5
  <2> QED
    BY <1>5, <1>6, <1>7, <2>1 DEF StackOK
<1>9. pos = 1 /\ outcome = "none"
  BY DEF Init
<1>10. pos = Clip(stream, ReadAt(top, gs[Len(stack)])) /\ pos \in 1..Len(stream) + 1
  BY <1>2, <1>3, <1>5, <1>9 DEF Clip, top
<1> QED
  BY <1>1, <1>8, <1>9, <1>10 DEF RecordsInv, ReadsWhatItKnows, RefusesWhatItMust, StopsAtTheEnd

-----------------------------------------------------------------------------
(* A call between two fields, at the next token.                            *)

SameSender(g, h) == h.type = g.type /\ h.obj = g.obj /\ h.old = g.old /\ h.end = g.end

\* The call is between two fields, and token p of the stream is where it is.
AtToken(F, in, fr, g, p) ==
  /\ Begins(in, F) /\ FrameOK(F, fr, g)
  /\ fr.type.wire = "STRUCT" /\ fr.at = 0
  /\ p = Clip(in, ReadAt(fr, g)) /\ p <= Len(in)

LEMMA AtTokenIs ==
  ASSUME NEW F, NEW in, NEW fr, NEW g, NEW p, AtToken(F, in, fr, g, p)
  PROVE  /\ \E h : AtNext(F, fr, h) /\ SameSender(g, h) /\ FrameOK(F, fr, h) /\ h.cuts[h.done] = p
         /\ in[p] = F[p] /\ p \in Nat /\ Len(in) \in Nat /\ Len(F) \in Nat
<1>1. RecordOK(F, fr, g) /\ fr.at = 0
  BY DEF AtToken, FrameOK, ListOK
<1>2. PICK m : AtNext(F, fr, DoneTo(g, m)) /\ g.cuts[m] = g.cuts[g.done]
  BY <1>1, NextField
<1>3. PICK h : h = DoneTo(g, m)
  OBVIOUS
<1>4. SameSender(g, h) /\ h.cuts[h.done] = g.cuts[g.done]
  BY <1>2, <1>3, DoneToIs DEF SameSender
<1>5. FrameOK(F, fr, h)
  BY <1>2, <1>3, <1>4 DEF AtNext, AtToken, FrameOK, SameSender
<1>6. Len(in) \in Nat /\ Len(F) \in Nat /\ FrameOK(F, fr, g)
  BY DEF AtToken, Begins
<1>7. ReadAt(fr, g) \in Nat /\ 1 <= ReadAt(fr, g) /\ ReadAt(fr, g) = g.cuts[g.done]
  BY <1>1, <1>6, ReadAtWhere DEF ReadAt
<1>8. p = g.cuts[g.done]
  BY <1>6, <1>7 DEF AtToken, Clip
<1>9. in[p] = F[p]
  <2>1. p \in 1..Len(in)
    BY <1>6, <1>7, <1>8 DEF AtToken
  <2> QED
    BY <2>1 DEF AtToken, Begins
<1> QED
  BY <1>2, <1>3, <1>4, <1>5, <1>6, <1>7, <1>8, <1>9

\* The head of a field is the one of the next that was sent.
LEMMA AtField ==
  ASSUME NEW F, NEW fr, NEW g, AtNext(F, fr, g), F[g.cuts[g.done]].is = "field"
  PROVE  /\ g.done + 1 \in 1..Len(g.type.fields)
         /\ g.type.fields[g.done + 1].name \in DOMAIN g.obj
         /\ F[g.cuts[g.done]] = FieldHead(g.type.fields[g.done + 1])
BY DEF AtNext, Stop

LEMMA KnownBegins ==
  ASSUME NEW F, NEW in, NEW fr, NEW g, NEW p, AtToken(F, in, fr, g, p), in[p].is = "field",
         NEW k \in DOMAIN fr.type.fields,
         fr.type.fields[k].id = in[p].id, fr.type.fields[k].type.wire = in[p].wire
  PROVE  LET fr2 == [fr EXCEPT !.at = k]
         IN  /\ fr2.type = fr.type
             /\ \E h : FrameOK(F, fr2, h) /\ SameSender(g, h) /\ p + 1 = Clip(in, ReadAt(fr2, h))
<1>1. PICK h : AtNext(F, fr, h) /\ SameSender(g, h) /\ FrameOK(F, fr, h) /\ h.cuts[h.done] = p
  BY AtTokenIs
<1>2. in[p] = F[p] /\ p \in Nat /\ Len(in) \in Nat /\ Len(F) \in Nat
  BY AtTokenIs
<1> DEFINE s == h.done + 1
           w == h.type.fields[s]
           r == fr.type
<1>3. s \in 1..Len(h.type.fields) /\ w.name \in DOMAIN h.obj /\ F[p] = FieldHead(w)
  <2>1. F[h.cuts[h.done]].is = "field"
    BY <1>1, <1>2
  <2> QED
    BY <1>1, <2>1, AtField
<1>4. RecordOK(F, fr, h)
  BY <1>1 DEF AtNext
<1>5. h.type \in TypeSet /\ h.type.wire = "STRUCT" /\ r \in TypeSet /\ r.wire = "STRUCT"
      /\ DOMAIN h.type.fields = 1..Len(h.type.fields) /\ DOMAIN r.fields = 1..Len(r.fields)
  <2>1. h.type \in TypeSet /\ h.type.wire = "STRUCT" /\ r \in TypeSet /\ r.wire = "STRUCT"
    BY <1>4, RecordVersions
  <2> QED
    BY <2>1, FieldsAre
<1>6. s \in SentAs(r.fields[k], h.type, h.obj)
  <2>1. w.id = r.fields[k].id /\ w.type.wire = r.fields[k].type.wire
    BY <1>2, <1>3 DEF FieldHead
  <2> QED
    BY <1>3, <1>5, <2>1 DEF SentAs, Meets
<1>7. k # 0
  BY <1>5
<1> DEFINE fr2 == [fr EXCEPT !.at = k]
<1>8. fr2 = [type |-> r, obj |-> SoFar(r, h.type, h.obj, h.old, h.done),
             seen |-> Seen(r, h.type, h.obj, h.done), at |-> k]
  <2>1. fr = [type |-> r, obj |-> SoFar(r, h.type, h.obj, h.old, h.done),
              seen |-> Seen(r, h.type, h.obj, h.done), at |-> fr.at]
    BY <1>4 DEF RecordOK
  <2> DEFINE a == SoFar(r, h.type, h.obj, h.old, h.done)
             b == Seen(r, h.type, h.obj, h.done)
  <2> HIDE DEF a, b, r
  <2>2. fr = [type |-> r, obj |-> a, seen |-> b, at |-> fr.at]
    BY <2>1 DEF a, b, r
  <2>3. fr2 = [type |-> r, obj |-> a, seen |-> b, at |-> k]
    BY <2>2
  <2> QED
    BY <2>3 DEF a, b
<1>9. fr2.type = r /\ fr2.at = k
  BY <1>8
<1> HIDE DEF fr2
<1>10. RecordOK(F, fr2, h)
  BY <1>4, <1>6, <1>7, <1>8, <1>9 DEF RecordOK, CallOK
<1>11. FrameOK(F, fr2, h)
  BY <1>1, <1>10 DEF FrameOK
<1>12. ReadAt(fr2, h) = p + 1
  BY <1>1, <1>5, <1>7, <1>9 DEF ReadAt
<1>13. p + 1 = Clip(in, ReadAt(fr2, h))
  BY <1>2, <1>12 DEF Clip, AtToken
<1> QED
  BY <1>1, <1>9, <1>11, <1>13 DEF fr2

LEMMA UnknownSkips ==
  ASSUME NEW F, NEW in, NEW fr, NEW g, NEW p, AtToken(F, in, fr, g, p), in[p].is = "field",
         ~ \E k \in DOMAIN fr.type.fields :
             fr.type.fields[k].id = in[p].id /\ fr.type.fields[k].type.wire = in[p].wire
  PROVE  \E h : FrameOK(F, fr, h) /\ SameSender(g, h) /\ Skip(in, p + 1) = Clip(in, ReadAt(fr, h))
<1>1. PICK h : AtNext(F, fr, h) /\ SameSender(g, h) /\ FrameOK(F, fr, h) /\ h.cuts[h.done] = p
  BY AtTokenIs
<1>2. in[p] = F[p] /\ p \in Nat /\ Len(in) \in Nat /\ Len(F) \in Nat
  BY AtTokenIs
<1> DEFINE s == h.done + 1
           w == h.type.fields[s]
           r == fr.type
<1>3. s \in 1..Len(h.type.fields) /\ w.name \in DOMAIN h.obj /\ F[p] = FieldHead(w)
  <2>1. F[h.cuts[h.done]].is = "field"
    BY <1>1, <1>2
  <2> QED
    BY <1>1, <2>1, AtField
<1>4. RecordOK(F, fr, h)
  BY <1>1 DEF AtNext
<1>5. /\ h.type \in TypeSet /\ h.type.wire = "STRUCT" /\ Len(h.type.fields) \in Nat /\ h.obj \in Objects(h.type)
      /\ DOMAIN h.type.fields = 1..Len(h.type.fields) /\ h.done \in 0..Len(h.type.fields)
  <2>1. h.type \in TypeSet /\ h.type.wire = "STRUCT" /\ h.obj \in Objects(h.type)
        /\ h.done \in 0..Len(h.type.fields)
    BY <1>4, RecordVersions
  <2> QED
    BY <2>1, FieldsAre
<1>6. s - 1 = h.done
  BY <1>5
<1>7. w.type \in TypeSet /\ h.obj[w.name] \in Objects(w.type)
  BY <1>3, <1>5, FieldsAre, ObjectsAre
<1>8. Lies(F, w.type, h.obj[w.name], p + 1, h.cuts[s])
  <2>1. RecordLies(F, h.type, h.obj, h.cuts[0], h.end, h.cuts)
    BY <1>4 DEF RecordOK
  <2> HIDE DEF s
  <2>2. Lies(F, w.type, h.obj[w.name], h.cuts[s - 1] + 1, h.cuts[s])
    BY <1>3, <2>1 DEF RecordLies
  <2> QED
    BY <1>1, <1>6, <2>2
<1>9. PICK n : n = s
  OBVIOUS
<1>10. RecordOK(F, fr, DoneTo(h, n))
  <2>1. n \in 1..Len(h.type.fields) /\ h.done = n - 1
    BY <1>3, <1>6, <1>9
  <2>2. fr.at = 0
    BY DEF AtToken
  <2>3. ASSUME NEW i \in DOMAIN r.fields PROVE n \notin SentAs(r.fields[i], h.type, h.obj)
    <3>1. n \in SentAs(r.fields[i], h.type, h.obj)
            => w.id = r.fields[i].id /\ w.type.wire = r.fields[i].type.wire
      BY <1>9 DEF SentAs, Meets
    <3> QED
      BY <1>2, <1>3, <3>1 DEF FieldHead
  <2> QED
    BY <1>4, <2>1, <2>2, <2>3, NothingNew
<1>11. PICK e : e = DoneTo(h, n)
  OBVIOUS
<1>12. SameSender(g, e) /\ e.cuts = h.cuts /\ e.done = n
  BY <1>1, <1>11, DoneToIs DEF SameSender
<1>13. FrameOK(F, fr, e)
  BY <1>1, <1>10, <1>11, <1>12 DEF FrameOK, SameSender
<1>14. ReadAt(fr, e) = h.cuts[s]
  BY <1>9, <1>12 DEF ReadAt, AtToken
<1>15. Skip(in, p + 1) = Clip(in, h.cuts[s])
  <2>1. PICK a, b, c, d : a = p + 1 /\ b = h.cuts[s] /\ c = w.type /\ d = h.obj[w.name]
    OBVIOUS
  <2>2. Begins(in, F) /\ a <= Len(in) + 1
    BY <1>2, <2>1 DEF AtToken
  <2>3. c \in TypeSet /\ d \in Objects(c) /\ Lies(F, c, d, a, b)
    BY <1>7, <1>8, <2>1
  <2>4. Skip(in, a) = Clip(in, b)
    BY <2>2, <2>3, SkipEnds
  <2> QED
    BY <2>1, <2>4
<1> QED
  BY <1>12, <1>13, <1>14, <1>15

LEMMA StopEnds ==
  ASSUME NEW F, NEW in, NEW fr, NEW g, NEW p, AtToken(F, in, fr, g, p), in[p].is = "stop"
  PROVE  /\ \E h : RecordOK(F, fr, h) /\ SameSender(g, h) /\ h.done = Len(h.type.fields)
         /\ p + 1 = g.end /\ p + 1 = Clip(in, g.end)
<1>1. PICK h : AtNext(F, fr, h) /\ SameSender(g, h) /\ FrameOK(F, fr, h) /\ h.cuts[h.done] = p
  BY AtTokenIs
<1>2. in[p] = F[p] /\ p \in Nat /\ Len(in) \in Nat /\ Len(F) \in Nat
  BY AtTokenIs
<1>3. h.done = Len(h.type.fields) /\ p = h.end - 1
  BY <1>1, <1>2 DEF AtNext, FieldHead
<1>4. h.end = g.end /\ h.end \in Nat
  BY <1>1 DEF SameSender, FrameOK
<1>5. p + 1 = g.end
  BY <1>2, <1>3, <1>4
<1>6. p + 1 = Clip(in, g.end)
  BY <1>2, <1>4, <1>5 DEF Clip, AtToken
<1>7. RecordOK(F, fr, h)
  BY <1>1 DEF AtNext
<1> QED
  BY <1>1, <1>3, <1>5, <1>6, <1>7

-----------------------------------------------------------------------------
(* A call about to read a value.                                            *)

AtValue(F, in, fr, g, p) ==
  Begins(in, F) /\ FrameOK(F, fr, g) /\ Asks(fr) /\ p = Clip(in, ReadAt(fr, g))

\* The parts of AskOK, with names of their own.
Named(F, in, fr, g, p, r, w, v, q, m) ==
  /\ r = WantedBy(fr) /\ w = SentType(g) /\ v = SentValue(g) /\ q = g.cuts[g.done + 1]
  /\ m = MemberOf(fr) /\ <<r, w>> \in Versions /\ r \in TypeSet /\ w \in TypeSet
  /\ r.wire = w.wire /\ v \in Objects(w) /\ m \in Objects(r)
  /\ Lies(F, w, v, ReadAt(fr, g), q)
  /\ p \in Nat /\ q \in Nat /\ q <= g.end /\ g.end \in Nat
  /\ p <= Len(in) => p = ReadAt(fr, g) /\ in[p] = F[p]

LEMMA AtValueIs ==
  ASSUME NEW F, NEW in, NEW fr, NEW g, NEW p, AtValue(F, in, fr, g, p)
  PROVE  /\ Len(F) \in Nat /\ Len(in) \in Nat
         /\ \E r, w, v, q, m : Named(F, in, fr, g, p, r, w, v, q, m)
<1>1. Begins(in, F) /\ FrameOK(F, fr, g) /\ Asks(fr) /\ Len(F) \in Nat /\ Len(in) \in Nat
  BY DEF AtValue, Begins
<1>2. AskOK(F, fr, g)
  BY <1>1, FrameAsks
<1>3. PICK r, w, v, q, m, a : /\ r = WantedBy(fr) /\ w = SentType(g) /\ v = SentValue(g)
                              /\ q = g.cuts[g.done + 1] /\ m = MemberOf(fr) /\ a = <<r, w>>
  OBVIOUS
<1>4. a \in Versions /\ v \in Objects(w) /\ m \in Objects(r) /\ Lies(F, w, v, ReadAt(fr, g), q) /\ q <= g.end
  BY <1>2, <1>3 DEF AskOK
<1>5. r \in TypeSet /\ w \in TypeSet /\ r.wire = w.wire
  <2>1. a[1] = r /\ a[2] = w
    BY <1>3
  <2> QED
    BY <1>4, <2>1, VersionsAre
<1>6. PICK b : b = ReadAt(fr, g)
  OBVIOUS
<1>7. b \in Nat /\ q \in Nat /\ 1 <= b
  <2>1. Lies(F, w, v, b, q)
    BY <1>4, <1>6
  <2> QED
    BY <1>1, <1>4, <1>5, <2>1, LiesWhere
<1>8. p = Clip(in, b)
  BY <1>6 DEF AtValue
<1>9. p \in Nat /\ (p <= Len(in) => p = b)
  BY <1>1, <1>7, <1>8 DEF Clip
<1>10. p <= Len(in) => in[p] = F[p]
  BY <1>1, <1>7, <1>9 DEF Begins
<1>11. g.end \in Nat
  BY <1>1 DEF FrameOK
<1>12. Named(F, in, fr, g, p, r, w, v, q, m)
  BY <1>3, <1>4, <1>5, <1>6, <1>7, <1>9, <1>10, <1>11 DEF Named
<1> QED
  BY <1>1, <1>12

LEMMA ValueReads ==
  ASSUME NEW F, NEW in, NEW fr, NEW g, NEW p, AtValue(F, in, fr, g, p), p <= Len(in),
         WantedBy(fr).wire \notin {"STRUCT", "LIST"}
  PROVE  LET fr2 == Store(fr, in[p].val)
         IN  /\ fr2.type = fr.type
             /\ \E h : FrameOK(F, fr2, h) /\ SameSender(g, h) /\ p + 1 = Clip(in, ReadAt(fr2, h))
<1>1. Len(F) \in Nat /\ Len(in) \in Nat
  BY AtValueIs
<1>2. PICK r, w, v, q, m : Named(F, in, fr, g, p, r, w, v, q, m)
  BY AtValueIs
<1>3. F[p] = Value(v) /\ q = p + 1
  <2>1. Lies(F, w, v, p, q) /\ w.wire \notin {"STRUCT", "LIST"}
    BY <1>2 DEF Named
  <2> QED
    BY <1>1, <1>2, <2>1, LiesAsValue DEF Named
<1>4. PICK x : x = in[p].val
  OBVIOUS
<1>5. x = v
  BY <1>2, <1>3, <1>4 DEF Value, Named
<1>6. PICK a : a = <<r, w>>
  OBVIOUS
<1>7. a \in Versions /\ a[1] = r /\ a[2] = w /\ a[1].wire \notin {"STRUCT", "LIST"}
  BY <1>2, <1>6 DEF Named
<1>8. Understood[a][v][m] = v /\ Readable[a][v]
  <2>1. v \in Objects(a[2]) /\ m \in Objects(a[1])
    BY <1>2, <1>7 DEF Named
  <2> QED
    BY <1>7, <2>1, UnderstoodValue, ReadableValue
<1>9. FrameOK(F, fr, g) /\ Asks(fr)
  BY DEF AtValue
<1>10. /\ FrameOK(F, Store(fr, x), DoneTo(g, g.done + 1))
       /\ Store(fr, x).type = fr.type /\ ReadAt(Store(fr, x), DoneTo(g, g.done + 1)) = g.cuts[g.done + 1]
  <2>1. x = Understood[<<WantedBy(fr), SentType(g)>>][SentValue(g)][MemberOf(fr)]
    BY <1>2, <1>5, <1>6, <1>8 DEF Named
  <2>2. Readable[<<WantedBy(fr), SentType(g)>>][SentValue(g)]
    BY <1>2, <1>6, <1>8 DEF Named
  <2> QED
    BY <1>1, <1>9, <2>1, <2>2, FrameStores
<1>11. PICK h : h = DoneTo(g, g.done + 1)
  OBVIOUS
<1>12. SameSender(g, h)
  BY <1>11, DoneToIs DEF SameSender
<1>13. p + 1 = Clip(in, q)
  BY <1>1, <1>2, <1>3 DEF Clip, Named
<1> QED
  BY <1>2, <1>4, <1>10, <1>11, <1>12, <1>13 DEF Named

LEMMA ListBegins ==
  ASSUME NEW F, NEW in, NEW fr, NEW g, NEW p, AtValue(F, in, fr, g, p), p <= Len(in),
         WantedBy(fr).wire = "LIST"
  PROVE  LET fr2 == ListFrame(WantedBy(fr), in[p].size)
         IN  \E h : FrameOK(F, fr2, h) /\ Calls(fr, g, fr2, h) /\ p + 1 = Clip(in, ReadAt(fr2, h))
<1>1. Len(F) \in Nat /\ Len(in) \in Nat
  BY AtValueIs
<1>2. PICK r, w, v, q, m : Named(F, in, fr, g, p, r, w, v, q, m)
  BY AtValueIs
<1>3. Lies(F, w, v, p, q) /\ r.wire = "LIST"
  BY <1>2 DEF Named
<1>4. F[p] = ListHead(Len(v))
  BY <1>1, <1>2, <1>3, BeginsList DEF Named
<1>5. PICK h : /\ FrameOK(F, ListFrame(r, Len(v)), h)
               /\ h.type = w /\ h.obj = v /\ h.old = m /\ h.end = q
               /\ ReadAt(ListFrame(r, Len(v)), h) = p + 1
  BY <1>1, <1>2, <1>3, BeginsList DEF Named
<1>6. in[p].size = Len(v)
  BY <1>2, <1>4 DEF ListHead, Named
<1>7. ListFrame(r, Len(v)).type = r
  BY DEF ListFrame
<1>8. Calls(fr, g, ListFrame(r, Len(v)), h)
  BY <1>2, <1>5, <1>7 DEF Calls, AtValue, Named
<1>9. p + 1 = Clip(in, p + 1)
  BY <1>1, <1>2 DEF Clip, Named
<1> QED
  BY <1>2, <1>5, <1>6, <1>8, <1>9 DEF Named

LEMMA RecordBegins ==
  ASSUME NEW F, NEW in, NEW fr, NEW g, NEW p, AtValue(F, in, fr, g, p), WantedBy(fr).wire = "STRUCT"
  PROVE  LET fr2 == RecordFrame(WantedBy(fr), MemberOf(fr))
         IN  \E h : FrameOK(F, fr2, h) /\ Calls(fr, g, fr2, h) /\ p = Clip(in, ReadAt(fr2, h))
<1>1. Len(F) \in Nat /\ Len(in) \in Nat
  BY AtValueIs
<1>2. PICK r, w, v, q, m : Named(F, in, fr, g, p, r, w, v, q, m)
  BY AtValueIs
<1>3. PICK a : a = ReadAt(fr, g)
  OBVIOUS
<1>4. Lies(F, w, v, a, q) /\ r.wire = "STRUCT"
  BY <1>2, <1>3 DEF Named
<1>5. PICK h : /\ FrameOK(F, RecordFrame(r, m), h)
               /\ h.type = w /\ h.obj = v /\ h.old = m /\ h.end = q
               /\ ReadAt(RecordFrame(r, m), h) = a
  BY <1>1, <1>2, <1>4, BeginsRecord DEF Named
<1>6. RecordFrame(r, m).type = r
  BY DEF RecordFrame
<1>7. Calls(fr, g, RecordFrame(r, m), h)
  BY <1>2, <1>5, <1>6 DEF Calls, AtValue, Named
<1>8. p = Clip(in, a)
  BY <1>3 DEF AtValue
<1> QED
  BY <1>2, <1>5, <1>7, <1>8 DEF Named

\* What a call makes is a part, too.
LEMMA PartCalls ==
  ASSUME NEW j, NEW fr, NEW g, PartOK(j, fr, g), Len(File(j)) \in Nat, Len(Written(j)) \in Nat,
         NEW fr2, NEW h, FrameOK(File(j), fr2, h), Calls(fr, g, fr2, h)
  PROVE  PartOK(j, fr2, h)
<1>1. AskOK(File(j), fr, g)
  <2>1. FrameOK(File(j), fr, g) /\ Asks(fr)
    BY DEF PartOK, Calls
  <2> QED
    BY <2>1, FrameAsks
<1>2. h.end <= g.end /\ g.end <= Len(Written(j)) + 1 /\ h.end \in Nat /\ g.end \in Nat
  BY <1>1 DEF AskOK, Calls, PartOK, FrameOK
<1>3. h.end <= Len(Written(j)) + 1
  BY <1>2
<1>4. Readable[<<j.reader, j.writer>>][j.sent] => Readable[<<fr2.type, h.type>>][h.obj]
  BY <1>1 DEF AskOK, Calls, PartOK
<1> QED
  BY <1>3, <1>4 DEF PartOK

LEMMA PartGoesOn ==
  ASSUME NEW j, NEW fr, NEW g, PartOK(j, fr, g), NEW fr2, NEW h, FrameOK(File(j), fr2, h),
         fr2.type = fr.type, SameSender(g, h)
  PROVE  PartOK(j, fr2, h)
BY DEF PartOK, SameSender

-----------------------------------------------------------------------------
(* Each action keeps the invariant. *)

LEMMA StillReading ==
  ASSUME RecordsInv, UNCHANGED input, outcome' = "none", NEW hs, StackOK(job, stack', hs),
         pos' = Clip(stream, ReadAt(stack'[Len(stack')], hs[Len(stack')]))
  PROVE  RecordsInv'
<1>1. Len(File(job)) \in Nat /\ Len(stream) \in Nat /\ JobOK
  BY JobIs DEF RecordsInv
<1>2. job' = job /\ stream' = stream
  BY DEF input
<1>3. JobOK'
  BY <1>1, <1>2 DEF JobOK, File, Written
<1> DEFINE t == stack'
           a == ReadAt(t[Len(t)], hs[Len(t)])
<1>4. a \in Nat /\ 1 <= a
  <2>1. PartOK(job, t[Len(t)], hs[Len(t)])
    BY StackIs
  <2>2. FrameOK(File(job), t[Len(t)], hs[Len(t)])
    BY <2>1 DEF PartOK
  <2> QED
    BY <1>1, <2>2, ReadAtWhere
<1>5. pos' \in 1..Len(stream') + 1
  <2> HIDE DEF a
  <2>1. pos' = Clip(stream, a)
    BY DEF a
  <2> QED
    BY <1>1, <1>2, <1>4, <2>1 DEF Clip
<1>6. StackOK(job', stack', hs)
  BY <1>2
<1>7. pos' = Clip(stream', ReadAt(top', hs[Len(stack')]))
  BY <1>2 DEF top
<1> QED
  BY <1>3, <1>5, <1>6, <1>7 DEF RecordsInv, ReadsWhatItKnows, RefusesWhatItMust, StopsAtTheEnd

\* Where the innermost call is.
LEMMA InvTop ==
  ASSUME RecordsInv, outcome = "none"
  PROVE  /\ JobOK /\ Len(File(job)) \in Nat /\ Len(stream) \in Nat /\ Len(Written(job)) \in Nat
         /\ Begins(stream, File(job))
         /\ \E gs : /\ StackOK(job, stack, gs) /\ PartOK(job, top, gs[Len(stack)])
                    /\ FrameOK(File(job), top, gs[Len(stack)])
                    /\ pos = Clip(stream, ReadAt(top, gs[Len(stack)]))
<1>1. PICK gs : StackOK(job, stack, gs) /\ pos = Clip(stream, ReadAt(top, gs[Len(stack)]))
  BY DEF RecordsInv
<1>2. PartOK(job, top, gs[Len(stack)])
  BY <1>1, StackIs DEF top
<1>3. FrameOK(File(job), top, gs[Len(stack)])
  BY <1>2 DEF PartOK
<1>4. JobOK
  BY DEF RecordsInv
<1> QED
  BY <1>1, <1>2, <1>3, <1>4, JobIs

\* The innermost call goes on with fr.
LEMMA GoesOn ==
  ASSUME RecordsInv, UNCHANGED <<input, outcome>>, outcome = "none",
         NEW gs, StackOK(job, stack, gs), PartOK(job, top, gs[Len(stack)]),
         NEW fr, stack' = [stack EXCEPT ![Len(stack)] = fr], fr.type = top.type,
         NEW h, FrameOK(File(job), fr, h), SameSender(gs[Len(stack)], h),
         pos' = Clip(stream, ReadAt(fr, h))
  PROVE  RecordsInv'
<1>1. PartOK(job, fr, h)
  BY PartGoesOn
<1> DEFINE t == [stack EXCEPT ![Len(stack)] = fr]
<1>2. t[Len(t)] = fr /\ \E hs : StackOK(job, t, hs) /\ hs[Len(t)] = h
  <2>1. PICK s, j : s = stack /\ j = job
    OBVIOUS
  <2>2. StackOK(j, s, gs) /\ PartOK(j, fr, h)
    BY <1>1, <2>1
  <2>3. fr.type = s[Len(s)].type /\ h.type = gs[Len(s)].type /\ h.obj = gs[Len(s)].obj
        /\ h.old = gs[Len(s)].old /\ h.end = gs[Len(s)].end
    BY <2>1 DEF SameSender, top
  <2> DEFINE u == [s EXCEPT ![Len(s)] = fr]
  <2>4. u[Len(u)] = fr /\ \E hs : StackOK(j, u, hs) /\ hs[Len(u)] = h
    BY <2>2, <2>3, StackGoesOn
  <2> QED
    BY <2>1, <2>4
<1>3. PICK hs : StackOK(job, t, hs) /\ hs[Len(t)] = h
  BY <1>2
<1>4. stack' = t /\ outcome' = "none" /\ UNCHANGED input
  OBVIOUS
<1> HIDE DEF t
<1>5. StackOK(job, stack', hs) /\ pos' = Clip(stream, ReadAt(stack'[Len(stack')], hs[Len(stack')]))
  BY <1>2, <1>3, <1>4
<1> QED
  BY <1>4, <1>5, StillReading

\* It calls fr.
LEMMA MakesCall ==
  ASSUME RecordsInv, UNCHANGED <<input, outcome>>, outcome = "none",
         NEW gs, StackOK(job, stack, gs), PartOK(job, top, gs[Len(stack)]),
         NEW fr, stack' = Append(stack, fr),
         NEW h, FrameOK(File(job), fr, h), Calls(top, gs[Len(stack)], fr, h),
         pos' = Clip(stream, ReadAt(fr, h))
  PROVE  RecordsInv'
<1>1. PartOK(job, fr, h)
  <2>1. Len(File(job)) \in Nat /\ Len(Written(job)) \in Nat
    BY JobIs DEF RecordsInv
  <2> QED
    BY <2>1, PartCalls
<1> DEFINE t == Append(stack, fr)
<1>2. t[Len(t)] = fr /\ \E hs : StackOK(job, t, hs) /\ hs[Len(t)] = h
  <2>1. Calls(stack[Len(stack)], gs[Len(stack)], fr, h)
    BY DEF top
  <2> QED
    BY <1>1, <2>1, StackCalls
<1>3. PICK hs : StackOK(job, t, hs) /\ hs[Len(t)] = h
  BY <1>2
<1>4. stack' = t /\ outcome' = "none" /\ UNCHANGED input
  OBVIOUS
<1> HIDE DEF t
<1>5. StackOK(job, stack', hs) /\ pos' = Clip(stream, ReadAt(stack'[Len(stack')], hs[Len(stack')]))
  BY <1>2, <1>3, <1>4
<1> QED
  BY <1>4, <1>5, StillReading

\* It returns.
LEMMA Returns ==
  ASSUME RecordsInv, UNCHANGED <<input, outcome>>, outcome = "none",
         NEW gs, StackOK(job, stack, gs), Len(stack) # 1,
         Answers(top, gs[Len(stack)]),
         stack' = Deliver(Front(stack), Answer(top, gs[Len(stack)])),
         pos' = Clip(stream, gs[Len(stack)].end)
  PROVE  RecordsInv'
<1>1. Len(File(job)) \in Nat
  BY JobIs DEF RecordsInv
<1>2. StackAt(job, stack', gs[Len(stack)].end)
  BY <1>1, ReturnStores DEF top
<1>3. PICK hs : StackOK(job, stack', hs) /\ ReadAt(stack'[Len(stack')], hs[Len(stack')]) = gs[Len(stack)].end
  BY <1>2 DEF StackAt
<1>4. outcome' = "none" /\ UNCHANGED input
  OBVIOUS
<1>5. pos' = Clip(stream, ReadAt(stack'[Len(stack')], hs[Len(stack')]))
  BY <1>3
<1> QED
  BY <1>3, <1>4, <1>5, StillReading

LEMMA InvKnownField ==
  ASSUME RecordsInv, KnownField
  PROVE  RecordsInv'
<1>1. outcome = "none" /\ UNCHANGED <<input, outcome>>
  BY DEF KnownField
<1>2. PICK gs : /\ StackOK(job, stack, gs) /\ PartOK(job, top, gs[Len(stack)])
                /\ FrameOK(File(job), top, gs[Len(stack)])
                /\ pos = Clip(stream, ReadAt(top, gs[Len(stack)]))
  BY <1>1, InvTop
<1>3. PICK g : g = gs[Len(stack)]
  OBVIOUS
<1>4. AtToken(File(job), stream, top, g, pos) /\ stream[pos].is = "field"
  BY <1>1, <1>2, <1>3, InvTop DEF AtToken, KnownField, Between, InRecord, Here
<1>5. PICK k \in DOMAIN top.type.fields :
        /\ top.type.fields[k].id = stream[pos].id /\ top.type.fields[k].type.wire = stream[pos].wire
        /\ stack' = [stack EXCEPT ![Len(stack)].at = k]
  BY DEF KnownField, Known
<1>6. PICK fr : fr = [top EXCEPT !.at = k]
  OBVIOUS
<1>7. stack' = [stack EXCEPT ![Len(stack)] = fr]
  BY <1>5, <1>6 DEF top
<1>8. /\ fr.type = top.type
      /\ \E h : FrameOK(File(job), fr, h) /\ SameSender(g, h) /\ pos + 1 = Clip(stream, ReadAt(fr, h))
  <2>1. PICK F, in, f, p : F = File(job) /\ in = stream /\ f = top /\ p = pos
    OBVIOUS
  <2>2. AtToken(F, in, f, g, p) /\ in[p].is = "field"
    BY <1>4, <2>1
  <2>3. k \in DOMAIN f.type.fields /\ f.type.fields[k].id = in[p].id
        /\ f.type.fields[k].type.wire = in[p].wire
    BY <1>5, <2>1
  <2> DEFINE u == [f EXCEPT !.at = k]
  <2>4. u.type = f.type /\ \E h : FrameOK(F, u, h) /\ SameSender(g, h) /\ p + 1 = Clip(in, ReadAt(u, h))
    BY <2>2, <2>3, KnownBegins
  <2> QED
    BY <1>6, <2>1, <2>4
<1>9. PICK h : FrameOK(File(job), fr, h) /\ SameSender(g, h) /\ pos + 1 = Clip(stream, ReadAt(fr, h))
  BY <1>8
<1>10. pos' = Clip(stream, ReadAt(fr, h))
  BY <1>9 DEF KnownField
<1> QED
  BY <1>1, <1>2, <1>3, <1>7, <1>8, <1>9, <1>10, GoesOn

LEMMA InvSkipField ==
  ASSUME RecordsInv, SkipField
  PROVE  RecordsInv'
<1>1. outcome = "none" /\ UNCHANGED <<input, outcome>> /\ stack' = stack
  BY DEF SkipField
<1>2. PICK gs : /\ StackOK(job, stack, gs) /\ PartOK(job, top, gs[Len(stack)])
                /\ FrameOK(File(job), top, gs[Len(stack)])
                /\ pos = Clip(stream, ReadAt(top, gs[Len(stack)]))
  BY <1>1, InvTop
<1>3. PICK g : g = gs[Len(stack)]
  OBVIOUS
<1>4. AtToken(File(job), stream, top, g, pos) /\ stream[pos].is = "field"
  BY <1>1, <1>2, <1>3, InvTop DEF AtToken, SkipField, Between, InRecord, Here
<1>5. ~ \E k \in DOMAIN top.type.fields :
          top.type.fields[k].id = stream[pos].id /\ top.type.fields[k].type.wire = stream[pos].wire
  BY DEF SkipField, Known
<1>6. PICK h : FrameOK(File(job), top, h) /\ SameSender(g, h) /\ Skip(stream, pos + 1) = Clip(stream, ReadAt(top, h))
  BY <1>4, <1>5, UnknownSkips
<1>7. stack' = [stack EXCEPT ![Len(stack)] = top]
  <2>1. stack \in Seq(Range(stack)) /\ DOMAIN stack = 1..Len(stack)
    BY <1>2, StackIs DEF StackOK
  <2> QED
    BY <1>1, <2>1 DEF top
<1>8. pos' = Clip(stream, ReadAt(top, h))
  BY <1>6 DEF SkipField
<1> QED
  BY <1>1, <1>2, <1>3, <1>6, <1>7, <1>8, GoesOn

LEMMA InvReadValue ==
  ASSUME RecordsInv, ReadValue
  PROVE  RecordsInv'
<1>1. outcome = "none" /\ UNCHANGED <<input, outcome>>
  BY DEF ReadValue
<1>2. PICK gs : /\ StackOK(job, stack, gs) /\ PartOK(job, top, gs[Len(stack)])
                /\ FrameOK(File(job), top, gs[Len(stack)])
                /\ pos = Clip(stream, ReadAt(top, gs[Len(stack)]))
  BY <1>1, InvTop
<1>3. PICK g : g = gs[Len(stack)]
  OBVIOUS
<1>4. Asks(top)
  BY DEF ReadValue, Asks, Between, InRecord, InList
<1>5. AtValue(File(job), stream, top, g, pos)
  BY <1>1, <1>2, <1>3, <1>4, InvTop DEF AtValue
<1>6. pos <= Len(stream) /\ WantedBy(top).wire \notin {"STRUCT", "LIST"}
  BY DEF ReadValue, Here, Wanted
<1>7. PICK fr : fr = Store(top, stream[pos].val)
  OBVIOUS
<1>8. /\ fr.type = top.type
      /\ \E h : FrameOK(File(job), fr, h) /\ SameSender(g, h) /\ pos + 1 = Clip(stream, ReadAt(fr, h))
  BY <1>5, <1>6, <1>7, ValueReads
<1>9. PICK h : FrameOK(File(job), fr, h) /\ SameSender(g, h) /\ pos + 1 = Clip(stream, ReadAt(fr, h))
  BY <1>8
<1>10. stack' = [stack EXCEPT ![Len(stack)] = fr] /\ pos' = Clip(stream, ReadAt(fr, h))
  BY <1>7, <1>9 DEF ReadValue, Deliver, top
<1> QED
  BY <1>1, <1>2, <1>3, <1>8, <1>9, <1>10, GoesOn

LEMMA InvReadListBegin ==
  ASSUME RecordsInv, ReadListBegin
  PROVE  RecordsInv'
<1>1. outcome = "none" /\ UNCHANGED <<input, outcome>>
  BY DEF ReadListBegin
<1>2. PICK gs : /\ StackOK(job, stack, gs) /\ PartOK(job, top, gs[Len(stack)])
                /\ FrameOK(File(job), top, gs[Len(stack)])
                /\ pos = Clip(stream, ReadAt(top, gs[Len(stack)]))
  BY <1>1, InvTop
<1>3. PICK g : g = gs[Len(stack)]
  OBVIOUS
<1>4. Asks(top)
  BY DEF ReadListBegin, Asks, Between, InRecord
<1>5. AtValue(File(job), stream, top, g, pos)
  BY <1>1, <1>2, <1>3, <1>4, InvTop DEF AtValue
<1>6. pos <= Len(stream) /\ WantedBy(top).wire = "LIST"
  BY DEF ReadListBegin, Here, Wanted
<1>7. PICK fr : fr = ListFrame(WantedBy(top), stream[pos].size)
  OBVIOUS
<1>8. PICK h : FrameOK(File(job), fr, h) /\ Calls(top, g, fr, h) /\ pos + 1 = Clip(stream, ReadAt(fr, h))
  BY <1>5, <1>6, <1>7, ListBegins
<1>9. stack' = Append(stack, fr) /\ pos' = Clip(stream, ReadAt(fr, h))
  BY <1>7, <1>8 DEF ReadListBegin, Wanted
<1> QED
  BY <1>1, <1>2, <1>3, <1>8, <1>9, MakesCall

LEMMA InvReadRecord ==
  ASSUME RecordsInv, ReadRecord
  PROVE  RecordsInv'
<1>1. outcome = "none" /\ UNCHANGED <<input, outcome>>
  BY DEF ReadRecord
<1>2. PICK gs : /\ StackOK(job, stack, gs) /\ PartOK(job, top, gs[Len(stack)])
                /\ FrameOK(File(job), top, gs[Len(stack)])
                /\ pos = Clip(stream, ReadAt(top, gs[Len(stack)]))
  BY <1>1, InvTop
<1>3. PICK g : g = gs[Len(stack)]
  OBVIOUS
<1>4. Asks(top)
  BY DEF ReadRecord, Asks, Between, InRecord, InList
<1>5. AtValue(File(job), stream, top, g, pos) /\ WantedBy(top).wire = "STRUCT"
  BY <1>1, <1>2, <1>3, <1>4, InvTop DEF AtValue, ReadRecord, Wanted
<1>6. PICK fr : fr = RecordFrame(WantedBy(top), MemberOf(top))
  OBVIOUS
<1>7. PICK h : FrameOK(File(job), fr, h) /\ Calls(top, g, fr, h) /\ pos = Clip(stream, ReadAt(fr, h))
  BY <1>5, <1>6, RecordBegins
<1>8. Member = MemberOf(top)
  BY DEF Member, MemberOf, InRecord, Wanted
<1>9. stack' = Append(stack, fr) /\ pos' = Clip(stream, ReadAt(fr, h))
  BY <1>6, <1>7, <1>8 DEF ReadRecord, Wanted
<1> QED
  BY <1>1, <1>2, <1>3, <1>7, <1>9, MakesCall

LEMMA InvReadListEnd ==
  ASSUME RecordsInv, ReadListEnd
  PROVE  RecordsInv'
<1>1. outcome = "none" /\ UNCHANGED <<input, outcome>> /\ ~Asks(top) /\ top.type.wire # "STRUCT"
  BY DEF ReadListEnd, Asks, InRecord, InList
<1>2. PICK gs : /\ StackOK(job, stack, gs) /\ PartOK(job, top, gs[Len(stack)])
                /\ FrameOK(File(job), top, gs[Len(stack)])
                /\ pos = Clip(stream, ReadAt(top, gs[Len(stack)]))
  BY <1>1, InvTop
<1>3. ListOK(File(job), top, gs[Len(stack)])
  BY <1>1, <1>2 DEF FrameOK, RecordOK
<1>4. /\ top.items = Answer(top, gs[Len(stack)]) /\ Answers(top, gs[Len(stack)])
      /\ ReadAt(top, gs[Len(stack)]) = gs[Len(stack)].end
  BY <1>1, <1>3, ListDone DEF Answer, Answers
<1>5. Len(stack) # 1
  <2>1. stack[1].type = job.reader
    BY <1>2 DEF StackOK, RootOK
  <2>2. job.reader.wire = "STRUCT"
    BY JobIs DEF RecordsInv
  <2> QED
    BY <1>1, <2>1, <2>2 DEF top
<1>6. stack' = Deliver(Front(stack), Answer(top, gs[Len(stack)]))
  BY <1>4 DEF ReadListEnd
<1>7. pos' = Clip(stream, gs[Len(stack)].end)
  BY <1>2, <1>4 DEF ReadListEnd
<1> QED
  BY <1>1, <1>2, <1>4, <1>5, <1>6, <1>7, Returns

LEMMA InvStructEnds ==
  ASSUME RecordsInv, StructEnds
  PROVE  RecordsInv'
<1>1. outcome = "none" /\ UNCHANGED input /\ pos' = pos + 1
  BY DEF StructEnds
<1>2. PICK gs : /\ StackOK(job, stack, gs) /\ PartOK(job, top, gs[Len(stack)])
                /\ FrameOK(File(job), top, gs[Len(stack)])
                /\ pos = Clip(stream, ReadAt(top, gs[Len(stack)]))
  BY <1>1, InvTop
<1>3. PICK g : g = gs[Len(stack)]
  OBVIOUS
<1>4. AtToken(File(job), stream, top, g, pos) /\ stream[pos].is = "stop"
  BY <1>1, <1>2, <1>3, InvTop DEF AtToken, StructEnds, Between, InRecord, Here
<1>5. PICK h : RecordOK(File(job), top, h) /\ SameSender(g, h) /\ h.done = Len(h.type.fields)
  BY <1>4, StopEnds
<1>6. pos + 1 = g.end /\ pos + 1 = Clip(stream, g.end)
  BY <1>4, StopEnds
<1>7. top.obj = Answer(top, g) /\ (Answers(top, g) <=> Missing = {})
  <2>1. top.obj = Understood[<<top.type, h.type>>][h.obj][h.old]
    BY <1>5, RecordDone
  <2>2. Readable[<<top.type, h.type>>][h.obj]
          <=> \A k \in DOMAIN top.type.fields : top.type.fields[k].req => top.type.fields[k].name \in top.seen
    BY <1>5, RecordDone
  <2>3. h.type = g.type /\ h.obj = g.obj /\ h.old = g.old
    BY <1>5 DEF SameSender
  <2>4. Answers(top, g)
          <=> \A k \in DOMAIN top.type.fields : top.type.fields[k].req => top.type.fields[k].name \in top.seen
    BY <2>2, <2>3, Zenon DEF Answers
  <2> QED
    BY <2>1, <2>3, <2>4 DEF Missing, Answer
<1>8. JobOK /\ Len(stream) \in Nat /\ Len(Written(job)) \in Nat /\ Len(stack) \in Nat
  BY <1>1, <1>2, InvTop, StackIs
<1>9. JobOK' /\ job' = job /\ stream' = stream
  BY <1>1, <1>8 DEF JobOK, input, File, Written
<1>10. pos \in Nat /\ pos <= Len(stream) /\ pos >= 1
  BY <1>4, <1>8 DEF AtToken, RecordsInv
<1>11. pos' \in 1..Len(stream') + 1
  BY <1>1, <1>8, <1>9, <1>10
<1>12. CASE Missing # {}
  <2>1. outcome' = "invalid" /\ stack' = stack
    BY <1>12 DEF StructEnds
  <2>2. ~ Readable[<<job.reader, job.writer>>][job.sent]
    BY <1>2, <1>3, <1>7, <1>12 DEF PartOK, Answers
  <2>3. ~ Readable[<<job'.reader, job'.writer>>][job'.sent]
    BY <1>9, <2>2
  <2>4. StackOK(job', stack', gs)
    BY <1>2, <1>9, <2>1
  <2> QED
    BY <1>9, <1>11, <2>1, <2>3, <2>4 DEF RecordsInv, ReadsWhatItKnows, RefusesWhatItMust, StopsAtTheEnd
<1>13. CASE Missing = {} /\ Len(stack) = 1
  <2>1. outcome' = "read" /\ stack' = stack
    BY <1>13 DEF StructEnds
  <2>2. RootOK(job, top, g)
    BY <1>2, <1>3, <1>13 DEF StackOK, top
  <2>3. top.obj = Understood[<<job.reader, job.writer>>][job.sent][job.into]
    BY <1>7, <2>2 DEF RootOK, Answer
  <2>4. Readable[<<job.reader, job.writer>>][job.sent]
    BY <1>7, <1>13, <2>2 DEF RootOK, Answers
  <2>5. pos + 1 = Len(Written(job)) + 1 /\ Len(stream) >= Len(Written(job))
    BY <1>6, <1>8, <1>10, <2>2 DEF RootOK
  <2>6. StackOK(job', stack', gs) /\ top' = top
    BY <1>2, <1>9, <2>1 DEF top
  <2>7. ReadsWhatItKnows'
    BY <1>9, <2>3, <2>6 DEF ReadsWhatItKnows
  <2>8. RefusesWhatItMust'
    BY <1>9, <2>1, <2>4, <2>5 DEF RefusesWhatItMust, Written
  <2>9. StopsAtTheEnd'
    BY <1>1, <1>9, <2>5 DEF StopsAtTheEnd, Written
  <2> QED
    BY <1>9, <1>11, <2>1, <2>6, <2>7, <2>8, <2>9 DEF RecordsInv
<1>14. CASE Missing = {} /\ Len(stack) # 1
  <2>1. outcome' = outcome /\ stack' = Deliver(Front(stack), top.obj)
    BY <1>14 DEF StructEnds
  <2>2. stack' = Deliver(Front(stack), Answer(top, gs[Len(stack)])) /\ Answers(top, gs[Len(stack)])
    BY <1>3, <1>7, <1>14, <2>1
  <2>3. pos' = Clip(stream, gs[Len(stack)].end)
    BY <1>1, <1>3, <1>6
  <2> QED
    BY <1>1, <1>2, <1>14, <2>1, <2>2, <2>3, Returns
<1> QED
  BY <1>12, <1>13, <1>14

LEMMA InvStreamEnds ==
  ASSUME RecordsInv, StreamEnds
  PROVE  RecordsInv'
<1>1. outcome = "none" /\ UNCHANGED <<input, pos, stack>> /\ outcome' = "cut" /\ pos > Len(stream)
  BY DEF StreamEnds
<1>2. PICK gs : /\ StackOK(job, stack, gs) /\ PartOK(job, top, gs[Len(stack)])
                /\ FrameOK(File(job), top, gs[Len(stack)])
                /\ pos = Clip(stream, ReadAt(top, gs[Len(stack)]))
  BY <1>1, InvTop
<1>3. JobOK /\ Len(stream) \in Nat /\ Len(Written(job)) \in Nat /\ Len(File(job)) \in Nat
  BY <1>1, InvTop
<1>4. JobOK' /\ job' = job /\ stream' = stream
  BY <1>1, <1>3 DEF JobOK, input, File, Written
<1>5. PICK g, a, w : g = gs[Len(stack)] /\ a = ReadAt(top, g) /\ w = Len(Written(job))
  OBVIOUS
<1>6. Asks(top) \/ top.type.wire = "STRUCT"
  BY DEF StreamEnds, Asks, Between, InRecord, InList
<1>7. g.end \in Nat /\ a \in Nat /\ 1 <= a /\ a < g.end
  BY <1>2, <1>3, <1>5, <1>6, ReadAtWhere
<1>8. g.end <= w + 1 /\ w \in Nat
  BY <1>2, <1>3, <1>5 DEF PartOK
<1>9. pos = Clip(stream, a)
  BY <1>2, <1>5
<1>10. Len(stream) < w
  BY <1>1, <1>3, <1>7, <1>8, <1>9 DEF Clip
<1>11. Len(stream') < Len(Written(job'))
  BY <1>4, <1>5, <1>10
<1>12. StackOK(job', stack', gs) /\ pos' \in 1..Len(stream') + 1
  BY <1>1, <1>2, <1>4 DEF RecordsInv
<1> QED
  BY <1>1, <1>4, <1>11, <1>12 DEF RecordsInv, ReadsWhatItKnows, RefusesWhatItMust, StopsAtTheEnd

LEMMA InvStutters ==
  ASSUME RecordsInv, UNCHANGED vars
  PROVE  RecordsInv'
BY DEF RecordsInv, vars, input, JobOK, File, Written, top,
       ReadsWhatItKnows, RefusesWhatItMust, StopsAtTheEnd

LEMMA InvNext ==
  ASSUME RecordsInv, [Next]_vars
  PROVE  RecordsInv'
<1>1. CASE KnownField
  BY <1>1, InvKnownField
<1>2. CASE SkipField
  BY <1>2, InvSkipField
<1>3. CASE ReadValue
  BY <1>3, InvReadValue
<1>4. CASE ReadListBegin
  BY <1>4, InvReadListBegin
<1>5. CASE ReadListEnd
  BY <1>5, InvReadListEnd
<1>6. CASE ReadRecord
  BY <1>6, InvReadRecord
<1>7. CASE StructEnds
  BY <1>7, InvStructEnds
<1>8. CASE StreamEnds
  BY <1>8, InvStreamEnds
<1>9. CASE UNCHANGED vars
  BY <1>9, InvStutters
<1> QED
  BY <1>1, <1>2, <1>3, <1>4, <1>5, <1>6, <1>7, <1>8, <1>9 DEF Next

THEOREM RecordsInvariant == Spec => []RecordsInv
<1>1. Init => RecordsInv
  BY InvInit
<1>2. RecordsInv /\ [Next]_vars => RecordsInv'
  BY InvNext
<1> QED
  BY <1>1, <1>2, PTL DEF Spec

-----------------------------------------------------------------------------
(* What read() ensures. *)

LEMMA FrameFields ==
  ASSUME NEW F, NEW fr, NEW g, FrameOK(F, fr, g), fr.type.wire = "STRUCT"
  PROVE  DOMAIN fr.obj \subseteq FieldNames(fr.type)
<1>1. RecordOK(F, fr, g)
  BY DEF FrameOK, ListOK
<1>2. DOMAIN g.old \subseteq FieldNames(fr.type)
  <2>1. fr.type \in TypeSet /\ g.old \in Objects(fr.type)
    BY <1>1, RecordVersions
  <2> QED
    BY <2>1, ObjectsAre
<1>3. Seen(fr.type, g.type, g.obj, g.done) \subseteq FieldNames(fr.type)
  BY DEF Seen
<1>4. fr.obj = SoFar(fr.type, g.type, g.obj, g.old, g.done)
  BY <1>1 DEF RecordOK
<1> QED
  BY <1>2, <1>3, <1>4 DEF SoFar, Over

\* Every call in progress reads what the one that made it was about to read,
\* into an object that has no fields but those of its type.
THEOREM TypeCorrect == Spec => []TypeOK
<1>1. ASSUME RecordsInv PROVE TypeOK
  <2>1. PICK gs : StackOK(job, stack, gs)
    BY <1>1 DEF RecordsInv
  <2>2. Len(stack) \in Nat /\ DOMAIN stack = 1..Len(stack)
    BY <2>1, StackIs
  <2>3. Len(stream) = Len(File(job)) - job.lost
    BY <1>1, JobIs DEF RecordsInv
  <2>4. stack[1].type = job.reader
    BY <2>1 DEF StackOK, RootOK
  <2>5. ASSUME NEW d \in 2..Len(stack) PROVE stack[d].type = WantedBy(stack[d - 1])
    <3>1. d - 1 \in 1..Len(stack) /\ d \in 1..Len(stack) /\ d = (d - 1) + 1
      BY <2>2
    <3>2. Calls(stack[d - 1], gs[d - 1], stack[d], gs[d])
      BY <2>1, <3>1 DEF StackOK
    <3> QED
      BY <3>2 DEF Calls
  <2>6. ASSUME NEW d \in DOMAIN stack, stack[d].type.wire = "STRUCT"
        PROVE  DOMAIN stack[d].obj \subseteq FieldNames(stack[d].type)
    <3>1. PartOK(job, stack[d], gs[d])
      BY <2>1, <2>2 DEF StackOK
    <3>2. FrameOK(File(job), stack[d], gs[d])
      BY <3>1 DEF PartOK
    <3> QED
      BY <2>6, <3>2, FrameFields
  <2> QED
    BY <1>1, <2>3, <2>4, <2>5, <2>6 DEF RecordsInv, TypeOK
<1> QED
  BY <1>1, RecordsInvariant, PTL

\* A reader of any version has exactly what it can know of what was sent, and
\* what the object it read into held in the fields that did not come (read()
\* of every record).
THEOREM ReadsWhatItKnowsAlways == Spec => []ReadsWhatItKnows
<1>1. RecordsInv => ReadsWhatItKnows
  BY DEF RecordsInv
<1> QED
  BY <1>1, RecordsInvariant, PTL

\* read() refuses a record exactly when a field it requires did not come, at
\* any depth, and takes none whose end did not arrive.
THEOREM RefusesWhatItMustAlways == Spec => []RefusesWhatItMust
<1>1. RecordsInv => RefusesWhatItMust
  BY DEF RecordsInv
<1> QED
  BY <1>1, RecordsInvariant, PTL

\* read() ends right behind what write() sent, whatever skip() passed over.
THEOREM StopsAtTheEndAlways == Spec => []StopsAtTheEnd
<1>1. RecordsInv => StopsAtTheEnd
  BY DEF RecordsInv
<1> QED
  BY <1>1, RecordsInvariant, PTL

-----------------------------------------------------------------------------
(* What the version that wrote a record understands of it. *)

\* What read() makes of a value of its own version is that value, if a record
\* is read into one just constructed.
OwnVersion(type) ==
  <<type, type>> \in Versions =>
    \A v \in Objects(type), old \in Objects(type) :
      (type.wire = "STRUCT" => old = New[type]) => Understood[<<type, type>>][v][old] = v

LEMMA SentAsItself ==
  ASSUME NEW type \in TypeSet, type.wire = "STRUCT", NEW i \in DOMAIN type.fields, NEW v
  PROVE  SentAs(type.fields[i], type, v) = IF type.fields[i].name \in DOMAIN v THEN {i} ELSE {}
<1>1. ASSUME NEW s \in SentAs(type.fields[i], type, v) PROVE s = i /\ type.fields[i].name \in DOMAIN v
  <2>1. s \in DOMAIN type.fields /\ type.fields[s].id = type.fields[i].id /\ type.fields[s].name \in DOMAIN v
    BY DEF SentAs, Meets
  <2>2. s = i
    BY <2>1, FieldsDiffer
  <2> QED
    BY <2>1, <2>2
<1>2. type.fields[i].name \in DOMAIN v => i \in SentAs(type.fields[i], type, v)
  BY DEF SentAs, Meets
<1> QED
  BY <1>1, <1>2

\* A member that is a record has nothing but what its constructor gave it.
LEMMA NewMembers ==
  ASSUME NEW type \in TypeSet, type.wire = "STRUCT", NEW i \in DOMAIN type.fields
  PROVE  LET f == type.fields[i]
         IN  /\ f.name \in DOMAIN New[type] => New[type][f.name] \in Objects(f.type)
             /\ (f.name \in DOMAIN New[type] /\ f.type.wire = "STRUCT") => New[type][f.name] = New[f.type]
<1> DEFINE f == type.fields[i]
<1>1. New[type] \in Objects(type)
  BY NewIsObject
<1>2. f.name \in DOMAIN New[type] => New[type][f.name] \in Objects(f.type)
  BY <1>1, ObjectsAre
<1>3. New[type] = NewFrom(New, type)
  BY NewIs
<1>4. ASSUME f.name \in DOMAIN New[type], f.type.wire = "STRUCT" PROVE New[type][f.name] = New[f.type]
  <2>1. New[type] = [name \in FirstFields(type) |->
          LET e == FieldNamed(type, name) IN IF IsSet(e) THEN e.default ELSE New[e.type]]
    BY <1>3, Zenon DEF NewFrom
  <2>2. FieldNamed(type, f.name) = f
    BY FieldNamedIs
  <2>3. ~ IsSet(f)
    BY <1>4, TypesAssumption DEF TypesAssumption
  <2> DEFINE at(name) == LET e == FieldNamed(type, name) IN IF IsSet(e) THEN e.default ELSE New[e.type]
  <2>4. at(f.name) = New[f.type]
    BY <2>2, <2>3, Zenon
  <2>5. New[type] = [name \in FirstFields(type) |-> at(name)]
    BY <2>1
  <2> HIDE DEF at, f
  <2>6. f.name \in FirstFields(type)
    BY <1>4, <2>5
  <2> QED
    BY <2>4, <2>5, <2>6
<1> QED
  BY <1>2, <1>4

LEMMA OwnRecord ==
  ASSUME NEW type \in TypeSet, type.wire = "STRUCT", <<type, type>> \in Versions,
         \A member \in MemberTypes(type) : OwnVersion(member), NEW v \in Objects(type)
  PROVE  Understood[<<type, type>>][v][New[type]] = v
<1> DEFINE m   == <<type, type>>
           new == New[type]
           got(name) == Got(type, type, v, new, name)
<1>1. m \in Versions /\ m[1] = type /\ m[2] = type /\ new \in Objects(type)
  BY NewIsObject
<1>2. Understood[m][v][new] = Over([name \in Came(type, type, v) |-> got(name)], new)
  <2> HIDE DEF m, new
  <2>1. Understood[m][v][new] = Over([name \in Came(m[1], m[2], v) |-> Got(m[1], m[2], v, new, name)], new)
    BY <1>1, UnderstoodRecord
  <2> QED
    BY <1>1, <2>1, Zenon
<1>3. /\ v = [name \in DOMAIN v |-> v[name]] /\ DOMAIN v \subseteq FieldNames(type)
      /\ FirstFields(type) \subseteq DOMAIN v
  BY ObjectsAre
<1>4. DOMAIN new \subseteq DOMAIN v
  <2>1. new = NewFrom(New, type)
    BY NewIs
  <2>2. new = [name \in FirstFields(type) |->
          LET e == FieldNamed(type, name) IN IF IsSet(e) THEN e.default ELSE New[e.type]]
    BY <2>1, Zenon DEF NewFrom
  <2> HIDE DEF new
  <2> QED
    BY <1>3, <2>2
<1>5. ASSUME NEW name \in FieldNames(type)
      PROVE  /\ name \in Came(type, type, v) <=> name \in DOMAIN v
             /\ name \in DOMAIN v => got(name) = v[name]
  <2>1. PICK i \in DOMAIN type.fields : FieldNamed(type, name) = type.fields[i] /\ type.fields[i].name = name
    BY NamedField
  <2>2. SentAs(type.fields[i], type, v) = IF name \in DOMAIN v THEN {i} ELSE {}
    BY <2>1, SentAsItself
  <2>3. name \in Came(type, type, v) <=> name \in DOMAIN v
    BY <2>1, <2>2 DEF Came
  <2>4. ASSUME name \in DOMAIN v PROVE got(name) = v[name]
    <3>1. PICK f : f = type.fields[i]
      OBVIOUS
    <3>2. PICK old : old = IF name \in DOMAIN new THEN new[name] ELSE New[f.type]
      OBVIOUS
    <3>3. (CHOOSE s \in SentAs(f, type, v) : TRUE) = i
      BY <2>2, <2>4, <3>1
    <3>4. got(name) = Understood[<<f.type, f.type>>][v[name]][old]
      BY <2>1, <3>1, <3>2, <3>3 DEF Got
    <3>5. f.type \in MemberTypes(type) /\ f.type \in TypeSet /\ v[name] \in Objects(f.type)
      BY <2>1, <2>4, <3>1, FieldsAre, ObjectsAre, MembersAre
    <3>6. <<f.type, f.type>> \in Versions
      <4>1. i \in SentAs(type.fields[i], m[2], v)
        BY <1>1, <2>2, <2>4
      <4> HIDE DEF m
      <4>2. <<m[1].fields[i].type, m[2].fields[i].type>> \in Versions
        BY <1>1, <2>1, <4>1, VersionsAre
      <4> QED
        BY <1>1, <3>1, <4>2
    <3>7. new = New[type]
      OBVIOUS
    <3>8. old \in Objects(f.type) /\ (f.type.wire = "STRUCT" => old = New[f.type])
      BY <2>1, <3>1, <3>2, <3>5, NewMembers, NewIsObject
    <3>9. OwnVersion(f.type)
      BY <3>5
    <3> QED
      BY <3>4, <3>5, <3>6, <3>8, <3>9 DEF OwnVersion
  <2> QED
    BY <2>3, <2>4
<1>6. Came(type, type, v) = DOMAIN v
  <2>1. Came(type, type, v) \subseteq FieldNames(type)
    BY DEF Came
  <2> QED
    BY <1>3, <1>5, <2>1
<1> HIDE DEF got, new
<1>7. Over([name \in DOMAIN v |-> got(name)], new) = v
  <2>1. \A name \in DOMAIN v : got(name) = v[name]
    BY <1>3, <1>5
  <2>2. Over([name \in DOMAIN v |-> got(name)], new) = [name \in DOMAIN v |-> v[name]]
    BY <1>4, <2>1 DEF Over
  <2> QED
    BY <1>3, <2>2
<1> QED
  BY <1>2, <1>6, <1>7 DEF new

LEMMA OwnVersions ==
  \A type \in TypeSet : OwnVersion(type)
<1> DEFINE S == {type \in TypeSet : OwnVersion(type)}
<1>1. ASSUME NEW type \in TypeSet, MemberTypes(type) \subseteq S PROVE OwnVersion(type)
  <2> SUFFICES ASSUME <<type, type>> \in Versions, NEW v \in Objects(type), NEW old \in Objects(type),
                      type.wire = "STRUCT" => old = New[type]
               PROVE  Understood[<<type, type>>][v][old] = v
    BY DEF OwnVersion
  <2>1. PICK m : m = <<type, type>>
    OBVIOUS
  <2>2. m \in Versions /\ m[1] = type /\ m[2] = type /\ v \in Objects(m[2]) /\ old \in Objects(m[1])
    BY <2>1
  <2>3. CASE type.wire = "STRUCT"
    <3>1. \A member \in MemberTypes(type) : OwnVersion(member)
      BY <1>1
    <3> QED
      BY <2>3, <3>1, OwnRecord
  <2>4. CASE type.wire = "LIST"
    <3>1. Understood[m][v][old] = [k \in 1..Len(v) |-> Understood[<<m[1].of, m[2].of>>][v[k]][New[m[1].of]]]
      BY <2>2, <2>4, UnderstoodList
    <3>2. PICK of : of = type.of
      OBVIOUS
    <3>3. of \in TypeSet /\ OwnVersion(of) /\ <<of, of>> \in Versions
      <4>1. of \in MemberTypes(type)
        BY <2>4, <3>2, MembersAre
      <4>2. <<m[1].of, m[2].of>> \in Versions
        BY <2>2, <2>4, VersionsAre
      <4> QED
        BY <1>1, <2>2, <3>2, <4>1, <4>2
    <3>4. v \in Seq(Objects(of)) /\ Len(v) \in Nat /\ \A k \in 1..Len(v) : v[k] \in Objects(of)
      BY <2>4, <3>2, ObjectsAre
    <3>5. \A k \in 1..Len(v) : Understood[<<of, of>>][v[k]][New[of]] = v[k]
      <4>1. New[of] \in Objects(of)
        BY <3>3, NewIsObject
      <4> QED
        BY <3>3, <3>4, <4>1 DEF OwnVersion
    <3>6. Understood[m][v][old] = [k \in 1..Len(v) |-> Understood[<<of, of>>][v[k]][New[of]]]
      BY <2>2, <3>1, <3>2, Zenon
    <3>7. Understood[m][v][old] = [k \in 1..Len(v) |-> v[k]]
      BY <3>5, <3>6
    <3>8. v = [k \in 1..Len(v) |-> v[k]]
      BY <3>4
    <3> QED
      BY <2>1, <3>7, <3>8
  <2>5. CASE type.wire \notin {"STRUCT", "LIST"}
    <3>1. m[1].wire \notin {"STRUCT", "LIST"}
      BY <2>2, <2>5
    <3> QED
      BY <2>1, <2>2, <3>1, UnderstoodValue
  <2> QED
    BY <2>3, <2>4, <2>5
<1>2. \A type \in TypeSet : MemberTypes(type) \subseteq S => type \in S
  BY <1>1
<1> HIDE DEF S
<1>3. TypeSet \subseteq S
  BY <1>2, TypeInduction
<1> QED
  BY <1>3 DEF S

LEMMA InvRoundTrip ==
  ASSUME RecordsInv
  PROVE  RoundTrip
<1> SUFFICES ASSUME outcome = "read", job.reader = job.writer, job.into = New[job.reader]
             PROVE  top.obj = job.sent
  BY DEF RoundTrip
<1>1. /\ job.reader \in TypeSet /\ <<job.reader, job.reader>> \in Versions
      /\ job.sent \in Objects(job.reader) /\ job.into \in Objects(job.reader)
  BY JobIs DEF RecordsInv
<1>2. OwnVersion(job.reader)
  BY <1>1, OwnVersions
<1>3. top.obj = Understood[<<job.reader, job.reader>>][job.sent][job.into]
  BY DEF RecordsInv, ReadsWhatItKnows
<1> QED
  BY <1>1, <1>2, <1>3 DEF OwnVersion

\* A record read by the version that wrote it, into an object just
\* constructed, equals the one that was written (write(), read() and the
\* constructor of every record).
THEOREM RoundTripAlways == Spec => []RoundTrip
<1>1. RecordsInv => RoundTrip
  BY InvRoundTrip
<1> QED
  BY <1>1, RecordsInvariant, PTL

-----------------------------------------------------------------------------
(* What a reader gets of the metadata. *)

\* A record that the constructor and the setters made has the fields that
\* were set, and of the others those it has from the start.
LEMMA MadeIs ==
  ASSUME NEW type \in TypeSet, type.wire = "STRUCT", NEW values, NEW name
  PROVE  LET o == Made("object", type, values)
         IN  /\ name \in DOMAIN o <=> name \in DOMAIN values \/ name \in FirstFields(type)
             /\ name \in DOMAIN values => o[name] = values[name]
<1>1. New[type] = NewFrom(New, type)
  BY NewIs
<1>2. New[type] = [n \in FirstFields(type) |->
        LET e == FieldNamed(type, n) IN IF IsSet(e) THEN e.default ELSE New[e.type]]
  BY <1>1, Zenon DEF NewFrom
<1>3. DOMAIN New[type] = FirstFields(type)
  BY <1>2
<1>4. Made("object", type, values) = Over(values, New[type])
  BY DEF Made, WithFields
<1> QED
  BY <1>3, <1>4 DEF Over

\* The record that was read is the one that was made for the call.
LEMMA CallIs ==
  ASSUME RecordsInv, CallRead
  PROVE  /\ IsCall(Call) /\ top.obj = Metadata(Call, "object") /\ RecordOf(Call) \in TypeSet
         /\ Call.kind = "page" \/ Call.kind = "footer"
<1>1. PICK k \in DOMAIN Jobs : job = Jobs[k]
  BY DEF RecordsInv, JobOK
<1>2. IsCall(Call) /\ job = CallJob(Call)
  BY <1>1, CallsAssumption DEF CallRead, Call
<1>3. /\ job.reader = RecordOf(Call) /\ job.writer = RecordOf(Call)
      /\ job.sent = Metadata(Call, "object") /\ job.into = New[RecordOf(Call)]
  BY <1>2 DEF CallJob
<1>4. top.obj = job.sent
  BY <1>3, InvRoundTrip DEF RoundTrip, CallRead
<1>5. RecordOf(Call) \in TypeSet
  BY <1>3, JobIs DEF RecordsInv
<1>6. Call.kind = "page" \/ Call.kind = "footer"
  BY <1>2 DEF IsCall
<1> QED
  BY <1>2, <1>3, <1>4, <1>5, <1>6

\* The type of a field of a record, and of the elements of a list.
LEMMA FieldType ==
  ASSUME NEW type \in TypeSet, type.wire = "STRUCT", NEW k \in 1..Len(type.fields)
  PROVE  type.fields[k].type \in TypeSet
BY FieldsAre

LEMMA ElementType ==
  ASSUME NEW type \in TypeSet, type.wire = "LIST"
  PROVE  type.of \in TypeSet
BY MembersAre, MembersInTypeSet

\* The types of the footer.
LEMMA FooterTypes ==
  ASSUME FileMetaData \in TypeSet
  PROVE  /\ SchemaElement \in TypeSet /\ RowGroup \in TypeSet
         /\ ColumnChunk \in TypeSet /\ ColumnMetaData \in TypeSet
<1>1. /\ FileMetaData.wire = "STRUCT" /\ Len(FileMetaData.fields) = 9
      /\ FileMetaData.fields[2].type = ListOf(SchemaElement)
      /\ FileMetaData.fields[4].type = ListOf(RowGroup)
  BY DEF FileMetaData, Struct, Req, Opt
<1>2. ListOf(SchemaElement) \in TypeSet /\ ListOf(RowGroup) \in TypeSet
  <2>1. 2 \in 1..Len(FileMetaData.fields) /\ 4 \in 1..Len(FileMetaData.fields)
    BY <1>1
  <2> QED
    BY <1>1, <2>1, FieldType
<1>3. SchemaElement \in TypeSet /\ RowGroup \in TypeSet
  <2>1. \A type : ListOf(type).wire = "LIST" /\ ListOf(type).of = type
    BY DEF ListOf
  <2> QED
    BY <1>2, <2>1, ElementType
<1>4. RowGroup.wire = "STRUCT" /\ Len(RowGroup.fields) = 7 /\ RowGroup.fields[1].type = ListOf(ColumnChunk)
  BY DEF RowGroup, Struct, Req, Opt
<1>5. ListOf(ColumnChunk) \in TypeSet
  <2>1. 1 \in 1..Len(RowGroup.fields)
    BY <1>4
  <2> QED
    BY <1>3, <1>4, <2>1, FieldType
<1>6. ColumnChunk \in TypeSet
  <2>1. \A type : ListOf(type).wire = "LIST" /\ ListOf(type).of = type
    BY DEF ListOf
  <2> QED
    BY <1>5, <2>1, ElementType
<1>7. ColumnChunk.wire = "STRUCT" /\ Len(ColumnChunk.fields) = 9 /\ ColumnChunk.fields[3].type = ColumnMetaData
  BY DEF ColumnChunk, Struct, Req, Opt
<1>8. ColumnMetaData \in TypeSet
  <2>1. 3 \in 1..Len(ColumnChunk.fields)
    BY <1>7
  <2> QED
    BY <1>6, <1>7, <2>1, FieldType
<1> QED
  BY <1>3, <1>6, <1>8

LEMMA PageTypes ==
  ASSUME PageHeader \in TypeSet
  PROVE  DataPageHeaderV2 \in TypeSet
<1>1. PageHeader.wire = "STRUCT" /\ Len(PageHeader.fields) = 8 /\ PageHeader.fields[8].type = DataPageHeaderV2
  BY DEF PageHeader, Struct, Req, Opt
<1>2. 8 \in 1..Len(PageHeader.fields)
  BY <1>1
<1> QED
  BY <1>1, <1>2, FieldType

\* What the constructors leave out.
LEMMA OptionalFields ==
  /\ FirstFields(SchemaElement) = {"name"}
  /\ FirstFields(PageHeader) = {"type", "uncompressed_page_size", "compressed_page_size"}
<1>1. FirstFields(SchemaElement) = {"name"}
  <2>1. DOMAIN SchemaElement.fields = 1..10
    BY DEF SchemaElement, Struct, Req, Opt
  <2>2. \A k \in 1..10 : (IsSet(SchemaElement.fields[k]) \/ SchemaElement.fields[k].req) <=> k = 4
    BY DEF SchemaElement, Struct, Req, Opt, IsSet
  <2>3. SchemaElement.fields[4].name = "name"
    BY DEF SchemaElement, Struct, Req, Opt
  <2> QED
    BY <2>1, <2>2, <2>3 DEF FirstFields
<1>2. FirstFields(PageHeader) = {"type", "uncompressed_page_size", "compressed_page_size"}
  <2>1. DOMAIN PageHeader.fields = 1..8
    BY DEF PageHeader, Struct, Req, Opt
  <2>2. \A k \in 1..8 : (IsSet(PageHeader.fields[k]) \/ PageHeader.fields[k].req) <=> k \in {1, 2, 3}
    BY DEF PageHeader, Struct, Req, Opt, IsSet
  <2>3. /\ PageHeader.fields[1].name = "type" /\ PageHeader.fields[2].name = "uncompressed_page_size"
        /\ PageHeader.fields[3].name = "compressed_page_size"
    BY DEF PageHeader, Struct, Req, Opt
  <2> QED
    BY <2>1, <2>2, <2>3 DEF FirstFields
<1> QED
  BY <1>1, <1>2

\* What AppendFooter set, in the records that hold it.
LEMMA FooterIs ==
  ASSUME FileMetaData \in TypeSet, NEW c
  PROVE  LET m == FileMetaDataOf(c, "object")
         IN  m.schema = Schema(c, "object") /\ m.num_rows = c.total_count
             /\ m.row_groups = <<RowGroupOf(c, "object")>>
<1> DEFINE values == [version |-> 2, schema |-> Schema(c, "object"), num_rows |-> c.total_count,
                      row_groups |-> <<RowGroupOf(c, "object")>>]
<1>1. FileMetaDataOf(c, "object") = Made("object", FileMetaData, values)
  BY DEF FileMetaDataOf
<1>2. FileMetaData.wire = "STRUCT"
  BY DEF FileMetaData, Struct
<1>3. /\ "schema" \in DOMAIN values /\ "num_rows" \in DOMAIN values /\ "row_groups" \in DOMAIN values
      /\ values["schema"] = Schema(c, "object") /\ values["num_rows"] = c.total_count
      /\ values["row_groups"] = <<RowGroupOf(c, "object")>>
  OBVIOUS
<1> HIDE DEF values
<1> DEFINE o == Made("object", FileMetaData, values)
<1>4. o["schema"] = values["schema"] /\ o["num_rows"] = values["num_rows"] /\ o["row_groups"] = values["row_groups"]
  BY <1>2, <1>3, MadeIs
<1> HIDE DEF o
<1> QED
  BY <1>1, <1>3, <1>4 DEF o

LEMMA GroupIs ==
  ASSUME FileMetaData \in TypeSet, NEW c
  PROVE  LET g == RowGroupOf(c, "object")
         IN  /\ Len(g.columns) = 1 /\ g.columns[1].meta_data = ColumnMetaDataOf(c, "object")
             /\ g.num_rows = c.total_count /\ g.total_byte_size = c.total_uncompressed_size
             /\ g.file_offset = 4 /\ g.total_compressed_size = c.total_compressed_size
<1> DEFINE chunk  == [file_offset |-> 0, meta_data |-> ColumnMetaDataOf(c, "object")]
           made   == Made("object", ColumnChunk, chunk)
           values == [columns |-> <<made>>,
                      num_rows |-> c.total_count,
                      total_byte_size |-> c.total_uncompressed_size,
                      file_offset |-> 4,
                      total_compressed_size |-> c.total_compressed_size]
<1>1. RowGroupOf(c, "object") = Made("object", RowGroup, values)
  BY DEF RowGroupOf
<1>2. RowGroup.wire = "STRUCT" /\ ColumnChunk.wire = "STRUCT"
  BY DEF RowGroup, ColumnChunk, Struct
<1>3. RowGroup \in TypeSet /\ ColumnChunk \in TypeSet
  BY FooterTypes
<1>4. "meta_data" \in DOMAIN chunk /\ chunk["meta_data"] = ColumnMetaDataOf(c, "object")
  OBVIOUS
<1>5. made["meta_data"] = ColumnMetaDataOf(c, "object")
  <2> HIDE DEF chunk
  <2> QED
    BY <1>2, <1>3, <1>4, MadeIs
<1> HIDE DEF made
<1>6. /\ "columns" \in DOMAIN values /\ "num_rows" \in DOMAIN values /\ "total_byte_size" \in DOMAIN values
      /\ "file_offset" \in DOMAIN values /\ "total_compressed_size" \in DOMAIN values
      /\ values["columns"] = <<made>> /\ values["num_rows"] = c.total_count
      /\ values["total_byte_size"] = c.total_uncompressed_size /\ values["file_offset"] = 4
      /\ values["total_compressed_size"] = c.total_compressed_size
  OBVIOUS
<1> HIDE DEF values
<1> DEFINE o == Made("object", RowGroup, values)
<1>7. /\ o["columns"] = <<made>> /\ o["num_rows"] = c.total_count
      /\ o["total_byte_size"] = c.total_uncompressed_size /\ o["file_offset"] = 4
      /\ o["total_compressed_size"] = c.total_compressed_size
  BY <1>2, <1>3, <1>6, MadeIs
<1>8. RowGroupOf(c, "object") = o
  BY <1>1
<1> HIDE DEF o
<1>9. Len(<<made>>) = 1 /\ <<made>>[1] = made
  OBVIOUS
<1> QED
  BY <1>5, <1>7, <1>8, <1>9

LEMMA ColumnIs ==
  ASSUME FileMetaData \in TypeSet, NEW c
  PROVE  LET m == ColumnMetaDataOf(c, "object")
         IN  /\ m.type = ToParquetType(c.type) /\ m.path_in_schema = <<c.name>>
             /\ m.num_values = c.total_count /\ m.total_uncompressed_size = c.total_uncompressed_size
             /\ m.total_compressed_size = c.total_compressed_size /\ m.data_page_offset = 4
<1> DEFINE values == [type |-> ToParquetType(c.type), encodings |-> <<Encoding.PLAIN>>,
                      path_in_schema |-> <<c.name>>, codec |-> ToParquetCodec(c.codec),
                      num_values |-> c.total_count,
                      total_uncompressed_size |-> c.total_uncompressed_size,
                      total_compressed_size |-> c.total_compressed_size,
                      data_page_offset |-> 4,
                      statistics |-> Made("object", Statistics, [null_count |-> 0])]
<1>1. ColumnMetaDataOf(c, "object") = Made("object", ColumnMetaData, values)
  BY DEF ColumnMetaDataOf
<1>2. ColumnMetaData.wire = "STRUCT" /\ ColumnMetaData \in TypeSet
  BY FooterTypes DEF ColumnMetaData, Struct
<1>3. /\ "type" \in DOMAIN values /\ "path_in_schema" \in DOMAIN values /\ "num_values" \in DOMAIN values
      /\ "total_uncompressed_size" \in DOMAIN values /\ "total_compressed_size" \in DOMAIN values
      /\ "data_page_offset" \in DOMAIN values
      /\ values["type"] = ToParquetType(c.type) /\ values["path_in_schema"] = <<c.name>>
      /\ values["num_values"] = c.total_count
      /\ values["total_uncompressed_size"] = c.total_uncompressed_size
      /\ values["total_compressed_size"] = c.total_compressed_size /\ values["data_page_offset"] = 4
  OBVIOUS
<1> HIDE DEF values
<1> DEFINE o == Made("object", ColumnMetaData, values)
<1>4. /\ o["type"] = values["type"] /\ o["path_in_schema"] = values["path_in_schema"]
      /\ o["num_values"] = values["num_values"]
      /\ o["total_uncompressed_size"] = values["total_uncompressed_size"]
      /\ o["total_compressed_size"] = values["total_compressed_size"]
      /\ o["data_page_offset"] = values["data_page_offset"]
  BY <1>2, <1>3, MadeIs
<1>5. ColumnMetaDataOf(c, "object") = o
  BY <1>1
<1> HIDE DEF o
<1> QED
  BY <1>3, <1>4, <1>5

\* The schema: a group, and a leaf that may have a converted type.
LEMMA SchemaIs ==
  ASSUME FileMetaData \in TypeSet, NEW c
  PROVE  LET s == Schema(c, "object")
             conv == ToParquetConvertedType(c.type)
         IN  /\ Len(s) = 2 /\ DOMAIN s = {1, 2}
             /\ s[1].num_children = 1 /\ Has(s[1], "num_children") /\ ~Has(s[1], "type")
             /\ s[2].name = c.name /\ s[2].type = ToParquetType(c.type)
             /\ ~Has(s[2], "num_children") /\ Has(s[2], "type")
             /\ Has(s[2], "converted_type") <=> conv # {}
             /\ conv # {} => s[2].converted_type = CHOOSE t \in conv : TRUE
<1> DEFINE conv == ToParquetConvertedType(c.type)
           root == [name |-> "vtkfile", repetition_type |-> FieldRepetitionType.REQUIRED, num_children |-> 1]
           ele  == [name |-> c.name, repetition_type |-> FieldRepetitionType.REQUIRED,
                    type |-> ToParquetType(c.type)]
           tail == IF conv = {} THEN ele ELSE Over([converted_type |-> CHOOSE t \in conv : TRUE], ele)
           a    == Made("object", SchemaElement, root)
           b    == Made("object", SchemaElement, tail)
<1>1. Schema(c, "object") = <<a, b>>
  BY DEF Schema
<1>2. SchemaElement.wire = "STRUCT" /\ SchemaElement \in TypeSet
  BY FooterTypes DEF SchemaElement, Struct
<1>3. DOMAIN root = {"name", "repetition_type", "num_children"} /\ root["num_children"] = 1
  OBVIOUS
<1>4. /\ DOMAIN ele = {"name", "repetition_type", "type"}
      /\ ele["name"] = c.name /\ ele["type"] = ToParquetType(c.type)
  OBVIOUS
<1>5. /\ DOMAIN tail = DOMAIN ele \cup (IF conv = {} THEN {} ELSE {"converted_type"})
      /\ tail["name"] = c.name /\ tail["type"] = ToParquetType(c.type)
      /\ conv # {} => tail["converted_type"] = CHOOSE t \in conv : TRUE
  <2>1. PICK t : t = CHOOSE u \in conv : TRUE
    OBVIOUS
  <2> HIDE DEF ele, conv
  <2>2. CASE conv = {}
    BY <1>4, <2>2
  <2>3. CASE conv # {}
    <3> DEFINE f == [converted_type |-> t]
    <3>1. DOMAIN f = {"converted_type"} /\ f["converted_type"] = t
      OBVIOUS
    <3>2. tail = Over(f, ele)
      BY <2>1, <2>3
    <3> HIDE DEF f, tail
    <3>3. DOMAIN tail = DOMAIN f \cup DOMAIN ele
          /\ tail["name"] = ele["name"] /\ tail["type"] = ele["type"] /\ tail["converted_type"] = f["converted_type"]
      BY <1>4, <3>1, <3>2 DEF Over
    <3> QED
      BY <1>4, <2>1, <2>3, <3>1, <3>3
  <2> QED
    BY <2>2, <2>3
<1> HIDE DEF root, ele, tail, conv
<1>6. a["num_children"] = 1 /\ Has(a, "num_children") /\ ~Has(a, "type")
  BY <1>2, <1>3, MadeIs, OptionalFields DEF Has
<1>7. /\ b["name"] = c.name /\ b["type"] = ToParquetType(c.type)
      /\ ~Has(b, "num_children") /\ Has(b, "type")
      /\ Has(b, "converted_type") <=> conv # {}
      /\ conv # {} => b["converted_type"] = CHOOSE t \in conv : TRUE
  <2>1. /\ "name" \in DOMAIN tail /\ "type" \in DOMAIN tail /\ "num_children" \notin DOMAIN tail
        /\ "converted_type" \in DOMAIN tail <=> conv # {}
    BY <1>4, <1>5
  <2>2. b["name"] = tail["name"] /\ b["type"] = tail["type"]
    BY <1>2, <2>1, MadeIs
  <2>3. ~Has(b, "num_children") /\ Has(b, "type")
    BY <1>2, <2>1, MadeIs, OptionalFields DEF Has
  <2>4. Has(b, "converted_type") <=> conv # {}
    BY <1>2, <2>1, MadeIs, OptionalFields DEF Has
  <2>5. conv # {} => b["converted_type"] = tail["converted_type"]
    BY <1>2, <2>1, MadeIs
  <2> QED
    BY <1>5, <2>2, <2>3, <2>4, <2>5
<1> HIDE DEF a, b
<1>8. Len(<<a, b>>) = 2 /\ <<a, b>>[1] = a /\ <<a, b>>[2] = b /\ DOMAIN <<a, b>> = {1, 2}
  OBVIOUS
<1> QED
  BY <1>1, <1>6, <1>7, <1>8 DEF conv

\* What the reader of a footer has.
LEMMA FileReadIs ==
  ASSUME RecordsInv, FileRead
  PROVE  /\ FileMetaData \in TypeSet /\ Call.type \in DataTypes
         /\ top.obj.schema = Schema(Call, "object")
         /\ top.obj.num_rows = Call.total_count
         /\ group = RowGroupOf(Call, "object") /\ column = ColumnMetaDataOf(Call, "object")
<1>1. /\ IsCall(Call) /\ top.obj = Metadata(Call, "object") /\ RecordOf(Call) \in TypeSet
      /\ Call.kind = "footer"
  BY CallIs DEF FileRead
<1>2. FileMetaData \in TypeSet /\ top.obj = FileMetaDataOf(Call, "object")
  BY <1>1 DEF RecordOf, Metadata
<1>3. PICK m : m = FileMetaDataOf(Call, "object")
  OBVIOUS
<1>4. /\ m.schema = Schema(Call, "object") /\ m.num_rows = Call.total_count
      /\ m.row_groups = <<RowGroupOf(Call, "object")>>
  BY <1>2, <1>3, FooterIs
<1>5. group = RowGroupOf(Call, "object")
  BY <1>2, <1>3, <1>4 DEF group
<1>6. column = ColumnMetaDataOf(Call, "object")
  BY <1>2, <1>5, GroupIs DEF column
<1>7. Call.type \in DataTypes
  BY <1>1 DEF IsCall
<1> QED
  BY <1>2, <1>3, <1>4, <1>5, <1>6, <1>7

\* The figures of the footer are those of the call, wherever they are.
LEMMA InvMetadataAgrees ==
  ASSUME RecordsInv
  PROVE  MetadataAgrees
<1> SUFFICES ASSUME FileRead
             PROVE  /\ top.obj.num_rows = group.num_rows
                    /\ group.num_rows = column.num_values
                    /\ group.total_byte_size = column.total_uncompressed_size
                    /\ group.total_compressed_size = column.total_compressed_size
                    /\ group.file_offset = column.data_page_offset
                    /\ Len(group.columns) = Cardinality({k \in DOMAIN top.obj.schema : Has(top.obj.schema[k], "type")})
  BY DEF MetadataAgrees
<1>1. /\ FileMetaData \in TypeSet /\ top.obj.schema = Schema(Call, "object")
      /\ top.obj.num_rows = Call.total_count
      /\ group = RowGroupOf(Call, "object") /\ column = ColumnMetaDataOf(Call, "object")
  BY FileReadIs
<1>2. PICK c : c = Call
  OBVIOUS
<1>3. /\ Len(group.columns) = 1 /\ group.num_rows = c.total_count
      /\ group.total_byte_size = c.total_uncompressed_size
      /\ group.file_offset = 4 /\ group.total_compressed_size = c.total_compressed_size
  BY <1>1, <1>2, GroupIs
<1>4. /\ column.num_values = c.total_count /\ column.total_uncompressed_size = c.total_uncompressed_size
      /\ column.total_compressed_size = c.total_compressed_size /\ column.data_page_offset = 4
  BY <1>1, <1>2, ColumnIs
<1>5. PICK s : s = Schema(c, "object")
  OBVIOUS
<1>6. DOMAIN s = {1, 2} /\ ~Has(s[1], "type") /\ Has(s[2], "type")
  BY <1>1, <1>5, SchemaIs
<1>7. {k \in DOMAIN s : Has(s[k], "type")} = {2}
  BY <1>6
<1>8. Cardinality({k \in DOMAIN s : Has(s[k], "type")}) = 1
  BY <1>7, FS_Singleton
<1> QED
  BY <1>1, <1>2, <1>3, <1>4, <1>5, <1>8


\* Two elements: a group of one child, and its leaf.
LEMMA InvSchemaIsTree ==
  ASSUME RecordsInv
  PROVE  SchemaIsTree
<1> SUFFICES ASSUME FileRead
             PROVE  LET schema   == top.obj.schema
                        children == [k \in DOMAIN schema |->
                                       IF Has(schema[k], "num_children") THEN schema[k].num_children ELSE 0]
                    IN  /\ SumFunction(children) = Len(schema) - 1
                        /\ \A k \in DOMAIN schema : Has(schema[k], "type") = ~Has(schema[k], "num_children")
                        /\ column.path_in_schema = <<leaf.name>>
  BY DEF SchemaIsTree
<1>1. /\ FileMetaData \in TypeSet /\ top.obj.schema = Schema(Call, "object")
      /\ column = ColumnMetaDataOf(Call, "object")
  BY FileReadIs
<1>2. PICK c : c = Call
  OBVIOUS
<1>3. PICK s : s = top.obj.schema
  OBVIOUS
<1>4. /\ Len(s) = 2 /\ DOMAIN s = {1, 2}
      /\ s[1].num_children = 1 /\ Has(s[1], "num_children") /\ ~Has(s[1], "type")
      /\ s[2].name = c.name /\ ~Has(s[2], "num_children") /\ Has(s[2], "type")
  BY <1>1, <1>2, <1>3, SchemaIs
<1>5. column.path_in_schema = <<c.name>>
  BY <1>1, <1>2, ColumnIs
<1>6. column.path_in_schema = <<leaf.name>>
  BY <1>3, <1>4, <1>5 DEF leaf
<1>7. PICK children : children = [k \in DOMAIN s |-> IF Has(s[k], "num_children") THEN s[k].num_children ELSE 0]
  OBVIOUS
<1>8. DOMAIN children = {1, 2} /\ children[1] = 1 /\ children[2] = 0
  BY <1>4, <1>7
<1>9. SumFunction(children) = 1
  <2>1. IsFiniteSet({1, 2})
    <3>1. IsFiniteSet({1}) /\ {1} \cup {2} = {1, 2}
      BY FS_Singleton
    <3>2. IsFiniteSet({1} \cup {2})
      BY <3>1, FS_AddElement
    <3> QED
      BY <3>1, <3>2
  <2>2. \A x \in {1, 2} : children[x] \in Int
    BY <1>8
  <2>3. SumOver(children, {1, 2}) = children[1] + SumOver(children, {1, 2} \ {1})
    BY <2>1, <2>2, SumTakes
  <2>4. SumOver(children, {2}) = children[2] + SumOver(children, {2} \ {2})
    BY <2>1, <2>2, SumTakes
  <2>5. {1, 2} \ {1} = {2} /\ {2} \ {2} = {}
    OBVIOUS
  <2>6. SumOver(children, {}) = 0
    BY SumNone
  <2>7. SumOver(children, {1, 2}) = 1
    BY <1>8, <2>3, <2>4, <2>5, <2>6
  <2> QED
    BY <1>8, <2>7 DEF SumOver, SumFunction, SumFunctionOnSet
<1>10. \A k \in DOMAIN s : Has(s[k], "type") = ~Has(s[k], "num_children")
  BY <1>4 DEF Has
<1> QED
  BY <1>3, <1>4, <1>6, <1>7, <1>9, <1>10


\* What the converted type and the type announce, for every type of an array.
LEMMA TypesAreTold ==
  ASSUME NEW t \in DataTypes, NEW element,
         element.type = ToParquetType(t),
         Has(element, "converted_type") <=> ToParquetConvertedType(t) # {},
         ToParquetConvertedType(t) # {} =>
           element.converted_type = CHOOSE u \in ToParquetConvertedType(t) : TRUE
  PROVE  /\ Announced(element).bits = BitsOf(t) /\ Announced(element).kind = KindOf(t)
         /\ ToParquetType(t) = Announced(element).stored
<1> DEFINE conv == ToParquetConvertedType(t)
<1>1. ASSUME NEW u, conv = {u} PROVE Has(element, "converted_type") /\ element.converted_type = u
  <2>1. (CHOOSE w \in {u} : TRUE) = u
    OBVIOUS
  <2> QED
    BY <1>1, <2>1
<1>2. CASE t = "INT8"
  <2>1. conv = {15}
    BY <1>2 DEF ToParquetConvertedType, ConvertedType
  <2>2. Has(element, "converted_type") /\ element.converted_type = 15
    BY <1>1, <2>1
  <2> QED
    BY <1>2, <2>2 DEF Announced, ConvertedType, BitsOf, KindOf, ToParquetType, Type
<1>3. CASE t = "UINT8"
  <2>1. conv = {11}
    BY <1>3 DEF ToParquetConvertedType, ConvertedType
  <2>2. Has(element, "converted_type") /\ element.converted_type = 11
    BY <1>1, <2>1
  <2> QED
    BY <1>3, <2>2 DEF Announced, ConvertedType, BitsOf, KindOf, ToParquetType, Type
<1>4. CASE t = "INT32"
  <2>1. conv = {17}
    BY <1>4 DEF ToParquetConvertedType, ConvertedType
  <2>2. Has(element, "converted_type") /\ element.converted_type = 17
    BY <1>1, <2>1
  <2> QED
    BY <1>4, <2>2 DEF Announced, ConvertedType, BitsOf, KindOf, ToParquetType, Type
<1>5. CASE t = "UINT32"
  <2>1. conv = {13}
    BY <1>5 DEF ToParquetConvertedType, ConvertedType
  <2>2. Has(element, "converted_type") /\ element.converted_type = 13
    BY <1>1, <2>1
  <2> QED
    BY <1>5, <2>2 DEF Announced, ConvertedType, BitsOf, KindOf, ToParquetType, Type
<1>6. CASE t = "INT64"
  <2>1. conv = {18}
    BY <1>6 DEF ToParquetConvertedType, ConvertedType
  <2>2. Has(element, "converted_type") /\ element.converted_type = 18
    BY <1>1, <2>1
  <2> QED
    BY <1>6, <2>2 DEF Announced, ConvertedType, BitsOf, KindOf, ToParquetType, Type
<1>7. CASE t = "UINT64"
  <2>1. conv = {14}
    BY <1>7 DEF ToParquetConvertedType, ConvertedType
  <2>2. Has(element, "converted_type") /\ element.converted_type = 14
    BY <1>1, <2>1
  <2> QED
    BY <1>7, <2>2 DEF Announced, ConvertedType, BitsOf, KindOf, ToParquetType, Type
<1>8. CASE t = "FLOAT32"
  <2>1. conv = {} /\ ToParquetType(t) = 4
    BY <1>8 DEF ToParquetConvertedType, ToParquetType, Type
  <2>2. ~Has(element, "converted_type") /\ element.type = 4
    BY <2>1
  <2> QED
    BY <1>8, <2>1, <2>2 DEF Announced, BitsOf, KindOf, Type
<1>9. CASE t = "FLOAT64"
  <2>1. conv = {} /\ ToParquetType(t) = 5
    BY <1>9 DEF ToParquetConvertedType, ToParquetType, Type
  <2>2. ~Has(element, "converted_type") /\ element.type = 5
    BY <2>1
  <2> QED
    BY <1>9, <2>1, <2>2 DEF Announced, BitsOf, KindOf, Type
<1> QED
  BY <1>2, <1>3, <1>4, <1>5, <1>6, <1>7, <1>8, <1>9 DEF DataTypes

LEMMA InvSchemaTellsType ==
  ASSUME RecordsInv
  PROVE  SchemaTellsType
<1> SUFFICES ASSUME FileRead
             PROVE  /\ Announced(leaf).bits = BitsOf(Call.type) /\ Announced(leaf).kind = KindOf(Call.type)
                    /\ leaf.type = Announced(leaf).stored /\ column.type = Announced(leaf).stored
  BY DEF SchemaTellsType
<1>1. /\ FileMetaData \in TypeSet /\ Call.type \in DataTypes
      /\ top.obj.schema = Schema(Call, "object") /\ column = ColumnMetaDataOf(Call, "object")
  BY FileReadIs
<1>2. PICK c : c = Call
  OBVIOUS
<1>3. PICK s : s = Schema(c, "object")
  OBVIOUS
<1>4. PICK element : element = s[2]
  OBVIOUS
<1>5. /\ element.type = ToParquetType(c.type)
      /\ Has(element, "converted_type") <=> ToParquetConvertedType(c.type) # {}
      /\ ToParquetConvertedType(c.type) # {} =>
           element.converted_type = CHOOSE u \in ToParquetConvertedType(c.type) : TRUE
  BY <1>1, <1>3, <1>4, SchemaIs
<1>6. PICK t : t = c.type
  OBVIOUS
<1>7. t \in DataTypes
  BY <1>1, <1>2, <1>6
<1>8. element.type = ToParquetType(t)
  BY <1>5, <1>6
<1>9. Has(element, "converted_type") <=> ToParquetConvertedType(t) # {}
  BY <1>5, <1>6
<1>10. ToParquetConvertedType(t) # {} =>
         element.converted_type = CHOOSE u \in ToParquetConvertedType(t) : TRUE
  BY <1>5, <1>6
<1>11. /\ Announced(element).bits = BitsOf(t) /\ Announced(element).kind = KindOf(t)
       /\ ToParquetType(t) = Announced(element).stored
  BY <1>7, <1>8, <1>9, <1>10, TypesAreTold
<1>12. leaf = element
  BY <1>1, <1>2, <1>3, <1>4 DEF leaf
<1>13. column.type = ToParquetType(t)
  BY <1>1, <1>2, <1>6, ColumnIs
<1> QED
  BY <1>2, <1>6, <1>8, <1>11, <1>12, <1>13


\* What AppendPage set: the header of a page,
LEMMA PageIs ==
  ASSUME PageHeader \in TypeSet, NEW c
  PROVE  LET h == PageHeaderOf(c, "object")
         IN  /\ h.type = PageType.DATA_PAGE_V2 /\ h.uncompressed_page_size = c.uncompressed_size
             /\ h.data_page_header_v2 = DataPage(c, "object") /\ Has(h, "data_page_header_v2")
             /\ ~Has(h, "data_page_header") /\ ~Has(h, "dictionary_page_header")
<1> DEFINE values == [type |-> PageType.DATA_PAGE_V2,
                      uncompressed_page_size |-> c.uncompressed_size,
                      compressed_page_size |-> c.compressed_size,
                      data_page_header_v2 |-> DataPage(c, "object")]
<1>1. PageHeaderOf(c, "object") = Made("object", PageHeader, values)
  BY DEF PageHeaderOf
<1>2. PageHeader.wire = "STRUCT"
  BY DEF PageHeader, Struct
<1>3. /\ DOMAIN values = {"type", "uncompressed_page_size", "compressed_page_size", "data_page_header_v2"}
      /\ values["type"] = PageType.DATA_PAGE_V2
      /\ values["uncompressed_page_size"] = c.uncompressed_size
      /\ values["data_page_header_v2"] = DataPage(c, "object")
  OBVIOUS
<1> HIDE DEF values
<1> DEFINE h == Made("object", PageHeader, values)
<1>4. /\ h["type"] = values["type"]
      /\ h["uncompressed_page_size"] = values["uncompressed_page_size"]
      /\ h["data_page_header_v2"] = values["data_page_header_v2"]
  BY <1>2, <1>3, MadeIs
<1>5. /\ Has(h, "data_page_header_v2")
      /\ ~Has(h, "data_page_header") /\ ~Has(h, "dictionary_page_header")
  BY <1>2, <1>3, MadeIs, OptionalFields DEF Has
<1>6. PageHeaderOf(c, "object") = h
  BY <1>1
<1> HIDE DEF h
<1> QED
  BY <1>3, <1>4, <1>5, <1>6

\* and of its data.
LEMMA DataPageIs ==
  ASSUME DataPageHeaderV2 \in TypeSet, NEW c
  PROVE  LET p == DataPage(c, "object")
         IN  /\ p.num_values = c.uncompressed_size \div c.value_size
             /\ p.num_rows = p.num_values /\ p.num_nulls = 0
             /\ p.definition_levels_byte_length = 0 /\ p.repetition_levels_byte_length = 0
<1> DEFINE num    == c.uncompressed_size \div c.value_size
           plain  == [num_values |-> num, num_nulls |-> 0, num_rows |-> num,
                      encoding |-> Encoding.PLAIN,
                      definition_levels_byte_length |-> 0, repetition_levels_byte_length |-> 0]
           values == IF c.is_compressed THEN Over([is_compressed |-> TRUE], plain) ELSE plain
<1>1. DataPage(c, "object") = Made("object", DataPageHeaderV2, values)
  BY DEF DataPage
<1>2. DataPageHeaderV2.wire = "STRUCT"
  BY DEF DataPageHeaderV2, Struct
<1> HIDE DEF num
<1> DEFINE names == {"num_values", "num_nulls", "num_rows",
                     "definition_levels_byte_length", "repetition_levels_byte_length"}
<1>3. /\ names \subseteq DOMAIN plain
      /\ plain["num_values"] = num /\ plain["num_nulls"] = 0 /\ plain["num_rows"] = num
      /\ plain["definition_levels_byte_length"] = 0 /\ plain["repetition_levels_byte_length"] = 0
  OBVIOUS
<1>4. names \subseteq DOMAIN values /\ \A n \in names : values[n] = plain[n]
  <2> DEFINE f == [is_compressed |-> TRUE]
  <2>1. DOMAIN f = {"is_compressed"} /\ "is_compressed" \notin names
    OBVIOUS
  <2>2. values = IF c.is_compressed THEN Over(f, plain) ELSE plain
    OBVIOUS
  <2> HIDE DEF f, plain, values, names
  <2>3. CASE c.is_compressed
    BY <1>3, <2>1, <2>2, <2>3 DEF Over
  <2>4. CASE ~c.is_compressed
    BY <1>3, <2>2, <2>4
  <2> QED
    BY <2>3, <2>4
<1> HIDE DEF plain, values
<1> DEFINE p == Made("object", DataPageHeaderV2, values)
<1>5. \A n \in names : p[n] = values[n]
  BY <1>2, <1>4, MadeIs
<1>6. DataPage(c, "object") = p
  BY <1>1
<1> HIDE DEF p
<1>7. /\ p["num_values"] = num /\ p["num_nulls"] = 0 /\ p["num_rows"] = num
      /\ p["definition_levels_byte_length"] = 0 /\ p["repetition_levels_byte_length"] = 0
  BY <1>3, <1>4, <1>5
<1> QED
  BY <1>6, <1>7 DEF num

LEMMA InvPageMatchesSchema ==
  ASSUME RecordsInv
  PROVE  PageMatchesSchema
<1> SUFFICES ASSUME PageRead
             PROVE  /\ (top.obj.type = PageType.DATA_PAGE_V2) = Has(top.obj, "data_page_header_v2")
                    /\ ~Has(top.obj, "data_page_header") /\ ~Has(top.obj, "dictionary_page_header")
                    /\ v2.num_rows = v2.num_values - v2.num_nulls
                    /\ v2.repetition_levels_byte_length + v2.definition_levels_byte_length
                         + v2.num_values * Call.value_size = top.obj.uncompressed_page_size
  BY DEF PageMatchesSchema
<1>1. /\ IsCall(Call) /\ top.obj = Metadata(Call, "object") /\ RecordOf(Call) \in TypeSet
      /\ Call.kind = "page"
  BY CallIs DEF PageRead
<1>2. PageHeader \in TypeSet /\ top.obj = PageHeaderOf(Call, "object")
  BY <1>1 DEF RecordOf, Metadata
<1>3. PICK c : c = Call
  OBVIOUS
<1>4. PICK h : h = PageHeaderOf(c, "object")
  OBVIOUS
<1>5. /\ h.type = PageType.DATA_PAGE_V2 /\ h.uncompressed_page_size = c.uncompressed_size
      /\ h.data_page_header_v2 = DataPage(c, "object") /\ Has(h, "data_page_header_v2")
      /\ ~Has(h, "data_page_header") /\ ~Has(h, "dictionary_page_header")
  BY <1>2, <1>4, PageIs
<1>6. DataPageHeaderV2 \in TypeSet
  BY <1>2, PageTypes
<1>7. PICK p : p = DataPage(c, "object")
  OBVIOUS
<1>8. /\ p.num_values = c.uncompressed_size \div c.value_size
      /\ p.num_rows = p.num_values /\ p.num_nulls = 0
      /\ p.definition_levels_byte_length = 0 /\ p.repetition_levels_byte_length = 0
  BY <1>6, <1>7, DataPageIs
<1>9. /\ c.value_size \in {1, 4, 8} /\ c.uncompressed_size \in Nat
      /\ c.uncompressed_size % c.value_size = 0
  BY <1>1, <1>3 DEF IsCall
<1>10. v2 = p /\ top.obj = h
  BY <1>2, <1>3, <1>4, <1>5, <1>7 DEF v2
<1>11. \A n \in Nat, w \in {1, 4, 8} : n % w = 0 => n \div w \in Nat /\ (n \div w) * w = n
  OBVIOUS
<1>12. p.num_values \in Nat /\ p.num_values * c.value_size = c.uncompressed_size
  BY <1>8, <1>9, <1>11
<1>13. PICK n : n = p.num_values
  OBVIOUS
<1>14. n = n - 0 /\ 0 + 0 + n * c.value_size = c.uncompressed_size
  BY <1>9, <1>12, <1>13
<1> QED
  BY <1>3, <1>5, <1>8, <1>10, <1>13, <1>14


-----------------------------------------------------------------------------
(* What the setters are given. *)

\* No required field of a record is missing from the values.
AllGiven(type, values) ==
  \A k \in DOMAIN type.fields : type.fields[k].req => Has(values, type.fields[k].name)

LEMMA PageGiven ==
  ASSUME NEW c
  PROVE  AllGiven(PageHeader, PageHeaderOf(c, "set")) /\ AllGiven(DataPageHeaderV2, DataPage(c, "set"))
<1>1. AllGiven(PageHeader, PageHeaderOf(c, "set"))
  <2>1. DOMAIN PageHeader.fields = 1..8
    BY DEF PageHeader, Struct, Req, Opt
  <2>2. \A k \in 1..8 : PageHeader.fields[k].req => k \in {1, 2, 3}
    BY DEF PageHeader, Struct, Req, Opt
  <2>3. /\ PageHeader.fields[1].name = "type" /\ PageHeader.fields[2].name = "uncompressed_page_size"
        /\ PageHeader.fields[3].name = "compressed_page_size"
    BY DEF PageHeader, Struct, Req, Opt
  <2>4. {"type", "uncompressed_page_size", "compressed_page_size"} \subseteq DOMAIN PageHeaderOf(c, "set")
    BY DEF PageHeaderOf, Made
  <2> QED
    BY <2>1, <2>2, <2>3, <2>4 DEF AllGiven, Has
<1>2. AllGiven(DataPageHeaderV2, DataPage(c, "set"))
  <2> DEFINE names == {"num_values", "num_nulls", "num_rows", "encoding",
                       "definition_levels_byte_length", "repetition_levels_byte_length"}
  <2>1. DOMAIN DataPageHeaderV2.fields = 1..8
    BY DEF DataPageHeaderV2, Struct, Req, Opt, Default
  <2>2. \A k \in 1..8 : DataPageHeaderV2.fields[k].req => k \in 1..6
    BY DEF DataPageHeaderV2, Struct, Req, Opt, Default
  <2>3. \A k \in 1..6 : DataPageHeaderV2.fields[k].name \in names
    BY DEF DataPageHeaderV2, Struct, Req, Opt, Default
  <2>4. names \subseteq DOMAIN DataPage(c, "set")
    BY DEF DataPage, Made, Over
  <2> HIDE DEF names
  <2> QED
    BY <2>1, <2>2, <2>3, <2>4 DEF AllGiven, Has
<1> QED
  BY <1>1, <1>2

LEMMA FooterGiven ==
  ASSUME NEW c
  PROVE  /\ AllGiven(FileMetaData, FileMetaDataOf(c, "set"))
         /\ AllGiven(RowGroup, RowGroupOf(c, "set"))
         /\ AllGiven(ColumnChunk, RowGroupOf(c, "set").columns[1])
         /\ AllGiven(ColumnMetaData, ColumnMetaDataOf(c, "set"))
<1>1. AllGiven(FileMetaData, FileMetaDataOf(c, "set"))
  <2> DEFINE names == {"version", "schema", "num_rows", "row_groups"}
  <2>1. DOMAIN FileMetaData.fields = 1..9
    BY DEF FileMetaData, Struct, Req, Opt
  <2>2. \A k \in 1..9 : FileMetaData.fields[k].req => k \in 1..4
    BY DEF FileMetaData, Struct, Req, Opt
  <2>3. \A k \in 1..4 : FileMetaData.fields[k].name \in names
    BY DEF FileMetaData, Struct, Req, Opt
  <2>4. names \subseteq DOMAIN FileMetaDataOf(c, "set")
    BY DEF FileMetaDataOf, Made
  <2> HIDE DEF names
  <2> QED
    BY <2>1, <2>2, <2>3, <2>4 DEF AllGiven, Has
<1>2. AllGiven(RowGroup, RowGroupOf(c, "set"))
  <2> DEFINE names == {"columns", "total_byte_size", "num_rows"}
  <2>1. DOMAIN RowGroup.fields = 1..7
    BY DEF RowGroup, Struct, Req, Opt
  <2>2. \A k \in 1..7 : RowGroup.fields[k].req => k \in 1..3
    BY DEF RowGroup, Struct, Req, Opt
  <2>3. \A k \in 1..3 : RowGroup.fields[k].name \in names
    BY DEF RowGroup, Struct, Req, Opt
  <2>4. names \subseteq DOMAIN RowGroupOf(c, "set")
    BY DEF RowGroupOf, Made
  <2> HIDE DEF names
  <2> QED
    BY <2>1, <2>2, <2>3, <2>4 DEF AllGiven, Has
<1>3. AllGiven(ColumnChunk, RowGroupOf(c, "set").columns[1])
  <2> DEFINE names == {"file_offset"}
             chunk == [file_offset |-> 0, meta_data |-> ColumnMetaDataOf(c, "set")]
  <2>1. DOMAIN ColumnChunk.fields = 1..9
    BY DEF ColumnChunk, Struct, Req, Opt, Default
  <2>2. \A k \in 1..9 : ColumnChunk.fields[k].req => k = 2
    BY DEF ColumnChunk, Struct, Req, Opt, Default
  <2>3. ColumnChunk.fields[2].name \in names
    BY DEF ColumnChunk, Struct, Req, Opt, Default
  <2>4. RowGroupOf(c, "set").columns = <<chunk>>
    BY DEF RowGroupOf, Made
  <2>5. names \subseteq DOMAIN chunk
    OBVIOUS
  <2> HIDE DEF names, chunk
  <2> QED
    BY <2>1, <2>2, <2>3, <2>4, <2>5 DEF AllGiven, Has
<1>4. AllGiven(ColumnMetaData, ColumnMetaDataOf(c, "set"))
  <2> DEFINE names == {"type", "encodings", "path_in_schema", "codec", "num_values",
                       "total_uncompressed_size", "total_compressed_size", "data_page_offset"}
  <2>1. DOMAIN ColumnMetaData.fields = 1..17
    BY DEF ColumnMetaData, Struct, Req, Opt
  <2>2. \A k \in 1..17 : ColumnMetaData.fields[k].req => k \in 1..7 \cup {9}
    BY DEF ColumnMetaData, Struct, Req, Opt
  <2>3. \A k \in 1..7 \cup {9} : ColumnMetaData.fields[k].name \in names
    BY DEF ColumnMetaData, Struct, Req, Opt
  <2>4. names \subseteq DOMAIN ColumnMetaDataOf(c, "set")
    BY DEF ColumnMetaDataOf, Made
  <2> HIDE DEF names
  <2> QED
    BY <2>1, <2>2, <2>3, <2>4 DEF AllGiven, Has
<1> QED
  BY <1>1, <1>2, <1>3, <1>4


\* Statistics require nothing; an element of the schema, its name.
LEMMA StatisticsGiven ==
  ASSUME NEW values
  PROVE  AllGiven(Statistics, values)
<1>1. DOMAIN Statistics.fields = 1..8
  BY DEF Statistics, Struct, Opt
<1>2. \A k \in 1..8 : ~Statistics.fields[k].req
  BY DEF Statistics, Struct, Opt
<1> QED
  BY <1>1, <1>2 DEF AllGiven

LEMMA ElementGiven ==
  ASSUME NEW values, Has(values, "name")
  PROVE  AllGiven(SchemaElement, values)
<1>1. DOMAIN SchemaElement.fields = 1..10
  BY DEF SchemaElement, Struct, Req, Opt
<1>2. \A k \in 1..10 : SchemaElement.fields[k].req => k = 4
  BY DEF SchemaElement, Struct, Req, Opt
<1>3. SchemaElement.fields[4].name = "name"
  BY DEF SchemaElement, Struct, Req, Opt
<1> QED
  BY <1>1, <1>2, <1>3 DEF AllGiven

LEMMA SchemaGiven ==
  ASSUME NEW c
  PROVE  \A element \in Range(Schema(c, "set")) : AllGiven(SchemaElement, element)
<1> DEFINE conv == ToParquetConvertedType(c.type)
           root == [name |-> "vtkfile", repetition_type |-> FieldRepetitionType.REQUIRED, num_children |-> 1]
           ele  == [name |-> c.name, repetition_type |-> FieldRepetitionType.REQUIRED,
                    type |-> ToParquetType(c.type)]
           f    == [converted_type |-> CHOOSE t \in conv : TRUE]
           tail == IF conv = {} THEN ele ELSE Over(f, ele)
<1>1. Schema(c, "set") = <<root, tail>>
  BY DEF Schema, Made
<1>2. Has(root, "name")
  BY DEF Has
<1>3. Has(tail, "name")
  <2>1. "name" \in DOMAIN ele
    OBVIOUS
  <2> HIDE DEF ele, f, conv
  <2> QED
    BY <2>1 DEF Has, Over
<1> HIDE DEF root, tail
<1>4. Range(<<root, tail>>) = {root, tail}
  BY DEF Range
<1>5. \A element \in {root, tail} : Has(element, "name")
  BY <1>2, <1>3
<1> QED
  BY <1>1, <1>4, <1>5, ElementGiven

LEMMA InvNothingLeftToDefault ==
  ASSUME RecordsInv
  PROVE  NothingLeftToDefault
<1> SUFFICES ASSUME CallRead, NEW g \in Given(Call)
             PROVE  AllGiven(g[1], g[2])
  BY DEF NothingLeftToDefault, AllGiven
<1>1. Call.kind = "page" \/ Call.kind = "footer"
  BY CallIs
<1>2. PICK c : c = Call
  OBVIOUS
<1>3. CASE c.kind = "page"
  <2>1. g \in {<<PageHeader, PageHeaderOf(c, "set")>>, <<DataPageHeaderV2, DataPage(c, "set")>>}
    BY <1>2, <1>3 DEF Given
  <2>2. \/ g[1] = PageHeader /\ g[2] = PageHeaderOf(c, "set")
        \/ g[1] = DataPageHeaderV2 /\ g[2] = DataPage(c, "set")
    BY <2>1
  <2>3. AllGiven(PageHeader, PageHeaderOf(c, "set")) /\ AllGiven(DataPageHeaderV2, DataPage(c, "set"))
    BY PageGiven
  <2> QED
    BY <2>2, <2>3
<1>4. CASE c.kind = "footer"
  <2> DEFINE records == {<<FileMetaData, FileMetaDataOf(c, "set")>>, <<RowGroup, RowGroupOf(c, "set")>>,
                         <<ColumnChunk, RowGroupOf(c, "set").columns[1]>>,
                         <<ColumnMetaData, ColumnMetaDataOf(c, "set")>>,
                         <<Statistics, ColumnMetaDataOf(c, "set").statistics>>}
             elements == {<<SchemaElement, element>> : element \in Range(Schema(c, "set"))}
  <2>1. g \in records \cup elements
    BY <1>2, <1>4 DEF Given
  <2>2. CASE g \in records
    <3>1. \/ g[1] = FileMetaData /\ g[2] = FileMetaDataOf(c, "set")
          \/ g[1] = RowGroup /\ g[2] = RowGroupOf(c, "set")
          \/ g[1] = ColumnChunk /\ g[2] = RowGroupOf(c, "set").columns[1]
          \/ g[1] = ColumnMetaData /\ g[2] = ColumnMetaDataOf(c, "set")
          \/ g[1] = Statistics /\ g[2] = ColumnMetaDataOf(c, "set").statistics
      BY <2>2
    <3>2. /\ AllGiven(FileMetaData, FileMetaDataOf(c, "set"))
          /\ AllGiven(RowGroup, RowGroupOf(c, "set"))
          /\ AllGiven(ColumnChunk, RowGroupOf(c, "set").columns[1])
          /\ AllGiven(ColumnMetaData, ColumnMetaDataOf(c, "set"))
      BY FooterGiven
    <3>3. AllGiven(Statistics, ColumnMetaDataOf(c, "set").statistics)
      BY StatisticsGiven
    <3> QED
      BY <3>1, <3>2, <3>3
  <2>3. CASE g \in elements
    <3>1. PICK element \in Range(Schema(c, "set")) : g = <<SchemaElement, element>>
      BY <2>3
    <3>2. g[1] = SchemaElement /\ g[2] = element
      BY <3>1
    <3> QED
      BY <3>2, SchemaGiven
  <2> QED
    BY <2>1, <2>2, <2>3
<1> QED
  BY <1>1, <1>2, <1>3, <1>4

-----------------------------------------------------------------------------

\* Every figure that the footer states more than once it states alike, for
\* every array (AppendFooter, fmap.cc).
THEOREM MetadataAgreesAlways == Spec => []MetadataAgrees
<1>1. RecordsInv => MetadataAgrees
  BY InvMetadataAgrees
<1> QED
  BY <1>1, RecordsInvariant, PTL

\* The elements of the schema that a reader has are a tree flattened depth
\* first, and the path of the column leads to its leaf (AppendFooter, fmap.cc).
THEOREM SchemaIsTreeAlways == Spec => []SchemaIsTree
<1>1. RecordsInv => SchemaIsTree
  BY InvSchemaIsTree
<1> QED
  BY <1>1, RecordsInvariant, PTL

\* The schema that a reader has says what VTK said of the values, for each of
\* its types (fmap.cc, ToParquetType and ToParquetConvertedType).
THEOREM SchemaTellsTypeAlways == Spec => []SchemaTellsType
<1>1. RecordsInv => SchemaTellsType
  BY InvSchemaTellsType
<1> QED
  BY <1>1, RecordsInvariant, PTL

\* The header of a page announces what it has, and its sizes leave room for
\* the values only, for pages of any number of values (AppendPage, fmap.cc).
THEOREM PageMatchesSchemaAlways == Spec => []PageMatchesSchema
<1>1. RecordsInv => PageMatchesSchema
  BY InvPageMatchesSchema
<1> QED
  BY <1>1, RecordsInvariant, PTL

\* AppendPage and AppendFooter (fmap.cc) leave no required field, at any
\* depth, to what the constructor gave it.
THEOREM NothingLeftToDefaultAlways == Spec => []NothingLeftToDefault
<1>1. RecordsInv => NothingLeftToDefault
  BY InvNothingLeftToDefault
<1> QED
  BY <1>1, RecordsInvariant, PTL

=============================================================================
