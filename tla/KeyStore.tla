------------------------------ MODULE KeyStore ------------------------------
(***************************************************************************)
(* The use the crate is made for (src/src/lib.rs): values are turned into  *)
(* the keys of a key-value database, which sorts byte strings, and are     *)
(* found again by scanning it.  Keys are made of primitives written one    *)
(* after the other, each with parameters of its own (src/src/primitives.rs)*)
(* or by Serializer, whose primitives all have the same parameters and     *)
(* whose records are inverted as a whole for the descending order.         *)
(***************************************************************************)
EXTENDS Primitives, RecordFormat

CONSTANTS
  Schema,   \* the ways to make keys, by name, each with the values it is used for
  Foreign,  \* byte strings other programs put into the database
  MaxKeys   \* bound on the number of keys

VARIABLES
  pc,       \* filling, scanning, done
  host,     \* endianness of the target
  name,     \* how keys are made
  put,      \* the values that were put
  table,    \* the keys in the database
  scanned,  \* the keys the scan has come to, in order
  got       \* what was decoded from each

setting == <<host, name>>
vars == <<pc, setting, put, table, scanned, got>>

schema == Schema[name]

\* A value is what its parts are: primitives, the tag of an option, the index of
\* a variant with what follows it, a text.
Field(ty, params) == [ty |-> ty, params |-> params]
Direct(fields, values) == [via |-> "direct", fields |-> fields, values |-> values]
Serde(params, order, values) ==
  [via |-> "serde", params |-> params, order |-> order, values |-> values]

Number(ty, w) == [op |-> "prim", ty |-> ty, w |-> w]

\* The bytes of the i-th field of a direct key.
FieldBytes(s, target, value, i) ==
  Encode(target, s.fields[i].params, value[i].ty, value[i].w)

\* The call of Serializer for a part.
Call(s, target, part) ==
  IF part.op = "prim"
  THEN Prim(Encode(target, s.params, part.ty, part.w))
  ELSE part

\* What Serializer writes for a value.
RecordIn(s, target, value) ==
  RecordOf(s.params.lengths, [i \in DOMAIN value |-> Call(s, target, value[i])])

\* The key of a value under a schema, on a target.
KeyIn(s, target, value) ==
  IF s.via = "direct"
  THEN FlattenSeq([i \in DOMAIN value |-> FieldBytes(s, target, value, i)])
  ELSE IF s.order = "Descending"
       THEN ComplementBytes(RecordIn(s, target, value))
       ELSE RecordIn(s, target, value)

KeyOf(value) == KeyIn(schema, host, value)

\* Where the i-th field of a direct key begins.
Offset(s, i) ==
  LET end[k \in 0..Len(s.fields)] == IF k = 0 THEN 0 ELSE end[k - 1] + s.fields[k].ty.bytes
  IN end[i - 1]

\* from_reader: a read that the key is too short for fails.
FieldIn(s, target, key, i) ==
  LET field == s.fields[i]
      end   == Offset(s, i) + field.ty.bytes
  IN IF Len(key) < end THEN Failed("PrematureEndOfInput")
     ELSE DecodePrimitive(target, field.params, field.ty, SubSeq(key, Offset(s, i) + 1, end))

\* The fields of a direct key one after the other, up to the first that fails.
\* What Deserializer makes of a record is the subject of another module.
ValueIn(s, target, key) ==
  LET read(i) == FieldIn(s, target, key, i)
      bad     == {i \in DOMAIN s.fields : read(i).err # "Ok"}
  IN IF bad # {} THEN Failed(read(Min(bad)).err)
     ELSE Decoded("Ok", [i \in DOMAIN s.fields |-> Number(s.fields[i].ty, read(i).val)])

ValueOf(key) == ValueIn(schema, host, key)

Unread == Decoded("Unread", << >>)

\* The words a value of a type can be, and the numbers a length or an index can.
HasType(ty, w) ==
  /\ w \in Word(ty)
  /\ ty.kind = "bool" => w \in {Zero, ByteOf(1)}
  /\ ty.kind = "char" => IsChar(w)

IsPrimitive(ty) ==
  /\ ty.bytes \in Nat \ {0}
  /\ ty.kind \in {"uint", "int", "float", "char", "bool"}
  /\ (ty.kind = "bool" => ty.bytes = 1) /\ (ty.kind = "char" => ty.bytes = 4)

Fits(n) == n \in Nat /\ n \div 16777216 < 256

IsPart(part) ==
  CASE part.op = "prim"    -> /\ part = Number(part.ty, part.w)
                              /\ IsPrimitive(part.ty) /\ HasType(part.ty, part.w)
    [] part.op = "bytes"   -> /\ part = Bytes(part.bytes)
                              /\ part.bytes \in Seq(BitByte) /\ Fits(Len(part.bytes))
    [] part.op = "variant" -> part = Variant(part.n) /\ Fits(part.n)
    [] part.op = "seq"     -> part = SeqOrMap(part.n) /\ Fits(part.n)
    [] OTHER               -> part \in {None, Some, Compound}

\* Whether two parts can stand at the same place of values of one type.
Alike(a, b) ==
  \/ a.op = b.op /\ (a.op = "prim" => a.ty = b.ty)
  \/ {a.op, b.op} = {"none", "some"}

\* A direct value has the fields of its schema.  Values of one type make the same
\* calls until one of them depends on the value, so that they differ there.
DirectSchema(s) ==
  /\ s.fields \in Seq({s.fields[i] : i \in DOMAIN s.fields})
  /\ \A i \in DOMAIN s.fields : IsPrimitive(s.fields[i].ty)
  /\ \A v \in s.values :
       /\ v \in Seq({v[i] : i \in DOMAIN v}) /\ Len(v) = Len(s.fields)
       /\ \A i \in DOMAIN v : /\ v[i] = Number(s.fields[i].ty, v[i].w)
                              /\ HasType(s.fields[i].ty, v[i].w)

SerdeSchema(s) ==
  /\ s.params.lengths \in {"front", "back"}
  /\ s.params.order # "Descending"  \* params.rs:31
  /\ \A v \in s.values : /\ v \in Seq({v[i] : i \in DOMAIN v})
                         /\ \A i \in DOMAIN v : IsPart(v[i])
  /\ \A v, w \in s.values : v # w =>
       \E i \in DOMAIN v \cap DOMAIN w :
         /\ v[i] # w[i] /\ Alike(v[i], w[i])
         /\ \A j \in 1..i - 1 : v[j] = w[j]

ASSUME StoreAssumption ==
  /\ \A n \in DOMAIN Schema :
       /\ Schema[n].via \in {"direct", "serde"}
       /\ Schema[n].via = "direct" => DirectSchema(Schema[n])
       /\ Schema[n].via = "serde"  => SerdeSchema(Schema[n])
  /\ Foreign \subseteq Seq(BitByte)
  /\ MaxKeys \in Nat
  /\ LenType \in Type

-----------------------------------------------------------------------------

\* Byte strings sort as the database sorts them.
ByteBefore(a, b) ==
  LET diff == {k \in 0..7 : a[k] # b[k]}
  IN diff # {} /\ a[Max(diff)] = 0

KeyBefore(s, t) ==
  \/ IsStrictPrefix(s, t)
  \/ \E i \in DOMAIN s \cap DOMAIN t :
       ByteBefore(s[i], t[i]) /\ \A j \in 1..i - 1 : s[j] = t[j]

Least(keys) == CHOOSE k \in keys : \A l \in keys \ {k} : KeyBefore(k, l)

Init ==
  /\ pc = "filling"
  /\ host \in {"Little", "Big"}
  /\ name \in DOMAIN Schema
  /\ put = {} /\ table = {} /\ scanned = << >> /\ got = << >>

\* to_writer or ser_to_vec_ordered, and put.
Insert ==
  /\ pc = "filling"
  /\ Cardinality(table) < MaxKeys
  /\ \E v \in schema.values \ put :
       put' = put \cup {v} /\ table' = table \cup {KeyOf(v)}
  /\ UNCHANGED <<pc, setting, scanned, got>>

\* A key no writer of the crate produced, for those that are read here.
InsertForeign ==
  /\ pc = "filling"
  /\ schema.via = "direct" /\ put = {} /\ table = {}
  /\ \E key \in Foreign : table' = {key}
  /\ UNCHANGED <<pc, setting, put, scanned, got>>

StartScan ==
  /\ pc = "filling"
  /\ table # {}
  /\ pc' = "scanning"
  /\ UNCHANGED <<setting, put, table, scanned, got>>

\* The next key of a forward scan, and from_reader over it.
ScanNext ==
  /\ pc = "scanning"
  /\ LET ahead == {k \in table : scanned = << >> \/ KeyBefore(Last(scanned), k)}
     IN \/ /\ ahead # {}
           /\ scanned' = Append(scanned, Least(ahead))
           /\ got' = Append(got, IF schema.via = "direct" THEN ValueOf(Least(ahead))
                                 ELSE Unread)
           /\ UNCHANGED pc
        \/ /\ ahead = {}
           /\ pc' = "done"
           /\ UNCHANGED <<scanned, got>>
  /\ UNCHANGED <<setting, put, table>>

Next == Insert \/ InsertForeign \/ StartScan \/ ScanNext

Spec == Init /\ [][Next]_vars

-----------------------------------------------------------------------------

\* The order of values.  Words compare at their highest different bit, signed
\* integers by sign first, floats by sign and magnitude, with the negative zero
\* below the positive and a positive NaN above infinity, as the tests have it.
WordLess(v, w) ==
  LET diff == {i \in DOMAIN v : v[i] # w[i]}
  IN diff # {} /\ v[Max(diff)] = 0

Negative(w) == w[Cardinality(DOMAIN w) - 1] = 1

NumberLess(ty, v, w) ==
  CASE ty.kind \in {"uint", "bool", "char"} -> WordLess(v, w)
    [] ty.kind = "int"   -> \/ Negative(v) /\ ~Negative(w)
                            \/ (Negative(v) <=> Negative(w)) /\ WordLess(v, w)
    [] ty.kind = "float" -> \/ Negative(v) /\ ~Negative(w)
                            \/ ~Negative(v) /\ ~Negative(w) /\ WordLess(v, w)
                            \/ Negative(v) /\ Negative(w) /\ WordLess(w, v)

\* The first part in which two values of a schema differ; the parts before it are
\* the same, and so is everything written for them at the front.
FirstDiff(v, w) == Min({i \in DOMAIN v \cap DOMAIN w : v[i] # w[i]})

\* Whether the order of a and b, parts at the same place, is one that the
\* encoding keeps: not that of a text and one it begins, nor that of sequences of
\* different lengths, since what lies behind them decides, nor that of a variant
\* with an index of two bytes.
Kept(a, b) ==
  CASE a.op = "variant" -> a.n < 128 /\ b.n < 128
    [] a.op = "bytes"   -> ~IsPrefix(a.bytes, b.bytes) /\ ~IsPrefix(b.bytes, a.bytes)
    [] OTHER            -> a.op # "seq"

PartLess(a, b) ==
  CASE a.op = "prim"    -> NumberLess(a.ty, a.w, b.w)
    [] a.op = "variant" -> a.n < b.n
    [] a.op = "bytes"   -> KeyBefore(a.bytes, b.bytes)
    [] OTHER            -> a.op = "none" /\ b.op = "some"

\* Whether keys of the schema keep the order of the i-th part, and which way.
Sorting(i) ==
  IF schema.via = "direct" THEN schema.fields[i].params.endianness = "Big"
  ELSE schema.params.endianness = "Big" /\ schema.params.lengths = "back"
Reversed(i) ==
  IF schema.via = "direct" THEN schema.fields[i].params.order = "Descending"
  ELSE schema.order = "Descending"

\* v is scanned before w.
MustPrecede(v, w) ==
  LET i == FirstDiff(v, w)
  IN /\ Sorting(i) /\ Kept(v[i], w[i])
     /\ IF Reversed(i) THEN PartLess(w[i], v[i]) ELSE PartLess(v[i], w[i])

\* Type invariant: keys are byte strings, and what is decoded is a value of its
\* type: a bool is 0 or 1 and a char a scalar value, whatever bytes it came from.
TypeOK ==
  /\ pc \in {"filling", "scanning", "done"}
  /\ put \subseteq schema.values
  /\ table \subseteq Seq(BitByte) /\ Range(scanned) \subseteq table
  /\ Len(got) = Len(scanned)
  /\ \A i \in DOMAIN got : got[i].err = "Ok" =>
       \A j \in DOMAIN got[i].val :
         HasType(got[i].val[j].ty, got[i].val[j].w)

\* lib.rs:2, in the form in which it holds: a scan meets values in their order, or
\* against it where they were written descending, from the first part in which
\* they differ on; each field of a direct key has a direction of its own.
ScanInOrder ==
  \A v, w \in put :
    v # w /\ MustPrecede(v, w) =>
      ~\E i, j \in DOMAIN scanned : i <= j /\ scanned[i] = KeyOf(w) /\ scanned[j] = KeyOf(v)

\* Nothing is lost in the database: different values have different keys, in every
\* format and on every target, and a key of primitives is decoded to the value,
\* bit by bit, that was put: zeros keep their signs and NaNs their payload.
KeysReadBack ==
  pc = "done" =>
    /\ Cardinality({KeyOf(v) : v \in put}) = Cardinality(put)
    /\ schema.via = "direct" =>
         \A v \in put : \E i \in DOMAIN scanned :
           scanned[i] = KeyOf(v) /\ got[i] = Decoded("Ok", v)

\* A key that is decoded begins with the key of what it is decoded to, whoever
\* wrote it, so that a value found by a scan is found again by its key; only the
\* bytes of bools say more than the bools.
DecodeIsExact ==
  \A i \in DOMAIN got :
    got[i].err = "Ok" /\ (\A j \in DOMAIN schema.fields : schema.fields[j].ty.kind # "bool") =>
      IsPrefix(KeyOf(got[i].val), scanned[i])

=============================================================================
