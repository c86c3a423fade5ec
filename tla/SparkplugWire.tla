---------------------------- MODULE SparkplugWire ----------------------------
(***************************************************************************)
(* The Sparkplug wire codec of twinflow.sensors (wire.py): a payload as    *)
(* the bytes a publish carries, and back.                                  *)
(*                                                                         *)
(* A byte is a number below 256.  A text is one byte, the number of its    *)
(* name.  A value is a pair <<kind, number>>, a float counting in units    *)
(* the four byte form keeps only the even ones of.  Absent is -1.  The     *)
(* widths of the integer fields are constants, so that their edges are     *)
(* within reach.                                                           *)
(***************************************************************************)
EXTENDS Integers, Sequences, SequencesExt

CONSTANTS
    MaxVarintBytes,     \* 10 in the code
    IntBits,            \* 32: the width of int_value
    LongBits            \* 64: the width of long_value and of any varint

ASSUME WidthAssumption ==
    /\ MaxVarintBytes \in Nat /\ IntBits \in Nat /\ LongBits \in Nat
    /\ 0 < IntBits /\ IntBits <= LongBits /\ LongBits <= 7 * MaxVarintBytes

Absent  == -1
Null    == <<"null", 0>>
Refused == <<-1>>       \* WireError raised by an encoder

\* The DataType enumeration: the code of a datatype is its place, from zero.
DataTypes == <<
    "Unknown", "Int8", "Int16", "Int32", "Int64", "UInt8", "UInt16", "UInt32",
    "UInt64", "Float", "Double", "Boolean", "String", "DateTime", "Text", "UUID",
    "DataSet", "Bytes", "File", "Template", "PropertySet", "PropertySetList",
    "Int8Array", "Int16Array", "Int32Array", "Int64Array", "UInt8Array",
    "UInt16Array", "UInt32Array", "UInt64Array", "FloatArray", "DoubleArray",
    "BooleanArray", "StringArray", "DateTimeArray">>

CodeOf(datatype) == (CHOOSE i \in DOMAIN DataTypes : DataTypes[i] = datatype) - 1

\* The width a signed datatype is taken in, for the datatypes that are signed.
SignedWidth == [t \in {"Int8", "Int16", "Int32", "Int64"} |->
                  IF t = "Int64" THEN LongBits ELSE IntBits]

\* The field of the value oneof that carries a datatype, 0 when none does.
ValueField(datatype) ==
    CASE datatype \in {"Int8", "Int16", "Int32", "UInt8", "UInt16", "UInt32"} -> 10
      [] datatype \in {"Int64", "UInt64", "DateTime"} -> 11
      [] datatype = "Float"   -> 12
      [] datatype = "Double"  -> 13
      [] datatype = "Boolean" -> 14
      [] datatype \in {"String", "Text", "UUID"} -> 15
      [] datatype \in {"Unknown", "DataSet", "Template", "PropertySet",
                       "PropertySetList"} -> 0
      [] OTHER -> 16
-----------------------------------------------------------------------------
(* Signing and the smallest pieces.                                        *)

to_unsigned(v, bits) == v % (2 ^ bits)

to_signed(v, bits) ==
    LET u == v % (2 ^ bits) IN IF u >= 2 ^ (bits - 1) THEN u - 2 ^ bits ELSE u

\* Seven bits to a byte, the low ones first, the high bit set on all but the last.
Varint(v) ==
    IF v < 0 \/ v >= 2 ^ LongBits THEN Refused
    ELSE LET n == CHOOSE k \in 1..MaxVarintBytes :
                    v < 128 ^ k /\ (k = 1 \/ v >= 128 ^ (k - 1))
         IN [i \in 1..n |-> ((v \div 128 ^ (i - 1)) % 128) + (IF i < n THEN 128 ELSE 0)]

\* Pieces one after the other; an error in one is an error of the whole.
Join(pieces) == IF Contains(pieces, Refused) THEN Refused ELSE FlattenSeq(pieces)

Tag(field, wire)         == Varint(8 * field + wire)
UintField(field, v)      == Join(<<Tag(field, 0), Varint(v)>>)
BoolField(field, b)      == UintField(field, IF b = 0 THEN 0 ELSE 1)
Delimited(field, bytes)  == Join(<<Tag(field, 2), Varint(Len(bytes)), bytes>>)
StringField(field, text) == Delimited(field, <<text>>)

\* struct.pack: four bytes keep less of a float than eight do.
Fixed(field, width, v) ==
    LET kept == IF width = 4 THEN v - (v % 2) ELSE v
        byte(i) == IF i > 3 THEN 0 ELSE (kept \div 256 ^ (i - 1)) % 256
    IN  Tag(field, IF width = 4 THEN 5 ELSE 1) \o [i \in 1..width |-> byte(i)]
-----------------------------------------------------------------------------
(* The reader: offsets are from one, and offset 0 is a WireError.          *)

\* The bytes of the varint at i, 0 when the buffer ends inside it or it is too long.
VarintLen(d, i) ==
    LET ends == {n \in 1..MaxVarintBytes : i + n - 1 <= Len(d) /\ d[i + n - 1] < 128}
    IN  IF ends = {} THEN 0 ELSE CHOOSE n \in ends : \A k \in ends : n <= k

ReadVarint(d, i) ==
    FoldLeftDomain(LAMBDA acc, k : acc + (d[i + k - 1] % 128) * 128 ^ (k - 1),
                   0, SubSeq(d, i, i + VarintLen(d, i) - 1))

\* take(): the offset after length bytes.
Take(d, i, length) == IF i + length > Len(d) + 1 THEN 0 ELSE i + length

AfterVarint(d, i) == IF VarintLen(d, i) = 0 THEN 0 ELSE i + VarintLen(d, i)

AfterBlob(d, i) ==
    LET at == AfterVarint(d, i)
    IN  IF at = 0 THEN 0 ELSE Take(d, at, ReadVarint(d, i))

Blob(d, i) == SubSeq(d, AfterVarint(d, i), AfterBlob(d, i) - 1)

FixedAt(d, i) == d[i] + 256 * d[i + 1] + 65536 * d[i + 2]

\* skip() of everything but a group.
SkipPlain(d, i, wire) ==
    CASE wire = 0 -> AfterVarint(d, i)
      [] wire = 1 -> Take(d, i, 8)
      [] wire = 2 -> AfterBlob(d, i)
      [] wire = 5 -> Take(d, i, 4)
      [] OTHER    -> 0

\* _skip_group(): past the end tag that closes the group opened before i.
SkipGroup(d, i) ==
    LET After[j \in 0..Len(d) + 1, depth \in 0..Len(d)] ==
          LET at == AfterVarint(d, j)
              raw == ReadVarint(d, j)
          IN  IF depth = 0 THEN j
              ELSE IF j = 0 \/ j > Len(d) \/ at = 0 THEN 0
              ELSE IF raw \div 8 = 0 THEN 0
              ELSE IF raw % 8 = 3 THEN After[at, depth + 1]
              ELSE IF raw % 8 = 4 THEN After[at, depth - 1]
              ELSE After[SkipPlain(d, at, raw % 8), depth]
    IN  After[i, 1]

Skip(d, i, wire) == IF wire = 3 THEN SkipGroup(d, i) ELSE SkipPlain(d, i, wire)

BadField == [num |-> 0, at |-> 0]

\* A message as the sequence of its fields, each with the offset of its value.
\* A field the decoder knows is read the way its number says, whatever wire type
\* the tag gives; any other is skipped by its wire type.
Fields(d, known) ==
    LET From[i \in 0..Len(d) + 1] ==
          IF i = 0 THEN <<BadField>>
          ELSE IF i > Len(d) THEN <<>>
          ELSE LET at  == AfterVarint(d, i)
                   raw == ReadVarint(d, i)
                   num == raw \div 8
                   next == IF num \in DOMAIN known
                           THEN SkipPlain(d, at, known[num])
                           ELSE Skip(d, at, raw % 8)
               IN  IF at = 0 \/ num = 0 THEN <<BadField>>
                   ELSE IF next = 0 THEN <<BadField>>
                   ELSE <<[num |-> num, at |-> at]>> \o From[next]
    IN  From[1]

Malformed(fields) == \E i \in DOMAIN fields : fields[i] = BadField
-----------------------------------------------------------------------------
(* Properties: pairs of a key and a value, in the order of the keys.       *)

PropertyType(v) ==
    CASE v[1] = "quality" -> "Int32"
      [] v[1] = "bool"    -> "Boolean"
      [] v[1] = "int"     -> "Int64"
      [] v[1] = "float"   -> "Double"
      [] v[1] = "str"     -> "String"
      [] OTHER            -> "Unknown"      \* refused

EncodePropertyValue(v) ==
    LET type == PropertyType(v)
        head == UintField(1, CodeOf(type))
        body == CASE type = "Boolean" -> BoolField(7, v[2])
                  [] type = "Int32"   -> UintField(3, to_unsigned(v[2], IntBits))
                  [] type = "Int64"   -> UintField(4, to_unsigned(v[2], LongBits))
                  [] type = "Double"  -> Fixed(6, 8, v[2])
                  [] type = "String"  -> StringField(8, v[2])
                  [] OTHER            -> Refused
    IN  Join(<<head, body>>)

\* properties is a function from the numbers of the keys.
SortedKeys(properties) == SetToSortSeq(DOMAIN properties, <)

EncodeProperties(properties) ==
    LET keys   == SortedKeys(properties)
        values == [i \in DOMAIN keys |-> EncodePropertyValue(properties[keys[i]])]
    IN  IF Contains(values, Refused) THEN Refused
        ELSE Join([i \in DOMAIN keys |-> StringField(1, keys[i])]
                  \o [i \in DOMAIN keys |-> Delimited(2, values[i])])

\* Raised says the decoder raised.
Raised == <<"raised", 0>>

PropertyReaders == [n \in 1..8 |-> CASE n = 5 -> 5 [] n = 6 -> 1 [] n = 8 -> 2 [] OTHER -> 0]

DecodePropertyValue(d) ==
    LET fields == Fields(d, PropertyReaders)
        Read(acc, f) ==
          IF acc.value = Raised THEN acc
          ELSE CASE f.num = 1 -> LET code == ReadVarint(d, f.at)
                                 IN  IF code >= Len(DataTypes)
                                     THEN [acc EXCEPT !.value = Raised]
                                     ELSE [acc EXCEPT !.type = DataTypes[code + 1]]
                 [] f.num = 3 -> [acc EXCEPT !.value = <<"int", to_signed(ReadVarint(d, f.at), IntBits)>>]
                 [] f.num = 4 -> [acc EXCEPT !.value = <<"int",
                                    IF acc.type \in DOMAIN SignedWidth
                                    THEN to_signed(ReadVarint(d, f.at), LongBits)
                                    ELSE ReadVarint(d, f.at)>>]
                 [] f.num \in {5, 6} -> [acc EXCEPT !.value = <<"float", FixedAt(d, f.at)>>]
                 [] f.num = 7 -> [acc EXCEPT !.value = <<"bool", IF ReadVarint(d, f.at) = 0 THEN 0 ELSE 1>>]
                 [] f.num = 8 -> [acc EXCEPT !.value = <<"str", Blob(d, f.at)[1]>>]
                 [] OTHER -> acc
    IN  IF Malformed(fields) THEN Raised
        ELSE FoldLeft(Read, [type |-> "Unknown", value |-> Null], fields).value

\* The keys and the values are matched by position, the shorter list deciding.
DecodeProperties(d) ==
    LET fields == Fields(d, [n \in {1, 2} |-> 2])
        keys   == SelectSeq(fields, LAMBDA f : f.num = 1)
        values == SelectSeq(fields, LAMBDA f : f.num = 2)
        key(i) == Blob(d, keys[i].at)[1]
        both   == {i \in DOMAIN keys : i <= Len(values)}
        last(k) == CHOOSE i \in both : key(i) = k /\ \A j \in both : key(j) = k => j <= i
    IN  IF Malformed(fields) THEN [k \in {0} |-> Raised]
        ELSE [k \in {key(i) : i \in both} |-> DecodePropertyValue(Blob(d, values[last(k)].at))]
-----------------------------------------------------------------------------
(* Metrics and payloads.                                                   *)

EncodeValue(datatype, v) ==
    LET field == ValueField(datatype)
    IN  CASE field \in {10, 11} ->
               IF v[1] # "int" THEN Refused
               ELSE IF datatype \in DOMAIN SignedWidth
                    THEN UintField(field, to_unsigned(v[2], SignedWidth[datatype]))
                    ELSE UintField(field, v[2])
          [] field = 12 -> Fixed(12, 4, v[2])
          [] field = 13 -> Fixed(13, 8, v[2])
          [] field = 14 -> BoolField(14, v[2])
          [] field = 15 -> IF v[1] = "str" THEN StringField(15, v[2]) ELSE Refused
          [] field = 16 -> IF v[1] = "bytes" THEN Delimited(16, <<v[2]>>) ELSE Refused
          [] OTHER -> Refused

Optional(v, piece) == IF v = Absent THEN <<>> ELSE piece

encode_metric(m) ==
    IF m.datatype = "none" THEN Refused
    ELSE Join(<<
           Optional(m.name, StringField(1, m.name)),
           Optional(m.alias, UintField(2, m.alias)),
           Optional(m.ts, UintField(3, m.ts)),
           UintField(4, CodeOf(m.datatype)),
           IF DOMAIN m.properties = {} THEN <<>>
           ELSE LET set == EncodeProperties(m.properties)
                IN  IF set = Refused THEN Refused ELSE Delimited(9, set),
           IF m.value = Null THEN BoolField(7, 1) ELSE EncodeValue(m.datatype, m.value)>>)

DecodeValue(field, datatype, d, at) ==
    CASE field \in {10, 11} ->
           <<"int", IF datatype \in DOMAIN SignedWidth
                    THEN to_signed(ReadVarint(d, at), SignedWidth[datatype])
                    ELSE ReadVarint(d, at)>>
      [] field \in {12, 13} -> <<"float", FixedAt(d, at)>>
      [] field = 14 -> <<"bool", IF ReadVarint(d, at) = 0 THEN 0 ELSE 1>>
      [] field = 15 -> <<"str", Blob(d, at)[1]>>
      [] OTHER      -> <<"bytes", Blob(d, at)[1]>>

MetricReaders == [n \in {1, 2, 3, 4, 7, 9} |-> IF n \in {1, 9} THEN 2 ELSE 0]

\* The last field of a number, BadField when there is none.
LastField(fields, nums) ==
    IF \E i \in DOMAIN fields : fields[i].num \in nums
    THEN fields[CHOOSE i \in DOMAIN fields : /\ fields[i].num \in nums
                  /\ \A j \in DOMAIN fields : fields[j].num \in nums => j <= i]
    ELSE BadField

\* The value is read once the datatype is known, which may come after it.
decode_metric(d) ==
    LET fields == Fields(d, MetricReaders)
        number(n) == LET f == LastField(fields, {n})
                     IN  IF f = BadField THEN Absent ELSE ReadVarint(d, f.at)
        name   == LastField(fields, {1})
        set    == LastField(fields, {9})
        held   == LastField(fields, 10..19)
        code   == number(4)
        datatype == IF code = Absent THEN "Unknown" ELSE DataTypes[code + 1]
    IN  IF Malformed(fields) \/ code >= Len(DataTypes) THEN [value |-> Raised]
        ELSE [name  |-> IF name = BadField THEN Absent ELSE Blob(d, name.at)[1],
              alias |-> number(2), ts |-> number(3), datatype |-> datatype,
              value |-> IF held = BadField \/ number(7) > 0 THEN Null
                        ELSE DecodeValue(held.num, datatype, d, held.at),
              properties |-> IF set = BadField THEN <<>> ELSE DecodeProperties(Blob(d, set.at))]

encode_payload(p) ==
    LET metrics == [i \in DOMAIN p.metrics |-> encode_metric(p.metrics[i])]
    IN  IF Contains(metrics, Refused) THEN Refused
        ELSE Join(<<UintField(1, p.ts)>> \o [i \in DOMAIN metrics |-> Delimited(2, metrics[i])]
                  \o <<Optional(p.seq, UintField(3, p.seq))>>)

decode_payload(d) ==
    LET fields  == Fields(d, [n \in 1..5 |-> IF n \in {1, 3} THEN 0 ELSE 2])
        metrics == SelectSeq(fields, LAMBDA f : f.num = 2)
        number(n, otherwise) == LET f == LastField(fields, {n})
                     IN  IF f = BadField THEN otherwise ELSE ReadVarint(d, f.at)
    IN  IF Malformed(fields) THEN [metrics |-> <<>>, ts |-> Absent, seq |-> Absent]
        ELSE [metrics |-> [i \in DOMAIN metrics |-> decode_metric(Blob(d, metrics[i].at))],
              ts |-> number(1, 0), seq |-> number(3, Absent)]
=============================================================================
