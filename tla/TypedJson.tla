----------------------------- MODULE TypedJson -----------------------------
(***************************************************************************)
(* QTypedJson: how a JSON value becomes a value of a C++ type, and back.   *)
(*                                                                         *)
(* doWalk visits a value along its type.  Reader, the visitor that fills   *)
(* the value in, keeps a status that never leaves Failed, and error        *)
(* messages; both survive from one member to the next, and a variant tries *)
(* its alternatives on copies of them.  The stacks of values and objects   *)
(* of the Reader are the recursion of Read here; those of the JsonBuilder  *)
(* are in module JsonBuilder.  Messages are reduced to whether there is    *)
(* one.                                                                    *)
(*                                                                         *)
(* The types and the values have the same shape: an object is the sequence *)
(* of its members, an optional or a pointer is empty or holds one value, a *)
(* variant is the index of its alternative and a value.                    *)
(***************************************************************************)
EXTENDS Integers, Sequences

\* A fold from the left, for the visitors: one step is done before the next one
\* begins, which keeps TLC's stack flat.
RECURSIVE Visited(_, _, _)
Visited(Visit(_, _), visitor, items) ==
  IF items = <<>> THEN visitor
  ELSE CHOOSE end \in {Visited(Visit, after, Tail(items)) :
                         after \in {Visit(visitor, Head(items))}} : TRUE

----------------------------------------------------------------------------
(* JSON values.  A fraction is a number that is not an integer. *)

Undefined == <<"undefined">>
Null == <<"null">>
Bool(b) == <<"bool", b>>
Number(n) == <<"number", n>>
Fraction == <<"fraction">>
String(s) == <<"string", s>>
Array(elements) == <<"array", elements>>
Object(members) == <<"object", members>>

Is(json, kind) == json[1] = kind
IsMissing(json) == Is(json, "undefined") \/ Is(json, "null")
IsDouble(json) == Is(json, "number") \/ Is(json, "fraction")

\* QJsonValue: operator[] and toArray of a value of another type are empty.
Names(json) == IF Is(json, "object") THEN DOMAIN json[2] ELSE {}
Member(json, name) == IF name \in Names(json) THEN json[2][name] ELSE Undefined
Elements(json) == IF Is(json, "array") THEN json[2] ELSE <<>>

----------------------------------------------------------------------------
(* Types. *)

Boolean == [kind |-> "bool"]
Int32 == [kind |-> "int"]
Double == [kind |-> "double"]
Bytes == [kind |-> "bytes"]
QString == [kind |-> "qstring"]
NullType == [kind |-> "null"]
AnyValue == [kind |-> "json"]
AnyObject == [kind |-> "jsonObject"]
AnyArray == [kind |-> "jsonArray"]
Optional(type) == [kind |-> "optional", of |-> type]
Pointer(type) == [kind |-> "pointer", of |-> type]
List(type) == [kind |-> "list", of |-> type]

\* A pair of numbers, which doWalk does not know.
Pair == [kind |-> "pair"]

\* keys gives the number of each enumerator by its name; byName says whether
\* enumToString writes the name, otherwise what it writes for a number without
\* one, and numerals whether enumFromString takes a number in a string.
Enum(keys, byName) ==
  [kind |-> "enum", keys |-> keys, byName |-> byName, otherwise |-> "number",
   numerals |-> TRUE]

\* initial is the alternative that a new variant holds.
VariantFrom(types, initial) ==
  [kind |-> "variant", of |-> types, initial |-> initial]
Variant(types) == VariantFrom(types, 1)

F(name, type) == [name |-> name, type |-> type]

\* extra says what endObject does with members that walk does not visit.
Struct(fields) == [kind |-> "object", fields |-> fields, extra |-> "ignore"]
StrictStruct(fields) == [Struct(fields) EXCEPT !.extra = "warn"]

FieldNames(type) == {type.fields[i].name : i \in DOMAIN type.fields}

\* What a new object of the type holds.
RECURSIVE Default(_)
Default(type) ==
  CASE type.kind = "bool" -> FALSE
    [] type.kind = "int" -> 0
    [] type.kind = "double" -> Number(0)
    [] type.kind \in {"bytes", "qstring"} -> ""
    [] type.kind = "null" -> "null"
    [] type.kind = "json" -> Null
    [] type.kind = "jsonObject" -> Object(<<>>)
    [] type.kind = "jsonArray" -> Array(<<>>)
    [] type.kind = "enum" -> 0
    [] type.kind = "pair" -> <<0, 0>>
    [] type.kind \in {"optional", "pointer", "list"} -> <<>>
    [] type.kind = "variant" ->
         <<type.initial, Default(type.of[type.initial])>>
    [] type.kind = "object" ->
         [i \in DOMAIN type.fields |-> Default(type.fields[i].type)]

----------------------------------------------------------------------------
(* Reader. *)

FreshReader == [failed |-> FALSE, messages |-> FALSE]

Result(reader, value) == [reader |-> reader, value |-> value]

\* Mutant: the status is not set.
MutantWarn(reader) == [reader EXCEPT !.messages = TRUE]
Warn(reader) == [failed |-> TRUE, messages |-> TRUE]

HasBasic(type, json) ==
  CASE type.kind = "bool" -> Is(json, "bool")
    [] type.kind = "bytes" -> Is(json, "string")
    [] type.kind \in {"int", "double"} -> IsDouble(json)

\* toInt(el) of a fraction is el.
FromBasic(type, json) ==
  CASE type.kind = "double" -> json
    [] type.kind = "int" /\ Is(json, "fraction") -> Default(type)
    [] OTHER -> json[2]

ReadBasic(type, json, reader) ==
  IF HasBasic(type, json) THEN Result(reader, FromBasic(type, json))
                          ELSE Result(Warn(reader), Default(type))

ReadNull(json, reader) ==
  Result(IF IsMissing(json) THEN reader ELSE Warn(reader), "null")

\* handleJson: a QJsonValue takes anything, the others what can be empty.
ReadJson(type, json, reader) ==
  LET wanted == IF type.kind = "jsonObject" THEN "object" ELSE "array"
  IN  CASE type.kind = "json" -> Result(reader, json)
        [] type.kind # "json" /\ Is(json, wanted) -> Result(reader, json)
        [] type.kind # "json" /\ IsMissing(json) ->
             Result(reader, Default(type))
        [] OTHER -> Result(Warn(reader), Default(type))

\* handleEnum and enumFromString: anything is an enumerator.
DecimalStrings == [s \in {"0", "1"} |-> IF s = "0" THEN 0 ELSE 1]

\* Mutant: names are not looked up.
MutantReadEnum(type, json, reader) ==
  Result(reader, IF Is(json, "number") THEN json[2] ELSE 0)
ReadEnum(type, json, reader) ==
  Result(reader,
         CASE Is(json, "number") -> json[2]
           [] type.numerals /\ Is(json, "string")
                /\ json[2] \in DOMAIN DecimalStrings ->
                DecimalStrings[json[2]]
           [] Is(json, "string") /\ json[2] \in DOMAIN type.keys ->
                type.keys[json[2]]
           [] OTHER -> 0)

\* startObjectF: nothing is read into an object once something has failed,
\* and an object that is not there is a failure without a message.
SkipObject(json, reader) == reader.failed \/ Is(json, "undefined")
SkippedReader(json, reader) ==
  IF reader.failed THEN reader ELSE [reader EXCEPT !.failed = TRUE]

\* endObject.
ReadExtra(type, json, reader) ==
  IF type.extra = "warn" /\ Names(json) \ FieldNames(type) # {}
  THEN Warn(reader) ELSE reader

\* doWalk takes a QString for a list, which startArray asserts that it is not.
\* Without assertions nothing is read, and an empty array is written.
ReadQString(reader) == Result(reader, "")
WriteQString == Array(<<>>)

\* doWalk only warns of a pair.
ReadPair(type, reader) == Result(reader, Default(type))

\* handleVariant copies the state of the reader before the first alternative
\* and puts the copy back before each of the others.
\* Mutant: the state is not put back.
MutantRestore(saved, left) == left
Restore(saved, left) == saved

\* Mutant: the messages are cleared and none is added.
MutantAllOptionsFailed(reader) == [reader EXCEPT !.messages = FALSE]
AllOptionsFailed(reader) == [reader EXCEPT !.messages = TRUE]

RECURSIVE Read(_, _, _)

ReadMember(json, partial, field) ==
  LET got == Read(field.type, Member(json, field.name), partial.reader)
  IN  Result(got.reader, Append(partial.value, got.value))

ReadObject(type, json, reader) ==
  IF SkipObject(json, reader)
  THEN Result(SkippedReader(json, reader), Default(type))
  ELSE LET Visit(partial, field) == ReadMember(json, partial, field)
           got == Visited(Visit, Result(reader, <<>>), type.fields)
       IN  Result(ReadExtra(type, json, got.reader), got.value)

\* Mutant: the list is resized to one element more.
MutantReadList(type, json, reader) ==
  Result(reader,
         [i \in 1..(Len(Elements(json)) + 1) |->
            IF i <= Len(Elements(json))
            THEN Read(type.of, Elements(json)[i], reader).value
            ELSE Default(type.of)])
ReadList(type, json, reader) ==
  Visited(LAMBDA partial, element :
            LET got == Read(type.of, element, partial.reader)
            IN  Result(got.reader, Append(partial.value, got.value)),
          Result(reader, <<>>), Elements(json))

ReadOptional(type, json, reader) ==
  IF IsMissing(json) THEN Result(reader, <<>>)
  ELSE LET got == Read(type.of, json, reader)
       IN  Result(got.reader, <<got.value>>)

\* The fold's state: the alternatives tried, whether one was read, and the
\* reader and the value as the last one tried has left them.
ReadVariant(type, json, saved) ==
  LET Try(last, alternative) ==
        IF last.found THEN last
        ELSE LET got == Read(alternative, json,
                             IF last.tried = 0 THEN saved
                             ELSE Restore(saved, last.reader))
             IN  [tried |-> last.tried + 1, found |-> ~got.reader.failed,
                  reader |-> got.reader, value |-> got.value]
      end == Visited(Try, [tried |-> 0, found |-> FALSE, reader |-> saved,
                           value |-> "null"], type.of)
  IN  IF end.found THEN Result(end.reader, <<end.tried, end.value>>)
      ELSE Result(AllOptionsFailed(end.reader), Default(type))

Read(type, json, reader) ==
  CASE type.kind \in {"bool", "int", "double", "bytes"} ->
         ReadBasic(type, json, reader)
    [] type.kind = "qstring" -> ReadQString(reader)
    [] type.kind = "pair" -> ReadPair(type, reader)
    [] type.kind = "null" -> ReadNull(json, reader)
    [] type.kind \in {"json", "jsonObject", "jsonArray"} ->
         ReadJson(type, json, reader)
    [] type.kind = "enum" -> ReadEnum(type, json, reader)
    [] type.kind \in {"optional", "pointer"} -> ReadOptional(type, json, reader)
    [] type.kind = "list" -> ReadList(type, json, reader)
    [] type.kind = "variant" -> ReadVariant(type, json, reader)
    [] type.kind = "object" -> ReadObject(type, json, reader)

----------------------------------------------------------------------------
(* What JsonBuilder writes, without its stacks.  Undefined stands for a     *)
(* value that is not written: the field is not there then. *)

WriteEnum(type, value) ==
  LET named == {name \in DOMAIN type.keys : type.keys[name] = value}
  IN  CASE type.byName /\ named # {} -> String(CHOOSE name \in named : TRUE)
        [] named = {} /\ type.otherwise = "empty" -> String("")
        [] OTHER -> Number(value)

\* handleMissingOptional pushes a null where the value is not directly in a
\* field; handlePointer pushes nothing, and is used in fields only.
WriteMissing(type, inField) ==
  IF type.kind = "pointer" \/ inField THEN Undefined ELSE Null

WriteSimple(type, value) ==
  CASE type.kind = "bool" -> Bool(value)
    [] type.kind = "int" -> Number(value)
    [] type.kind = "bytes" -> String(value)
    [] type.kind = "null" -> Null
    [] type.kind \in {"double", "json", "jsonObject", "jsonArray"} -> value
    [] type.kind = "enum" -> WriteEnum(type, value)

RECURSIVE Write(_, _, _)

WriteObject(type, value) ==
  LET Written(i) == Write(type.fields[i].type, value[i], TRUE)
      inserted == {i \in DOMAIN type.fields : Written(i) # Undefined}
  IN  Object([name \in {type.fields[i].name : i \in inserted} |->
                Written(CHOOSE i \in inserted : type.fields[i].name = name)])

Write(type, value, inField) ==
  CASE type.kind = "qstring" -> WriteQString
    [] type.kind = "pair" -> Undefined
    [] type.kind \in {"optional", "pointer"} ->
         IF value = <<>> THEN WriteMissing(type, inField)
                         ELSE Write(type.of, value[1], inField)
    [] type.kind = "variant" -> Write(type.of[value[1]], value[2], inField)
    [] type.kind = "list" ->
         Array([i \in DOMAIN value |-> Write(type.of, value[i], FALSE)])
    [] type.kind = "object" -> WriteObject(type, value)
    [] OTHER -> WriteSimple(type, value)
=============================================================================
