--------------------------- MODULE TypedJsonTrips ---------------------------
(***************************************************************************)
(* A value goes back and forth: one peer writes it as JSON, the other one  *)
(* reads that, and so on.  A trip starts with a value that the program has *)
(* or with JSON that some other program has sent.                          *)
(***************************************************************************)
EXTENDS JsonBuilder

LOCAL INSTANCE FiniteSetsExt

CONSTANTS
  Types,      \* the types of the messages
  Values(_),  \* the values of a type with which trips begin
  Wires(_),   \* the JSON values with which trips to a type begin
  MaxTrips    \* how often a value is written

ASSUME TripAssumption == MaxTrips \in Nat

VARIABLES
  valueType,    \* the type of the value
  held,         \* what the program holds
  wire,         \* what was sent last
  readState,    \* the state of the Reader when it was done
  builderLeft,  \* the state of the JsonBuilder when it was done
  next,         \* "read" or "write"
  origin,       \* what the trip began with: "wire" or "value"
  sent          \* what has been written so far

vars == <<valueType, held, wire, readState, builderLeft, next,
          origin, sent>>

Init ==
  /\ valueType \in Types
  /\ readState = FreshReader
  /\ builderLeft = NewBuilder
  /\ sent = <<>>
  /\ \/ /\ origin = "wire" /\ next = "read"
        /\ wire \in Wires(valueType) /\ held = Default(valueType)
     \/ /\ origin = "value" /\ next = "write"
        /\ held \in Values(valueType) /\ wire = Undefined

\* doWalk with a new Reader, into a new value.
Decode ==
  /\ next = "read"
  /\ LET got == Read(valueType, wire, FreshReader)
     IN  held' = got.value /\ readState' = got.reader
  /\ next' = "write"
  /\ UNCHANGED <<valueType, wire, builderLeft, origin, sent>>

\* toJsonValue.
Encode ==
  /\ next = "write"
  /\ Len(sent) < MaxTrips
  /\ LET built == Built(valueType, held)
     IN  wire' = LastValue(built) /\ builderLeft' = PopLastValue(built)
  /\ sent' = Append(sent, wire')
  /\ next' = "read"
  /\ UNCHANGED <<valueType, held, readState, origin>>

Next == Decode \/ Encode

Spec == Init /\ [][Next]_vars

----------------------------------------------------------------------------
(* The reference: what fits a type, and what it means, without a reader    *)
(* that goes from one member to the next or from one alternative to the    *)
(* next.                                                                   *)

RECURSIVE Fits(_, _)
Fits(type, json) ==
  CASE type.kind \in {"bool", "bytes", "int", "double"} -> HasBasic(type, json)
    [] type.kind = "null" -> IsMissing(json)
    [] type.kind = "jsonObject" -> IsMissing(json) \/ Is(json, "object")
    [] type.kind = "jsonArray" -> IsMissing(json) \/ Is(json, "array")
    [] type.kind \in {"json", "enum", "qstring", "pair"} -> TRUE
    [] type.kind \in {"optional", "pointer"} ->
         IsMissing(json) \/ Fits(type.of, json)
    [] type.kind = "variant" -> \E i \in DOMAIN type.of : Fits(type.of[i], json)
    [] type.kind = "list" ->
         \A i \in DOMAIN Elements(json) : Fits(type.of, Elements(json)[i])
    [] type.kind = "object" ->
         /\ json # Undefined
         /\ \A i \in DOMAIN type.fields :
              Fits(type.fields[i].type, Member(json, type.fields[i].name))
         /\ type.extra = "warn" => Names(json) \subseteq FieldNames(type)

RECURSIVE Meaning(_, _)
Meaning(type, json) ==
  CASE type.kind \in {"optional", "pointer"} ->
         IF IsMissing(json) THEN <<>> ELSE <<Meaning(type.of, json)>>
    [] type.kind = "variant" ->
         LET first == Min({i \in DOMAIN type.of : Fits(type.of[i], json)})
         IN  <<first, Meaning(type.of[first], json)>>
    [] type.kind = "list" ->
         [i \in DOMAIN Elements(json) |-> Meaning(type.of, Elements(json)[i])]
    [] type.kind = "object" ->
         [i \in DOMAIN type.fields |->
            Meaning(type.fields[i].type, Member(json, type.fields[i].name))]
    [] OTHER -> Read(type, json, FreshReader).value

\* An object that has to be there is not.
RECURSIVE MissesObject(_, _)
MissesObject(type, json) ==
  CASE type.kind = "object" ->
         \/ json = Undefined
         \/ \E i \in DOMAIN type.fields :
              MissesObject(type.fields[i].type,
                           Member(json, type.fields[i].name))
    [] type.kind \in {"optional", "pointer"} ->
         ~IsMissing(json) /\ MissesObject(type.of, json)
    [] type.kind = "list" ->
         \E i \in DOMAIN Elements(json) :
           MissesObject(type.of, Elements(json)[i])
    [] OTHER -> FALSE

RECURSIVE HasType(_, _)
HasType(type, v) ==
  CASE type.kind = "bool" -> v \in BOOLEAN
    [] type.kind \in {"int", "enum"} -> v \in Int
    [] type.kind = "double" -> IsDouble(v)
    [] type.kind \in {"bytes", "qstring"} -> v \in STRING
    [] type.kind = "null" -> v = "null"
    [] type.kind = "pair" -> Len(v) = 2
    [] type.kind = "json" -> Len(v) > 0
    [] type.kind = "jsonObject" -> Is(v, "object")
    [] type.kind = "jsonArray" -> Is(v, "array")
    [] type.kind \in {"optional", "pointer"} ->
         Len(v) <= 1 /\ \A i \in DOMAIN v : HasType(type.of, v[i])
    [] type.kind = "variant" ->
         v[1] \in DOMAIN type.of /\ HasType(type.of[v[1]], v[2])
    [] type.kind = "list" -> \A i \in DOMAIN v : HasType(type.of, v[i])
    [] type.kind = "object" ->
         /\ DOMAIN v = DOMAIN type.fields
         /\ \A i \in DOMAIN v : HasType(type.fields[i].type, v[i])

----------------------------------------------------------------------------
(* Ambiguity: what a later alternative writes fits an earlier one, an      *)
(* optional value is written as nothing, or the type is one that is not    *)
(* written as it is.                                                       *)

Overlap(earlier, later) ==
  \E v \in Values(later) : Fits(earlier, Write(later, v, FALSE))

WritesNothing(type) == \E v \in Values(type) : IsMissing(Write(type, v, FALSE))

RECURSIVE Unambiguous(_)
Unambiguous(type) ==
  CASE type.kind \in {"optional", "pointer"} ->
         ~WritesNothing(type.of) /\ Unambiguous(type.of)
    [] type.kind = "list" -> Unambiguous(type.of)
    [] type.kind = "variant" ->
         /\ \A i, k \in DOMAIN type.of :
              i < k => ~Overlap(type.of[i], type.of[k])
         /\ \A i \in DOMAIN type.of : Unambiguous(type.of[i])
    [] type.kind = "object" ->
         \A i \in DOMAIN type.fields : Unambiguous(type.fields[i].type)
    [] type.kind \in {"qstring", "pair"} -> FALSE
    [] type.kind = "enum" -> type.otherwise = "number"
    [] OTHER -> TRUE

----------------------------------------------------------------------------
(* Properties. *)

WasRead == next = "write" /\ (origin = "wire" \/ sent # <<>>)

\* Whatever was received, what has been read is a value of the type, also
\* when reading went on after an error and objects have been skipped.
TypeOK == HasType(valueType, held) /\ (readState.messages => readState.failed)

\* A value is read without an error exactly if it fits the type as a whole,
\* and then it is what it means: an alternative that failed leaves nothing
\* behind in the reader, and an error is not lost on the way.
ReadsWhatFits ==
  WasRead =>
    /\ ~readState.failed <=> Fits(valueType, wire)
    /\ Fits(valueType, wire) => held = Meaning(valueType, wire)

\* decodeAndCall and registerRequestHandler look at the messages only, so an
\* error without one is taken for success.  The only such error is an object
\* that is not there.
SilentOnlyIfObjectMissing ==
  WasRead /\ readState.failed /\ ~readState.messages
    => MissesObject(valueType, wire)

\* What is asserted of a value that doWalk can walk holds.
RECURSIVE Walks(_, _)
Walks(type, v) ==
  CASE type.kind \in {"qstring", "pair"} -> FALSE
    [] type.kind \in {"optional", "pointer", "list"} ->
         \A i \in DOMAIN v : Walks(type.of, v[i])
    [] type.kind = "variant" -> Walks(type.of[v[1]], v[2])
    [] type.kind = "object" ->
         \A i \in DOMAIN v : Walks(type.fields[i].type, v[i])
    [] OTHER -> TRUE

\* The builder tells from the heights of its stack what has been written into
\* the field that it ends.  What comes out is the value member by member, and
\* nothing is left on a stack, also when doWalk met a type that it does not
\* know.
BuilderWritesValue ==
  next = "read" /\ sent # <<>> =>
    /\ wire = Write(valueType, held, FALSE)
    /\ builderLeft = [NewBuilder EXCEPT !.asserted = ~Walks(valueType, held)]

\* JSON settles: what is read and written twice is the same from then on, also
\* after errors and when variants confuse their alternatives.  tst_typedjson
\* compares the second with the third generation of its example.
SettlesOnceReadTwice ==
  LET settled == IF origin = "wire" THEN 2 ELSE 3
  IN  \A i \in settled..Len(sent) : sent[i] = sent[settled]

UnambiguousTypes == {t \in Types : Unambiguous(t)}

\* A value of a type that is not ambiguous comes back as it was written.
ComesBack ==
  next = "read" /\ sent # <<>> /\ valueType \in UnambiguousTypes
    => Read(valueType, wire, FreshReader) = Result(FreshReader, held)
=============================================================================
