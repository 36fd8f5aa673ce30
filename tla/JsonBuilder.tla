---------------------------- MODULE JsonBuilder ----------------------------
(***************************************************************************)
(* JsonBuilder, the visitor that writes a value as JSON.  It keeps a stack *)
(* of the JSON values that are not complete or not yet part of another     *)
(* one, and the heights that this stack had where the fields and the       *)
(* arrays that are open began.  Whether a value was written into a field   *)
(* is only to be seen from the height of the stack.                        *)
(*                                                                         *)
(* asserted says that an assertion has failed; without assertions the code *)
(* goes on as here.                                                        *)
(***************************************************************************)
EXTENDS TypedJson

LOCAL INSTANCE SequencesExt

NewBuilder ==
  [values |-> <<>>, fieldLevel |-> <<>>, arrayLevel |-> <<>>,
   asserted |-> FALSE]

Height(builder) == Len(builder.values)
Asserting(holds, builder) == [builder EXCEPT !.asserted = @ \/ ~holds]

Push(json, builder) == [builder EXCEPT !.values = Append(@, json)]

LastValue(builder) ==
  IF builder.values = <<>> THEN Undefined ELSE Last(builder.values)
PopLastValue(builder) ==
  [builder EXCEPT !.values = IF @ = <<>> THEN @ ELSE Front(@)]

\* QJsonObject does not take an undefined value, QJsonArray makes it a null.
Inserted(object, name, json) ==
  IF json = Undefined THEN object
  ELSE Object([n \in DOMAIN object[2] \cup {name} |->
                 IF n = name THEN json ELSE object[2][n]])
Appended(array, json) ==
  Array(Append(array[2], IF json = Undefined THEN Null ELSE json))

\* The value below the last one, when it can take the last one.
CanTake(kind, builder) ==
  Height(builder) > 1 /\ Is(builder.values[Height(builder) - 1], kind)
TakeLast(Take(_, _), builder) ==
  LET below == Height(builder) - 1
  IN  [PopLastValue(builder) EXCEPT
         !.values[below] = Take(@, LastValue(builder))]

----------------------------------------------------------------------------
(* The callbacks of doWalk. *)

\* Mutant: a missing value is a null also in a field.
MutantHandleMissingOptional(builder) == Push(Null, builder)
HandleMissingOptional(builder) ==
  IF builder.fieldLevel = <<>> \/ Last(builder.fieldLevel) # Height(builder)
  THEN Push(Null, builder) ELSE builder

StartField(builder) ==
  [builder EXCEPT !.fieldLevel = Append(@, Height(builder))]

EndField(name, builder) ==
  LET insert(object, json) == Inserted(object, name, json)
      taken == CASE Last(builder.fieldLevel) >= Height(builder) -> builder
                 [] CanTake("object", builder) -> TakeLast(insert, builder)
                 [] OTHER -> Asserting(FALSE, builder)
  IN  [Asserting(Last(taken.fieldLevel) = Height(taken), taken) EXCEPT
         !.fieldLevel = Front(@)]

StartArray(builder) ==
  [Push(Array(<<>>), builder) EXCEPT
     !.arrayLevel = Append(@, Height(builder) + 1)]

EndElement(builder) ==
  IF CanTake("array", builder) THEN TakeLast(Appended, builder)
                               ELSE Asserting(FALSE, builder)

EndArray(builder) ==
  [Asserting(Last(builder.arrayLevel) = Height(builder), builder) EXCEPT
     !.arrayLevel = Front(@)]

----------------------------------------------------------------------------
(* doWalk. *)

\* Of a QString, each character is a value that doWalk does not know; here a
\* string has one at most.
BuildQString(value, builder) ==
  LET started == StartArray(Asserting(FALSE, builder))
  IN  EndArray(IF value = "" THEN started ELSE EndElement(started))

RECURSIVE Build(_, _, _)

BuildList(type, value, builder) ==
  EndArray(Visited(LAMBDA b, element : EndElement(Build(type.of, element, b)),
                   StartArray(builder), value))

BuildObject(type, value, builder) ==
  LET Visit(b, i) ==
        EndField(type.fields[i].name,
                 Build(type.fields[i].type, value[i], StartField(b)))
  IN  Visited(Visit, Push(Object(<<>>), builder),
              [i \in DOMAIN type.fields |-> i])

Build(type, value, builder) ==
  CASE type.kind \in {"bool", "int", "double", "bytes", "null", "json",
                      "jsonObject", "jsonArray", "enum"} ->
         Push(WriteSimple(type, value), builder)
    [] type.kind = "qstring" -> BuildQString(value, builder)
    [] type.kind = "pair" -> Asserting(FALSE, builder)
    [] type.kind = "optional" /\ value = <<>> -> HandleMissingOptional(builder)
    [] type.kind = "pointer" /\ value = <<>> -> builder
    [] type.kind \in {"optional", "pointer"} /\ value # <<>> ->
         Build(type.of, value[1], builder)
    [] type.kind = "variant" -> Build(type.of[value[1]], value[2], builder)
    [] type.kind = "list" -> BuildList(type, value, builder)
    [] type.kind = "object" -> BuildObject(type, value, builder)

\* toJsonValue.
Built(type, value) == Build(type, value, NewBuilder)
=============================================================================
