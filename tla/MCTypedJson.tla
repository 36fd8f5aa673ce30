---------------------------- MODULE MCTypedJson ----------------------------
(***************************************************************************)
(* The types, values and JSON with which TLC checks TypedJsonTrips.        *)
(***************************************************************************)
EXTENDS LspMessages, TypedJsonTrips

Sets == INSTANCE FiniteSetsExt
Funs == INSTANCE Functions

\* For a sequence of choices, the sequences that take any choice at one place
\* and the given one everywhere else.
OneAtATime(usual, choices(_)) ==
  UNION {{[usual EXCEPT ![i] = c] : c \in choices(i)} : i \in DOMAIN usual}

Atoms ==
  {Null, Bool(TRUE), Number(1), Fraction, String("s"), String("1"),
   String("markdown"), Array(<<>>), Array(<<Number(1)>>), Object(<<>>)}
FewAtoms == {Null, Number(1), String("s"), Object(<<>>)}

\* Where the unfolding of a recursive class stops.
RECURSIVE IsEnd(_)
IsEnd(type) ==
  /\ type.kind \in {"optional", "pointer", "list"}
  /\ \/ type.of.kind = "object" /\ type.of.fields = <<>>
     \/ IsEnd(type.of)

RECURSIVE Usual(_)
Usual(type) ==
  CASE type.kind = "json" -> Number(1)
    [] type.kind \in {"optional", "pointer", "list"} ->
         IF IsEnd(type) THEN <<>> ELSE <<Usual(type.of)>>
    [] type.kind = "variant" -> <<1, Usual(type.of[1])>>
    [] type.kind = "object" ->
         [i \in DOMAIN type.fields |-> Usual(type.fields[i].type)]
    [] OTHER -> Default(type)

\* Of the enumerators: the first, the last and a number without a name.
EnumValues(type) ==
  LET numbers == {type.keys[n] : n \in DOMAIN type.keys}
  IN  {Sets!Min(numbers), Sets!Max(numbers), 99}

\* Every alternative and every option, one at a time, of objects that are
\* nested in at most depth others.
RECURSIVE ValuesWithin(_, _)
ValuesWithin(depth, type) ==
  CASE type.kind = "bool" -> BOOLEAN
    [] type.kind = "int" -> {0, 1}
    [] type.kind = "double" -> {Number(0), Fraction}
    [] type.kind \in {"bytes", "qstring"} -> {"", "s"}
    [] type.kind = "null" -> {"null"}
    [] type.kind = "pair" -> {<<0, 0>>, <<0, 1>>}
    [] type.kind = "json" -> {Number(1), Object(<<>>)}
    [] type.kind = "jsonObject" ->
         {Object(<<>>), Object([n \in {"x"} |-> Null])}
    [] type.kind = "jsonArray" -> {Array(<<>>), Array(<<Null>>)}
    [] type.kind = "enum" -> EnumValues(type)
    [] type.kind \in {"optional", "pointer"} ->
         IF IsEnd(type) THEN {<<>>}
         ELSE {<<>>} \cup {<<v>> : v \in ValuesWithin(depth, type.of)}
    [] type.kind = "list" ->
         IF IsEnd(type) THEN {<<>>}
         ELSE {<<>>} \cup {<<v, Usual(type.of)>> :
                             v \in ValuesWithin(depth, type.of)}
    [] type.kind = "variant" ->
         UNION {{<<i, v>> : v \in ValuesWithin(depth, type.of[i])} :
                  i \in DOMAIN type.of}
    [] type.kind = "object" ->
         {Default(type), Usual(type)} \cup
           IF depth = 0 THEN {}
           ELSE OneAtATime(Usual(type),
                           LAMBDA i : ValuesWithin(depth - 1,
                                                   type.fields[i].type))

\* Every JSON value that fits, and others: one wrong thing at a time.
RECURSIVE WiresWithin(_, _, _)
WiresWithin(depth, atoms, type) ==
  IF IsEnd(type) THEN {Null} ELSE
  atoms \cup
  CASE type.kind \in {"optional", "pointer"} -> WiresWithin(depth, atoms, type.of)
    [] type.kind = "list" ->
         LET usual == Write(type.of, Usual(type.of), FALSE)
         IN  {Array(<<w, usual>>) : w \in WiresWithin(depth, atoms, type.of)}
    [] type.kind = "variant" ->
         UNION {WiresWithin(depth, atoms, type.of[i]) : i \in DOMAIN type.of}
    [] type.kind = "object" /\ depth > 0 ->
         LET usual == Write(type, Usual(type), FALSE)[2]
             With(n, w) == Object([m \in DOMAIN usual \cup {n} |->
                                     IF m = n THEN w ELSE usual[m]])
             Without(n) == Object([m \in DOMAIN usual \ {n} |-> usual[m]])
         IN  UNION {{With(type.fields[i].name, w) :
                       w \in WiresWithin(depth - 1, atoms, type.fields[i].type)} :
                      i \in DOMAIN type.fields}
               \cup {Without(n) : n \in DOMAIN usual}
               \cup {With("x", Null)}
    [] OTHER -> {}

\* A type with each thing that no type of the protocol above has.
Sample ==
  StrictStruct(<<F("double", Optional(Double)),
                 F("array", AnyArray),
                 F("choice", Variant(<<StrictStruct(<<F("a", Position)>>),
                                       Struct(<<F("a", Position),
                                                F("b", Position)>>)>>)),
                 F("last", Position)>>)

\* Classes that are members of large classes only.
Parts ==
  {ReadingCapabilities, EditingCapabilities, StructureCapabilities,
   WorkspaceOptions, ReadingOptions, EditingOptions, StructureOptions,
   LinkedOptions}

\* The unfolding of the recursive classes.
Depth == 1

Entries(table) == Funs!Range(table)

AllTypes ==
  {Sample} \cup Entries(RequestParams) \cup Entries(NotificationParams)
    \cup Entries(Results) \cup Entries(SessionEnums) \cup Entries(FeatureEnums)
    \cup UNION {{list.result, list.partial} :
                  list \in Entries(ListResults(Depth))}
    \cup UNION {Entries(part) : part \in Parts}

\* TLC evaluates a definition that replaces a constant each time, and others
\* without parameters once.
MCTypes == AllTypes

Sum(numbers) == Seqs!FoldLeft(LAMBDA a, b : a + b, 0, numbers)

RECURSIVE Leaves(_)
Leaves(type) ==
  CASE type.kind \in {"optional", "pointer", "list"} -> 1 + Leaves(type.of)
    [] type.kind = "variant" ->
         Sum([i \in DOMAIN type.of |-> Leaves(type.of[i])])
    [] type.kind = "object" ->
         Sum([i \in DOMAIN type.fields |-> Leaves(type.fields[i].type)])
    [] OTHER -> 1

\* Small types are taken apart completely.
IsSmall(type) == Leaves(type) <= 20

MCValues(type) == ValuesWithin(IF IsSmall(type) THEN 9 ELSE 2, type)
MCWires(type) ==
  IF IsSmall(type) THEN WiresWithin(9, Atoms, type)
                   ELSE WiresWithin(2, FewAtoms, type)

\* No class visits two members of the same name, its own or a base's.
RECURSIVE NamesDiffer(_)
NamesDiffer(type) ==
  CASE type.kind \in {"optional", "pointer", "list"} -> NamesDiffer(type.of)
    [] type.kind = "variant" -> \A i \in DOMAIN type.of : NamesDiffer(type.of[i])
    [] type.kind = "object" ->
         \A i, k \in DOMAIN type.fields :
           /\ i # k => type.fields[i].name # type.fields[k].name
           /\ NamesDiffer(type.fields[i].type)
    [] OTHER -> TRUE

ASSUME NamesAssumption == \A type \in AllTypes : NamesDiffer(type)

\* Two results, each alone.
MCCompletionTypes == {ListResults(Depth).Completion.result}
MCHoverTypes == {Results.Hover}

Arrived == Read(valueType, wire, FreshReader).value

CompletionItems(result) ==
  CASE result[1] = 1 -> result[2]
    [] result[1] = 2 -> result[2][2]
    [] result[1] = 3 -> <<>>

\* The completion items that a server answers with are the ones that the client
\* reads, be they a CompletionItem[] or in a CompletionList.
CompletionsArrive ==
  next = "read" /\ sent # <<>> /\ valueType \in MCCompletionTypes
    => CompletionItems(Arrived) = CompletionItems(held)

\* The texts of a hover that are in pairs of a language and a value: that is
\* where the alternatives 2 and 3 of contents differ from MarkupContent.
MarkedTexts(marked) == IF marked[1] = 1 THEN {} ELSE {marked[2][2]}
HoverTexts(result) ==
  IF result[1] = 2 THEN {} ELSE
  LET contents == result[2][1]
  IN  CASE contents[1] = 1 -> {contents[2][2]}
    [] contents[1] = 2 -> MarkedTexts(contents[2])
    [] contents[1] = 3 ->
         UNION {MarkedTexts(contents[2][i]) : i \in DOMAIN contents[2]}

\* The code of a hover that a server answers with, a language and a value, is
\* the code that the client reads.
HoverCodeArrives ==
  next = "read" /\ sent # <<>> /\ valueType \in MCHoverTypes
    => \A text \in HoverTexts(held) : text \in HoverTexts(Arrived)
=============================================================================
