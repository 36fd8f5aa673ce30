------------------------------ MODULE LspTypes ------------------------------
(***************************************************************************)
(* The types that the messages of the Language Server Protocol share, each *)
(* with the members that its walk function visits, in order: enumerations, *)
(* places in documents, edits, and what parameters and options start with. *)
(* A class that only others of its kind use is a member of a record that   *)
(* stands for the classes that are next to each other in the source.       *)
(***************************************************************************)
EXTENDS TypedJson

Seqs == INSTANCE SequencesExt

\* Consecutive members of the same type.
Each(names, type) == [i \in DOMAIN names |-> F(names[i], type)]

\* A class that first walks its bases.
Extended(bases, fields) ==
  Struct(Seqs!FlattenSeq([i \in DOMAIN bases |-> bases[i].fields]) \o fields)
Joined(bases) == Extended(bases, <<>>)

DynamicRegistration == F("dynamicRegistration", Optional(Boolean))

\* Where the unfolding of a recursive class stops.
NoMore == Struct(<<>>)

----------------------------------------------------------------------------
(* Enumerations.  enumToString writes those of some by name and those of    *)
(* the others as a number.  Names are compared without regard to case, so a *)
(* name stands for all its spellings.                                       *)

Numbered(first, names) ==
  [n \in {names[i] : i \in DOMAIN names} |->
     first - 1 + CHOOSE i \in DOMAIN names : names[i] = n]

Numeric(first, names) == Enum(Numbered(first, names), FALSE)
Named(names) == Enum(Numbered(0, names), TRUE)

\* The specialization for TraceValue knows its enumerators only.
TraceValue ==
  [Named(<<"off", "messages", "verbose">>) EXCEPT !.otherwise = "empty"]

\* CodeActionKind has an enumFromString of its own, which takes no numbers.
CodeActionKind ==
  [Named(<<"", "quickfix", "refactor", "refactor.extract", "refactor.inline",
           "refactor.rewrite", "source", "source.organizeImports">>)
     EXCEPT !.numerals = FALSE]

SessionEnums ==
  [TraceValue |-> TraceValue,
   ErrorCodes |->
     Enum([ParseError |-> -32700, InvalidRequest |-> -32600,
           MethodNotFound |-> -32601, InvalidParams |-> -32602,
           InternalError |-> -32603,
           jsonrpcReservedErrorRangeStart |-> -32099,
           serverErrorStart |-> -32099, ServerNotInitialized |-> -32002,
           UnknownErrorCode |-> -32001, jsonrpcReservedErrorRangeEnd |-> -32000,
           serverErrorEnd |-> -32000, lspReservedErrorRangeStart |-> -32899,
           ContentModified |-> -32801, RequestCancelled |-> -32800,
           lspReservedErrorRangeEnd |-> -32800], FALSE),
   DiagnosticSeverity |->
     Numeric(1, <<"Error", "Warning", "Information", "Hint">>),
   DiagnosticTag |-> Numeric(1, <<"Unnecessary", "Deprecated">>),
   ResourceOperationKind |-> Named(<<"create", "rename", "delete">>),
   FailureHandlingKind |->
     Named(<<"abort", "transactional", "textOnlyTransactional", "undo">>),
   MarkupKind |-> Named(<<"plaintext", "markdown">>),
   InitializeErrorCode |-> Numeric(1, <<"UnknownProtocolVersion">>),
   MessageType |-> Numeric(1, <<"Error", "Warning", "Info", "Log">>),
   WatchKind |->
     Enum([Create |-> 1, Change |-> 2, Delete |-> 4], FALSE),
   FileChangeType |-> Numeric(1, <<"Created", "Changed", "Deleted">>),
   FileOperationPatternKind |-> Named(<<"file", "folder">>),
   TextDocumentSyncKind |-> Numeric(0, <<"None", "Full", "Incremental">>),
   TextDocumentSaveReason |->
     Numeric(1, <<"Manual", "AfterDelay", "FocusOut">>),
   CompletionTriggerKind |->
     Numeric(1, <<"Invoked", "TriggerCharacter",
                  "TriggerForIncompleteCompletions">>)]

FeatureEnums ==
  [InsertTextFormat |-> Numeric(1, <<"PlainText", "Snippet">>),
   CompletionItemTag |-> Numeric(1, <<"Deprecated">>),
   InsertTextMode |-> Numeric(1, <<"AsIs", "AdjustIndentation">>),
   CompletionItemKind |->
     Numeric(1, <<"Text", "Method", "Function", "Constructor", "Field",
                  "Variable", "Class", "Interface", "Module", "Property",
                  "Unit", "Value", "Enum", "Keyword", "Snippet", "Color",
                  "File", "Reference", "Folder", "EnumMember", "Constant",
                  "Struct", "Event", "Operator", "TypeParameter">>),
   SignatureHelpTriggerKind |->
     Numeric(1, <<"Invoked", "TriggerCharacter", "ContentChange">>),
   DocumentHighlightKind |-> Numeric(1, <<"Text", "Read", "Write">>),
   SymbolKind |->
     Numeric(1, <<"File", "Module", "Namespace", "Package", "Class", "Method",
                  "Property", "Field", "Constructor", "Enum", "Interface",
                  "Function", "Variable", "Constant", "String", "Number",
                  "Boolean", "Array", "Object", "Key", "Null", "EnumMember",
                  "Struct", "Event", "Operator", "TypeParameter">>),
   SymbolTag |-> Numeric(1, <<"Deprecated">>),
   CodeActionKind |-> CodeActionKind,
   PrepareSupportDefaultBehavior |-> Numeric(1, <<"Identifier">>),
   FoldingRangeKind |-> Named(<<"comment", "imports", "region">>),
   SemanticTokenTypes |->
     Named(<<"namespace", "type", "class", "enum", "interface", "struct",
             "typeParameter", "parameter", "variable", "property",
             "enumMember", "event", "function", "method", "macro", "keyword",
             "modifier", "comment", "string", "number", "regexp",
             "operator">>),
   SemanticTokenModifiers |->
     Named(<<"declaration", "definition", "readonly", "static", "deprecated",
             "abstract", "async", "modification", "documentation",
             "defaultLibrary">>),
   TokenFormat |-> Named(<<"relative">>),
   UniquenessLevel |->
     Named(<<"document", "project", "group", "scheme", "global">>),
   MonikerKind |-> Named(<<"import", "export", "local">>)]

----------------------------------------------------------------------------
(* The types that are written by hand, not generated from the protocol. *)

ProgressToken == Variant(<<Int32, Bytes>>)
MarkedString ==
  LET StringAndLanguage ==
        Struct(<<F("language", QString), F("value", QString)>>)
  IN  Variant(<<Bytes, StringAndLanguage>>)

----------------------------------------------------------------------------
(* Errors, places and edits. *)

ResponseError ==
  Struct(<<F("code", Int32), F("message", Bytes),
           F("data", Optional(AnyValue))>>)
CancelParams == Struct(<<F("id", Variant(<<Bytes, Int32>>))>>)
RegularExpressionsClientCapabilities ==
  Struct(<<F("engine", Bytes), F("version", Optional(Bytes))>>)
Position == Struct(<<F("line", Int32), F("character", Int32)>>)
Range == Struct(<<F("start", Position), F("end", Position)>>)
TextDocumentContentChangeEvent ==
  Struct(<<F("range", Optional(Range)), F("rangeLength", Optional(Int32)),
           F("text", Bytes)>>)

\* Each range has the next wider one as parent.  The class is recursive; here
\* n + 1 ranges are the most, and the last one has no parent but NoMore.
SelectionRange[n \in Nat] ==
  Struct(<<F("range", Range),
           F("parent", Pointer(IF n = 0 THEN NoMore
                                        ELSE SelectionRange[n - 1]))>>)

RenamePlaces ==
  [RangePlaceHolder |-> Struct(<<F("range", Range), F("placeholder", Bytes)>>),
   DefaultBehaviorStruct |-> Struct(<<F("defaultBehavior", Boolean)>>)]
Location == Struct(<<F("uri", Bytes), F("range", Range)>>)
LocationLink ==
  Struct(<<F("originSelectionRange", Optional(Range)), F("targetUri", Bytes),
           F("targetRange", Range), F("targetSelectionRange", Range)>>)
Diagnostic ==
  LET DiagnosticRelatedInformation ==
        Struct(<<F("location", Location), F("message", Bytes)>>)
      CodeDescription == Struct(<<F("href", Bytes)>>)
  IN  Struct(<<F("range", Range),
               F("severity", Optional(SessionEnums.DiagnosticSeverity)),
               F("code", Optional(Variant(<<Bytes, Int32>>))),
               F("codeDescription", Optional(CodeDescription)),
               F("source", Optional(Bytes)), F("message", Bytes),
               F("tags", Optional(List(SessionEnums.DiagnosticTag))),
               F("relatedInformation",
                 Optional(List(DiagnosticRelatedInformation))),
               F("data", Optional(AnyValue))>>)
Command ==
  Struct(<<F("title", Bytes), F("command", Bytes),
           F("arguments", Optional(List(AnyValue)))>>)
TextEdit == Struct(<<F("range", Range), F("newText", Bytes)>>)
ChangeAnnotation ==
  Struct(<<F("label", Bytes), F("needsConfirmation", Optional(Boolean)),
           F("description", Optional(Bytes))>>)
AnnotatedTextEdit == Extended(<<TextEdit>>, <<F("annotationId", Bytes)>>)
TextDocumentIdentifier == Struct(<<F("uri", Bytes)>>)
TextDocumentEdit ==
  LET OptionalVersionedTextDocumentIdentifier ==
        Extended(<<TextDocumentIdentifier>>,
                 <<F("version", VariantFrom(<<Int32, NullType>>, 2))>>)
  IN  Struct(<<F("textDocument", OptionalVersionedTextDocumentIdentifier),
               F("edits", List(Variant(<<TextEdit, AnnotatedTextEdit>>)))>>)
FileOperations ==
  LET CreateFileOptions ==
        Struct(<<F("overwrite", Optional(Boolean)),
                 F("ignoreIfExists", Optional(Boolean))>>)
      RenameFileOptions ==
        Struct(<<F("overwrite", Optional(Boolean)),
                 F("ignoreIfExists", Optional(Boolean))>>)
      DeleteFileOptions ==
        Struct(<<F("recursive", Optional(Boolean)),
                 F("ignoreIfNotExists", Optional(Boolean))>>)
  IN  [CreateFileOptions |-> CreateFileOptions,
       CreateFile |->
         Struct(<<F("kind", Bytes), F("uri", Bytes),
                  F("options", Optional(CreateFileOptions)),
                  F("annotationId", Optional(Bytes))>>),
       RenameFileOptions |-> RenameFileOptions,
       RenameFile |->
         Struct(Each(<<"kind", "oldUri", "newUri">>, Bytes)
                \o <<F("options", Optional(RenameFileOptions)),
                     F("annotationId", Optional(Bytes))>>),
       DeleteFileOptions |-> DeleteFileOptions,
       DeleteFile |->
         Struct(<<F("kind", Bytes), F("uri", Bytes),
                  F("options", Optional(DeleteFileOptions)),
                  F("annotationId", Optional(Bytes))>>)]
DocumentChange ==
  Variant(<<TextDocumentEdit, FileOperations.CreateFile,
            FileOperations.RenameFile, FileOperations.DeleteFile>>)
WorkspaceEdit ==
  Struct(<<F("changes", Optional(AnyObject)),
           F("documentChanges", Optional(List(DocumentChange))),
           F("changeAnnotations", Optional(AnyObject))>>)

----------------------------------------------------------------------------
(* What many messages have. *)

Documents ==
  [WorkspaceEditClientCapabilities |->
     Struct(<<F("documentChanges", Optional(Boolean)),
              F("resourceOperations",
                Optional(List(SessionEnums.ResourceOperationKind))),
              F("failureHandling", Optional(SessionEnums.FailureHandlingKind)),
              F("normalizesLineEndings", Optional(Boolean)),
              F("changeAnnotationSupport", Optional(AnyObject))>>),
   TextDocumentItem |->
     Struct(<<F("uri", Bytes), F("languageId", Bytes), F("version", Int32),
              F("text", Bytes)>>),
   VersionedTextDocumentIdentifier |->
     Extended(<<TextDocumentIdentifier>>, <<F("version", Int32)>>)]
TextDocumentPositionParams ==
  Struct(<<F("textDocument", TextDocumentIdentifier),
           F("position", Position)>>)
DocumentFilter ==
  Struct(Each(<<"language", "scheme", "pattern">>, Optional(Bytes)))
DocumentSelector == List(DocumentFilter)
StaticRegistrationOptions == Struct(<<F("id", Optional(Bytes))>>)
TextDocumentRegistrationOptions ==
  Struct(<<F("documentSelector",
             VariantFrom(<<DocumentSelector, NullType>>, 2))>>)
MarkupContent ==
  Struct(<<F("kind", SessionEnums.MarkupKind), F("value", Bytes)>>)
Progress ==
  [MarkdownClientCapabilities |->
     Struct(<<F("parser", Bytes), F("version", Optional(Bytes))>>),
   WorkDoneProgressBegin |->
     Struct(<<F("kind", Bytes), F("title", Bytes),
              F("cancellable", Optional(Boolean)),
              F("message", Optional(Bytes)),
              F("percentage", Optional(Int32))>>),
   WorkDoneProgressReport |->
     Struct(<<F("kind", Bytes), F("cancellable", Optional(Boolean)),
              F("message", Optional(Bytes)),
              F("percentage", Optional(Int32))>>),
   WorkDoneProgressEnd |->
     Struct(<<F("kind", Bytes), F("message", Optional(Bytes))>>)]
WorkDoneProgressParams ==
  Struct(<<F("workDoneToken", Optional(ProgressToken))>>)
WorkDoneProgressOptions == Struct(<<F("workDoneProgress", Optional(Boolean))>>)
PartialResultParams ==
  Struct(<<F("partialResultToken", Optional(ProgressToken))>>)
=============================================================================
