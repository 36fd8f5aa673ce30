---------------------------- MODULE LspMessages ----------------------------
(***************************************************************************)
(* The parameters and results of the messages, and which message has which *)
(* of them.                                                                *)
(***************************************************************************)
EXTENDS LspCapabilities

----------------------------------------------------------------------------
(* The session, the window and the workspace. *)

Session ==
  [InitializeResult |->
     Struct(<<F("capabilities", ServerCapabilities),
              F("serverInfo", Optional(AnyObject))>>),
   InitializeError |-> Struct(<<F("retry", Boolean)>>),
   InitializedParams |-> Struct(<<>>),
   LogTraceParams |->
     Struct(<<F("message", Bytes), F("verbose", Optional(Bytes))>>),
   SetTraceParams |-> Struct(<<F("value", SessionEnums.TraceValue)>>)]
Window ==
  LET MessageActionItem == Struct(<<F("title", Bytes)>>)
  IN  [ShowMessageParams |->
         Struct(<<F("type", SessionEnums.MessageType), F("message", Bytes)>>),
       MessageActionItem |-> MessageActionItem,
       ShowMessageRequestParams |->
         Struct(<<F("type", SessionEnums.MessageType), F("message", Bytes),
                  F("actions", Optional(List(MessageActionItem)))>>),
       ShowDocumentParams |->
         Struct(<<F("uri", Bytes), F("external", Optional(Boolean)),
                  F("takeFocus", Optional(Boolean)),
                  F("selection", Optional(Range))>>),
       ShowDocumentResult |-> Struct(<<F("success", Boolean)>>),
       LogMessageParams |->
         Struct(<<F("type", SessionEnums.MessageType), F("message", Bytes)>>),
       WorkDoneProgressCreateParams |-> Struct(<<F("token", ProgressToken)>>),
       WorkDoneProgressCancelParams |-> Struct(<<F("token", ProgressToken)>>)]
Configuration ==
  LET Registration ==
        Struct(<<F("id", Bytes), F("method", Bytes),
                 F("registerOptions", Optional(AnyValue))>>)
      Unregistration == Struct(<<F("id", Bytes), F("method", Bytes)>>)
      WorkspaceFoldersChangeEvent ==
        Struct(<<F("added", List(WorkspaceFolder)),
                 F("removed", List(WorkspaceFolder))>>)
      ConfigurationItem ==
        Struct(<<F("scopeUri", Optional(Bytes)),
                 F("section", Optional(Bytes))>>)
  IN  [Registration |-> Registration,
       RegistrationParams |->
         Struct(<<F("registrations", List(Registration))>>),
       Unregistration |-> Unregistration,
       UnregistrationParams |->
         Struct(<<F("unregisterations", List(Unregistration))>>),
       WorkspaceFoldersChangeEvent |-> WorkspaceFoldersChangeEvent,
       DidChangeWorkspaceFoldersParams |->
         Struct(<<F("event", WorkspaceFoldersChangeEvent)>>),
       DidChangeConfigurationParams |-> Struct(<<F("settings", AnyValue)>>),
       ConfigurationItem |-> ConfigurationItem,
       ConfigurationParams |-> Struct(<<F("items", List(ConfigurationItem))>>)]
Workspace ==
  LET FileSystemWatcher ==
        Struct(<<F("globPattern", Bytes), F("kind", Optional(Int32))>>)
      FileEvent == Struct(<<F("uri", Bytes), F("type", Int32)>>)
  IN  [DidChangeWatchedFilesClientCapabilities |->
         Struct(<<DynamicRegistration>>),
       FileSystemWatcher |-> FileSystemWatcher,
       DidChangeWatchedFilesRegistrationOptions |->
         Struct(<<F("watchers", List(FileSystemWatcher))>>),
       FileEvent |-> FileEvent,
       DidChangeWatchedFilesParams |->
         Struct(<<F("changes", List(FileEvent))>>),
       WorkspaceSymbolClientCapabilities |->
         Struct(<<DynamicRegistration, F("symbolKind", Optional(AnyObject)),
                  F("tagSupport", Optional(AnyObject))>>),
       WorkspaceSymbolRegistrationOptions |-> WorkspaceOptions.WorkspaceSymbol,
       WorkspaceSymbolParams |->
         Extended(<<WorkDoneProgressParams, PartialResultParams>>,
                  <<F("query", Bytes)>>),
       ExecuteCommandClientCapabilities |-> Struct(<<DynamicRegistration>>),
       ExecuteCommandRegistrationOptions |-> WorkspaceOptions.ExecuteCommand,
       ExecuteCommandParams |->
         Extended(<<WorkDoneProgressParams>>,
                  <<F("command", Bytes),
                    F("arguments", Optional(List(AnyValue)))>>)]
Files ==
  LET FileCreate == Struct(<<F("uri", Bytes)>>)
      FileRename == Struct(<<F("oldUri", Bytes), F("newUri", Bytes)>>)
      FileDelete == Struct(<<F("uri", Bytes)>>)
  IN  [ApplyWorkspaceEditParams |->
         Struct(<<F("label", Optional(Bytes)), F("edit", WorkspaceEdit)>>),
       ApplyWorkspaceEditResponse |->
         Struct(<<F("applied", Boolean), F("failureReason", Optional(Bytes)),
                  F("failedChange", Optional(Int32))>>),
       FileCreate |-> FileCreate,
       CreateFilesParams |-> Struct(<<F("files", List(FileCreate))>>),
       FileRename |-> FileRename,
       RenameFilesParams |-> Struct(<<F("files", List(FileRename))>>),
       FileDelete |-> FileDelete,
       DeleteFilesParams |-> Struct(<<F("files", List(FileDelete))>>)]
Synchronization ==
  [DidOpenTextDocumentParams |->
     Struct(<<F("textDocument", Documents.TextDocumentItem)>>),
   TextDocumentChangeRegistrationOptions |->
     Extended(<<TextDocumentRegistrationOptions>>,
              <<F("syncKind", SessionEnums.TextDocumentSyncKind)>>),
   DidChangeTextDocumentParams |->
     Struct(<<F("textDocument", Documents.VersionedTextDocumentIdentifier),
              F("contentChanges", List(TextDocumentContentChangeEvent))>>),
   WillSaveTextDocumentParams |->
     Struct(<<F("textDocument", TextDocumentIdentifier),
              F("reason", SessionEnums.TextDocumentSaveReason)>>),
   SaveOptions |-> Struct(<<F("includeText", Optional(Boolean))>>),
   TextDocumentSaveRegistrationOptions |->
     Extended(<<TextDocumentRegistrationOptions>>,
              <<F("includeText", Optional(Boolean))>>),
   DidSaveTextDocumentParams |->
     Struct(<<F("textDocument", TextDocumentIdentifier),
              F("text", Optional(Bytes))>>),
   DidCloseTextDocumentParams |->
     Struct(<<F("textDocument", TextDocumentIdentifier)>>),
   PublishDiagnosticsParams |->
     Struct(<<F("uri", Bytes), F("version", Optional(Int32)),
              F("diagnostics", List(Diagnostic))>>)]

----------------------------------------------------------------------------
(* The features of the language. *)

Completion ==
  LET CompletionContext ==
        Struct(<<F("triggerKind", SessionEnums.CompletionTriggerKind),
                 F("triggerCharacter", Optional(Bytes))>>)
      InsertReplaceEdit ==
        Struct(<<F("newText", Bytes), F("insert", Range),
                 F("replace", Range)>>)
      CompletionItem ==
        Struct(<<F("label", Bytes), F("kind", Optional(AnyValue)),
                 F("tags", Optional(List(Int32))),
                 F("detail", Optional(Bytes)),
                 F("documentation",
                   Optional(Variant(<<Bytes, MarkupContent>>))),
                 F("deprecated", Optional(Boolean)),
                 F("preselect", Optional(Boolean))>>
               \o Each(<<"sortText", "filterText",
                         "insertText">>, Optional(Bytes))
               \o <<F("insertTextFormat",
                      Optional(FeatureEnums.InsertTextFormat)),
                    F("insertTextMode", Optional(FeatureEnums.InsertTextMode)),
                    F("textEdit",
                      Optional(Variant(<<TextEdit, InsertReplaceEdit>>))),
                    F("additionalTextEdits", Optional(List(TextEdit))),
                    F("commitCharacters", Optional(List(Bytes))),
                    F("command", Optional(Command)),
                    F("data", Optional(AnyValue))>>)
  IN  [CompletionRegistrationOptions |->
         Joined(<<TextDocumentRegistrationOptions,
                  ReadingOptions.Completion>>),
       CompletionContext |-> CompletionContext,
       CompletionParams |->
         Extended(<<TextDocumentPositionParams, WorkDoneProgressParams,
                    PartialResultParams>>,
                  <<F("context", Optional(CompletionContext))>>),
       InsertReplaceEdit |-> InsertReplaceEdit,
       CompletionItem |-> CompletionItem,
       CompletionList |->
         Struct(<<F("isIncomplete", Boolean),
                  F("items", List(CompletionItem))>>)]
Help ==
  LET ParameterInformation ==
        Struct(<<F("label", Variant(<<Bytes, Pair>>)),
                 F("documentation",
                   Optional(Variant(<<Bytes, MarkupContent>>)))>>)
      SignatureInformation ==
        Struct(<<F("label", Bytes),
                 F("documentation",
                   Optional(Variant(<<Bytes, MarkupContent>>))),
                 F("parameters", Optional(List(ParameterInformation))),
                 F("activeParameter", Optional(Int32))>>)
      SignatureHelp ==
        Struct(<<F("signatures", List(SignatureInformation)),
                 F("activeSignature", Optional(Int32)),
                 F("activeParameter", Optional(Int32))>>)
      SignatureHelpContext ==
        Struct(<<F("triggerKind", FeatureEnums.SignatureHelpTriggerKind),
                 F("triggerCharacter", Optional(Bytes)),
                 F("isRetrigger", Boolean),
                 F("activeSignatureHelp", Optional(SignatureHelp))>>)
  IN  [HoverRegistrationOptions |->
         Joined(<<TextDocumentRegistrationOptions, ReadingOptions.Hover>>),
       HoverParams |->
         Joined(<<TextDocumentPositionParams, WorkDoneProgressParams>>),
       Hover |->
         Struct(<<F("contents",
                    Variant(<<MarkupContent, MarkedString,
                              List(MarkedString)>>)),
                  F("range", Optional(Range))>>),
       SignatureHelpRegistrationOptions |->
         Joined(<<TextDocumentRegistrationOptions,
                  ReadingOptions.SignatureHelp>>),
       ParameterInformation |-> ParameterInformation,
       SignatureInformation |-> SignatureInformation,
       SignatureHelp |-> SignatureHelp,
       SignatureHelpContext |-> SignatureHelpContext,
       SignatureHelpParams |->
         Extended(<<TextDocumentPositionParams, WorkDoneProgressParams>>,
                  <<F("context", Optional(SignatureHelpContext))>>)]
Navigation ==
  LET ReferenceContext == Struct(<<F("includeDeclaration", Boolean)>>)
  IN  [DeclarationParams |->
         Joined(<<TextDocumentPositionParams, WorkDoneProgressParams,
                  PartialResultParams>>),
       DefinitionRegistrationOptions |->
         Joined(<<TextDocumentRegistrationOptions,
                  ReadingOptions.Definition>>),
       DefinitionParams |->
         Joined(<<TextDocumentPositionParams, WorkDoneProgressParams,
                  PartialResultParams>>),
       TypeDefinitionParams |->
         Joined(<<TextDocumentPositionParams, WorkDoneProgressParams,
                  PartialResultParams>>),
       ImplementationParams |->
         Joined(<<TextDocumentPositionParams, WorkDoneProgressParams,
                  PartialResultParams>>),
       ReferenceRegistrationOptions |->
         Joined(<<TextDocumentRegistrationOptions, ReadingOptions.Reference>>),
       ReferenceContext |-> ReferenceContext,
       ReferenceParams |->
         Extended(<<TextDocumentPositionParams, WorkDoneProgressParams,
                    PartialResultParams>>,
                  <<F("context", ReferenceContext)>>),
       DocumentHighlightRegistrationOptions |->
         Joined(<<TextDocumentRegistrationOptions,
                  ReadingOptions.DocumentHighlight>>),
       DocumentHighlightParams |->
         Joined(<<TextDocumentPositionParams, WorkDoneProgressParams,
                  PartialResultParams>>),
       DocumentHighlight |->
         Struct(<<F("range", Range),
                  F("kind", Optional(FeatureEnums.DocumentHighlightKind))>>)]
Symbols ==
  [DocumentSymbolRegistrationOptions |->
     Joined(<<TextDocumentRegistrationOptions,
              EditingOptions.DocumentSymbol>>),
   DocumentSymbolParams |->
     Extended(<<WorkDoneProgressParams, PartialResultParams>>,
              <<F("textDocument", TextDocumentIdentifier)>>)]

\* The class is recursive: here a symbol has children n times at most.
DocumentSymbol[n \in Nat] ==
  Struct(<<F("name", Bytes), F("detail", Optional(Bytes)),
           F("kind", FeatureEnums.SymbolKind),
           F("tags", Optional(List(Int32))),
           F("deprecated", Optional(Boolean)), F("range", Range),
           F("selectionRange", Range),
           F("children",
             Optional(List(IF n = 0 THEN NoMore
                                    ELSE DocumentSymbol[n - 1])))>>)

SymbolInformation ==
  Struct(<<F("name", Bytes), F("kind", FeatureEnums.SymbolKind),
           F("tags", Optional(List(Int32))),
           F("deprecated", Optional(Boolean)), F("location", Location),
           F("containerName", Optional(Bytes))>>)
CodeActions ==
  LET CodeActionContext ==
        Struct(<<F("diagnostics", List(Diagnostic)),
                 F("only", Optional(List(Bytes)))>>)
  IN  [CodeActionRegistrationOptions |->
         Joined(<<TextDocumentRegistrationOptions,
                  EditingOptions.CodeAction>>),
       CodeActionContext |-> CodeActionContext,
       CodeActionParams |->
         Extended(<<WorkDoneProgressParams, PartialResultParams>>,
                  <<F("textDocument", TextDocumentIdentifier),
                    F("range", Range), F("context", CodeActionContext)>>),
       CodeAction |->
         Struct(<<F("title", Bytes), F("kind", Optional(Bytes)),
                  F("diagnostics", Optional(List(Diagnostic))),
                  F("isPreferred", Optional(Boolean)),
                  F("disabled", Optional(AnyObject)),
                  F("edit", Optional(WorkspaceEdit)),
                  F("command", Optional(Command)),
                  F("data", Optional(AnyValue))>>)]
Links ==
  [CodeLensRegistrationOptions |->
     Joined(<<TextDocumentRegistrationOptions, EditingOptions.CodeLens>>),
   CodeLensParams |->
     Extended(<<WorkDoneProgressParams, PartialResultParams>>,
              <<F("textDocument", TextDocumentIdentifier)>>),
   CodeLens |->
     Struct(<<F("range", Range), F("command", Optional(Command)),
              F("data", Optional(AnyValue))>>),
   CodeLensWorkspaceClientCapabilities |->
     Struct(<<F("refreshSupport", Optional(Boolean))>>),
   DocumentLinkRegistrationOptions |->
     Joined(<<TextDocumentRegistrationOptions, EditingOptions.DocumentLink>>),
   DocumentLinkParams |->
     Extended(<<WorkDoneProgressParams, PartialResultParams>>,
              <<F("textDocument", TextDocumentIdentifier)>>),
   DocumentLink |->
     Struct(<<F("range", Range), F("target", Optional(Bytes)),
              F("tooltip", Optional(Bytes)), F("data", Optional(AnyValue))>>)]
Colors ==
  LET Color == Struct(Each(<<"red", "green", "blue", "alpha">>, Int32))
  IN  [DocumentColorParams |->
         Extended(<<WorkDoneProgressParams, PartialResultParams>>,
                  <<F("textDocument", TextDocumentIdentifier)>>),
       Color |-> Color,
       ColorInformation |-> Struct(<<F("range", Range), F("color", Color)>>),
       ColorPresentationParams |->
         Extended(<<WorkDoneProgressParams, PartialResultParams>>,
                  <<F("textDocument", TextDocumentIdentifier),
                    F("color", Color), F("range", Range)>>),
       ColorPresentation |->
         Struct(<<F("label", Bytes), F("textEdit", Optional(TextEdit)),
                  F("additionalTextEdits", Optional(List(TextEdit)))>>)]
Formatting ==
  LET FormattingOptions ==
        Struct(<<F("tabSize", Int32), F("insertSpaces", Boolean)>>
               \o Each(<<"trimTrailingWhitespace", "insertFinalNewline",
                         "trimFinalNewlines">>, Optional(Boolean)))
  IN  [DocumentFormattingRegistrationOptions |->
         Joined(<<TextDocumentRegistrationOptions,
                  EditingOptions.DocumentFormatting>>),
       FormattingOptions |-> FormattingOptions,
       DocumentFormattingParams |->
         Extended(<<WorkDoneProgressParams>>,
                  <<F("textDocument", TextDocumentIdentifier),
                    F("options", FormattingOptions)>>),
       DocumentRangeFormattingRegistrationOptions |->
         Joined(<<TextDocumentRegistrationOptions,
                  EditingOptions.DocumentRangeFormatting>>),
       DocumentRangeFormattingParams |->
         Extended(<<WorkDoneProgressParams>>,
                  <<F("textDocument", TextDocumentIdentifier),
                    F("range", Range), F("options", FormattingOptions)>>),
       DocumentOnTypeFormattingRegistrationOptions |->
         Joined(<<TextDocumentRegistrationOptions,
                  EditingOptions.DocumentOnTypeFormatting>>),
       DocumentOnTypeFormattingParams |->
         Extended(<<TextDocumentPositionParams>>,
                  <<F("ch", Bytes), F("options", FormattingOptions)>>)]
Ranges ==
  [RenameRegistrationOptions |->
     Joined(<<TextDocumentRegistrationOptions, EditingOptions.Rename>>),
   RenameParams |->
     Extended(<<TextDocumentPositionParams, WorkDoneProgressParams>>,
              <<F("newName", Bytes)>>),
   PrepareRenameParams |-> TextDocumentPositionParams,
   FoldingRangeParams |->
     Extended(<<WorkDoneProgressParams, PartialResultParams>>,
              <<F("textDocument", TextDocumentIdentifier)>>),
   FoldingRange |->
     Struct(<<F("startLine", Int32), F("startCharacter", Optional(Int32)),
              F("endLine", Int32), F("endCharacter", Optional(Int32)),
              F("kind", Optional(Bytes))>>),
   SelectionRangeParams |->
     Extended(<<WorkDoneProgressParams, PartialResultParams>>,
              <<F("textDocument", TextDocumentIdentifier),
                F("positions", List(Position))>>)]
Calls ==
  LET CallHierarchyItem ==
        Struct(<<F("name", Bytes), F("kind", FeatureEnums.SymbolKind),
                 F("tags", Optional(List(Int32))),
                 F("detail", Optional(Bytes)), F("uri", Bytes),
                 F("range", Range), F("selectionRange", Range),
                 F("data", Optional(AnyValue))>>)
  IN  [CallHierarchyPrepareParams |->
         Joined(<<TextDocumentPositionParams, WorkDoneProgressParams>>),
       CallHierarchyItem |-> CallHierarchyItem,
       CallHierarchyIncomingCallsParams |->
         Extended(<<WorkDoneProgressParams, PartialResultParams>>,
                  <<F("item", CallHierarchyItem)>>),
       CallHierarchyIncomingCall |->
         Struct(<<F("from", CallHierarchyItem),
                  F("fromRanges", List(Range))>>),
       CallHierarchyOutgoingCallsParams |->
         Extended(<<WorkDoneProgressParams, PartialResultParams>>,
                  <<F("item", CallHierarchyItem)>>),
       CallHierarchyOutgoingCall |->
         Struct(<<F("to", CallHierarchyItem), F("fromRanges", List(Range))>>)]
Tokens ==
  LET SemanticTokensEdit ==
        Struct(<<F("start", Int32), F("deleteCount", Int32),
                 F("data", Optional(List(Int32)))>>)
  IN  [SemanticTokensParams |->
         Extended(<<WorkDoneProgressParams, PartialResultParams>>,
                  <<F("textDocument", TextDocumentIdentifier)>>),
       SemanticTokens |->
         Struct(<<F("resultId", Optional(Bytes)), F("data", List(Int32))>>),
       SemanticTokensPartialResult |-> Struct(<<F("data", List(Int32))>>),
       SemanticTokensDeltaParams |->
         Extended(<<WorkDoneProgressParams, PartialResultParams>>,
                  <<F("textDocument", TextDocumentIdentifier),
                    F("previousResultId", Bytes)>>),
       SemanticTokensEdit |-> SemanticTokensEdit,
       SemanticTokensDelta |->
         Struct(<<F("resultId", Optional(Bytes)),
                  F("edits", List(SemanticTokensEdit))>>),
       SemanticTokensDeltaPartialResult |->
         Struct(<<F("edits", List(SemanticTokensEdit))>>),
       SemanticTokensRangeParams |->
         Extended(<<WorkDoneProgressParams, PartialResultParams>>,
                  <<F("textDocument", TextDocumentIdentifier),
                    F("range", Range)>>),
       SemanticTokensWorkspaceClientCapabilities |->
         Struct(<<F("refreshSupport", Optional(Boolean))>>)]
Marks ==
  [LinkedEditingRangeParams |->
     Joined(<<TextDocumentPositionParams, WorkDoneProgressParams>>),
   LinkedEditingRanges |->
     Struct(<<F("ranges", List(Range)), F("wordPattern", Optional(Bytes))>>),
   MonikerParams |->
     Joined(<<TextDocumentPositionParams, WorkDoneProgressParams,
              PartialResultParams>>),
   Moniker |->
     Struct(<<F("scheme", Bytes), F("identifier", Bytes),
              F("unique", FeatureEnums.UniquenessLevel),
              F("kind", Optional(FeatureEnums.MonikerKind))>>)]

----------------------------------------------------------------------------
(* Which message has which of them.  A request has parameters and a result, *)
(* and some have partial results that are sent before it.                   *)

OrNull(type) == Variant(<<type, NullType>>)

LocationsResult ==
  [result |-> Variant(<<Location, List(Location), List(LocationLink),
                        NullType>>),
   partial |-> Variant(<<List(Location), List(LocationLink)>>)]

\* Results of lists, of one kind or another; depth is that of the recursive
\* classes.
ListResults(depth) ==
  LET Partly(type) == [result |-> OrNull(type), partial |-> type]
      SymbolsResult ==
        <<List(DocumentSymbol[depth]), List(SymbolInformation)>>
  IN  [WorkspaceSymbol |-> Partly(List(SymbolInformation)),
       Completion |->
         [result |-> Variant(<<List(Completion.CompletionItem),
                               Completion.CompletionList, NullType>>),
          partial |-> Variant(<<Completion.CompletionList,
                                List(Completion.CompletionItem)>>)],
       Declaration |-> LocationsResult,
       Definition |-> LocationsResult,
       TypeDefinition |-> LocationsResult,
       Implementation |-> LocationsResult,
       Reference |-> Partly(List(Location)),
       DocumentHighlight |-> Partly(List(Navigation.DocumentHighlight)),
       DocumentSymbol |->
         [result |-> Variant(Append(SymbolsResult, NullType)),
          partial |-> Variant(SymbolsResult)],
       CodeAction |->
         Partly(List(Variant(<<Command, CodeActions.CodeAction>>))),
       CodeLens |-> Partly(List(Links.CodeLens)),
       DocumentLink |-> Partly(List(Links.DocumentLink)),
       DocumentColor |->
         [result |-> List(Colors.ColorInformation),
          partial |-> List(Colors.ColorInformation)],
       ColorPresentation |->
         [result |-> List(Colors.ColorPresentation),
          partial |-> List(Colors.ColorPresentation)],
       FoldingRange |-> Partly(List(Ranges.FoldingRange)),
       SelectionRange |-> Partly(List(SelectionRange[depth])),
       CallHierarchyIncomingCalls |->
         Partly(List(Calls.CallHierarchyIncomingCall)),
       CallHierarchyOutgoingCalls |->
         Partly(List(Calls.CallHierarchyOutgoingCall)),
       SemanticTokens |->
         [result |-> OrNull(Tokens.SemanticTokens),
          partial |-> Tokens.SemanticTokensPartialResult],
       SemanticTokensDelta |->
         [result |-> Variant(<<Tokens.SemanticTokens,
                               Tokens.SemanticTokensDelta, NullType>>),
          partial |-> Tokens.SemanticTokensDeltaPartialResult],
       SemanticTokensRange |->
         [result |-> OrNull(Tokens.SemanticTokens),
          partial |-> Tokens.SemanticTokensPartialResult],
       Moniker |-> Partly(List(Marks.Moniker))]

\* The requests without partial results.
Results ==
  [Initialize |-> Session.InitializeResult,
   Shutdown |-> NullType,
   ShowMessageRequest |-> OrNull(Window.MessageActionItem),
   ShowDocument |-> Window.ShowDocumentResult,
   WorkDoneProgressCreate |-> NullType,
   Registration |-> NullType,
   Unregistration |-> NullType,
   WorkspaceWorkspaceFolders |-> OrNull(List(WorkspaceFolder)),
   Configuration |-> List(AnyValue),
   ExecuteCommand |-> OrNull(AnyValue),
   ApplyWorkspaceEdit |-> Files.ApplyWorkspaceEditResponse,
   CreateFiles |-> OrNull(WorkspaceEdit),
   RenameFiles |-> OrNull(WorkspaceEdit),
   DeleteFiles |-> OrNull(WorkspaceEdit),
   WillSaveTextDocument |-> OrNull(List(TextEdit)),
   CompletionItemResolve |-> Completion.CompletionItem,
   Hover |-> OrNull(Help.Hover),
   SignatureHelp |-> OrNull(Help.SignatureHelp),
   CodeActionResolve |-> CodeActions.CodeAction,
   CodeLensResolve |-> Links.CodeLens,
   CodeLensRefresh |-> NullType,
   DocumentLinkResolve |-> Links.DocumentLink,
   DocumentFormatting |-> OrNull(List(TextEdit)),
   DocumentRangeFormatting |-> OrNull(List(TextEdit)),
   DocumentOnTypeFormatting |-> OrNull(List(TextEdit)),
   Rename |-> OrNull(WorkspaceEdit),
   PrepareRename |->
     Variant(<<Range, RenamePlaces.RangePlaceHolder,
               RenamePlaces.DefaultBehaviorStruct, NullType>>),
   CallHierarchyPrepare |-> OrNull(List(Calls.CallHierarchyItem)),
   RequestingARefreshOfAllSemanticTokens |-> NullType,
   LinkedEditingRange |-> OrNull(Marks.LinkedEditingRanges)]

RequestParams ==
  [Initialize |-> InitializeParams,
   Shutdown |-> NullType,
   ShowMessageRequest |-> Window.ShowMessageRequestParams,
   ShowDocument |-> Window.ShowDocumentParams,
   WorkDoneProgressCreate |-> Window.WorkDoneProgressCreateParams,
   Registration |-> Configuration.RegistrationParams,
   Unregistration |-> Configuration.UnregistrationParams,
   WorkspaceWorkspaceFolders |-> NullType,
   Configuration |-> Configuration.ConfigurationParams,
   WorkspaceSymbol |-> Workspace.WorkspaceSymbolParams,
   ExecuteCommand |-> Workspace.ExecuteCommandParams,
   ApplyWorkspaceEdit |-> Files.ApplyWorkspaceEditParams,
   CreateFiles |-> Files.CreateFilesParams,
   RenameFiles |-> Files.RenameFilesParams,
   DeleteFiles |-> Files.DeleteFilesParams,
   WillSaveTextDocument |-> Synchronization.WillSaveTextDocumentParams,
   Completion |-> Completion.CompletionParams,
   CompletionItemResolve |-> Completion.CompletionItem,
   Hover |-> Help.HoverParams,
   SignatureHelp |-> Help.SignatureHelpParams,
   Declaration |-> Navigation.DeclarationParams,
   Definition |-> Navigation.DefinitionParams,
   TypeDefinition |-> Navigation.TypeDefinitionParams,
   Implementation |-> Navigation.ImplementationParams,
   Reference |-> Navigation.ReferenceParams,
   DocumentHighlight |-> Navigation.DocumentHighlightParams,
   DocumentSymbol |-> Symbols.DocumentSymbolParams,
   CodeAction |-> CodeActions.CodeActionParams,
   CodeActionResolve |-> CodeActions.CodeAction,
   CodeLens |-> Links.CodeLensParams,
   CodeLensResolve |-> Links.CodeLens,
   CodeLensRefresh |-> NullType,
   DocumentLink |-> Links.DocumentLinkParams,
   DocumentLinkResolve |-> Links.DocumentLink,
   DocumentColor |-> Colors.DocumentColorParams,
   ColorPresentation |-> Colors.ColorPresentationParams,
   DocumentFormatting |-> Formatting.DocumentFormattingParams,
   DocumentRangeFormatting |-> Formatting.DocumentRangeFormattingParams,
   DocumentOnTypeFormatting |-> Formatting.DocumentOnTypeFormattingParams,
   Rename |-> Ranges.RenameParams,
   PrepareRename |-> Ranges.PrepareRenameParams,
   FoldingRange |-> Ranges.FoldingRangeParams,
   SelectionRange |-> Ranges.SelectionRangeParams,
   CallHierarchyPrepare |-> Calls.CallHierarchyPrepareParams,
   CallHierarchyIncomingCalls |-> Calls.CallHierarchyIncomingCallsParams,
   CallHierarchyOutgoingCalls |-> Calls.CallHierarchyOutgoingCallsParams,
   SemanticTokens |-> Tokens.SemanticTokensParams,
   SemanticTokensDelta |-> Tokens.SemanticTokensDeltaParams,
   SemanticTokensRange |-> Tokens.SemanticTokensRangeParams,
   RequestingARefreshOfAllSemanticTokens |-> NullType,
   LinkedEditingRange |-> Marks.LinkedEditingRangeParams,
   Moniker |-> Marks.MonikerParams]

NotificationParams ==
  [Cancel |-> CancelParams,
   Initialized |-> Session.InitializedParams,
   Exit |-> NullType,
   LogTrace |-> Session.LogTraceParams,
   SetTrace |-> Session.SetTraceParams,
   ShowMessage |-> Window.ShowMessageParams,
   LogMessage |-> Window.LogMessageParams,
   WorkDoneProgressCancel |-> Window.WorkDoneProgressCancelParams,
   TelemetryEvent |-> AnyObject,
   DidChangeWorkspaceFolders |-> Configuration.DidChangeWorkspaceFoldersParams,
   DidChangeConfiguration |-> Configuration.DidChangeConfigurationParams,
   DidChangeWatchedFiles |-> Workspace.DidChangeWatchedFilesParams,
   CreateFiles |-> Files.CreateFilesParams,
   RenameFiles |-> Files.RenameFilesParams,
   DeleteFiles |-> Files.DeleteFilesParams,
   DidOpenTextDocument |-> Synchronization.DidOpenTextDocumentParams,
   DidChangeTextDocument |-> Synchronization.DidChangeTextDocumentParams,
   WillSaveTextDocument |-> Synchronization.WillSaveTextDocumentParams,
   DidSaveTextDocument |-> Synchronization.DidSaveTextDocumentParams,
   DidCloseTextDocument |-> Synchronization.DidCloseTextDocumentParams,
   PublishDiagnostics |-> Synchronization.PublishDiagnosticsParams]
=============================================================================
