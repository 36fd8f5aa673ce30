-------------------------- MODULE LspCapabilities --------------------------
(***************************************************************************)
(* What clients and servers say that they can do, when they initialize and *)
(* register: the classes whose names end in ClientCapabilities, Options or *)
(* RegistrationOptions, without these endings.                             *)
(***************************************************************************)
EXTENDS LspTypes

----------------------------------------------------------------------------
(* What the client can do. *)

ReadingCapabilities ==
  [TextDocumentSync |->
     Struct(Each(<<"dynamicRegistration", "willSave", "willSaveWaitUntil",
                   "didSave">>, Optional(Boolean))),
   PublishDiagnostics |->
     Struct(<<F("relatedInformation", Optional(Boolean)),
              F("tagSupport", Optional(AnyObject))>>
            \o Each(<<"versionSupport", "codeDescriptionSupport",
                      "dataSupport">>, Optional(Boolean))),
   Completion |->
     Struct(<<DynamicRegistration, F("completionItem", Optional(AnyObject)),
              F("completionItemKind", Optional(AnyObject)),
              F("contextSupport", Optional(Boolean))>>),
   Hover |->
     Struct(<<DynamicRegistration,
              F("contentFormat", Optional(List(SessionEnums.MarkupKind)))>>),
   SignatureHelp |->
     Struct(<<DynamicRegistration,
              F("signatureInformation", Optional(AnyObject)),
              F("contextSupport", Optional(Boolean))>>),
   Declaration |->
     Struct(<<DynamicRegistration, F("linkSupport", Optional(Boolean))>>),
   Definition |->
     Struct(<<DynamicRegistration, F("linkSupport", Optional(Boolean))>>),
   TypeDefinition |->
     Struct(<<DynamicRegistration, F("linkSupport", Optional(Boolean))>>),
   Implementation |->
     Struct(<<DynamicRegistration, F("linkSupport", Optional(Boolean))>>)]
EditingCapabilities ==
  [Reference |-> Struct(<<DynamicRegistration>>),
   DocumentHighlight |-> Struct(<<DynamicRegistration>>),
   DocumentSymbol |->
     Struct(<<DynamicRegistration, F("symbolKind", Optional(AnyObject)),
              F("hierarchicalDocumentSymbolSupport", Optional(Boolean)),
              F("tagSupport", Optional(AnyObject)),
              F("labelSupport", Optional(Boolean))>>),
   CodeAction |->
     Struct(<<DynamicRegistration,
              F("codeActionLiteralSupport", Optional(AnyObject))>>
            \o Each(<<"isPreferredSupport", "disabledSupport",
                      "dataSupport">>, Optional(Boolean))
            \o <<F("resolveSupport", Optional(AnyObject)),
                 F("honorsChangeAnnotations", Optional(Boolean))>>),
   CodeLens |-> Struct(<<DynamicRegistration>>),
   DocumentLink |->
     Struct(<<DynamicRegistration, F("tooltipSupport", Optional(Boolean))>>),
   DocumentColor |-> Struct(<<DynamicRegistration>>),
   DocumentFormatting |-> Struct(<<DynamicRegistration>>),
   DocumentRangeFormatting |-> Struct(<<DynamicRegistration>>),
   DocumentOnTypeFormatting |-> Struct(<<DynamicRegistration>>)]
StructureCapabilities ==
  LET Requests ==
        Struct(<<F("range", Optional(Variant(<<Boolean, AnyObject>>))),
                 F("full", Optional(Variant(<<Boolean, AnyObject>>)))>>)
  IN  [Rename |->
         Struct(<<DynamicRegistration, F("prepareSupport", Optional(Boolean)),
                  F("prepareSupportDefaultBehavior", Optional(AnyValue)),
                  F("honorsChangeAnnotations", Optional(Boolean))>>),
       FoldingRange |->
         Struct(<<DynamicRegistration, F("rangeLimit", Optional(Int32)),
                  F("lineFoldingOnly", Optional(Boolean))>>),
       SelectionRange |-> Struct(<<DynamicRegistration>>),
       CallHierarchy |-> Struct(<<DynamicRegistration>>),
       Requests |-> Requests,
       SemanticTokens |->
         Struct(<<DynamicRegistration, F("requests", Requests)>>
                \o Each(<<"tokenTypes", "tokenModifiers",
                          "formats">>, List(Bytes))
                \o <<F("overlappingTokenSupport", Optional(Boolean)),
                     F("multilineTokenSupport", Optional(Boolean))>>),
       LinkedEditingRange |-> Struct(<<DynamicRegistration>>),
       Moniker |-> Struct(<<DynamicRegistration>>)]
TextDocumentClientCapabilities ==
  Struct(<<F("synchronization",
             Optional(ReadingCapabilities.TextDocumentSync)),
           F("completion", Optional(ReadingCapabilities.Completion)),
           F("hover", Optional(ReadingCapabilities.Hover)),
           F("signatureHelp", Optional(ReadingCapabilities.SignatureHelp)),
           F("declaration", Optional(ReadingCapabilities.Declaration)),
           F("definition", Optional(ReadingCapabilities.Definition)),
           F("typeDefinition", Optional(ReadingCapabilities.TypeDefinition)),
           F("implementation", Optional(ReadingCapabilities.Implementation)),
           F("references", Optional(EditingCapabilities.Reference)),
           F("documentHighlight",
             Optional(EditingCapabilities.DocumentHighlight)),
           F("documentSymbol", Optional(EditingCapabilities.DocumentSymbol)),
           F("codeAction", Optional(EditingCapabilities.CodeAction)),
           F("codeLens", Optional(EditingCapabilities.CodeLens)),
           F("documentLink", Optional(EditingCapabilities.DocumentLink)),
           F("colorProvider", Optional(EditingCapabilities.DocumentColor)),
           F("formatting", Optional(EditingCapabilities.DocumentFormatting)),
           F("rangeFormatting",
             Optional(EditingCapabilities.DocumentRangeFormatting)),
           F("onTypeFormatting",
             Optional(EditingCapabilities.DocumentOnTypeFormatting)),
           F("rename", Optional(StructureCapabilities.Rename)),
           F("publishDiagnostics",
             Optional(ReadingCapabilities.PublishDiagnostics)),
           F("foldingRange", Optional(StructureCapabilities.FoldingRange)),
           F("selectionRange", Optional(StructureCapabilities.SelectionRange)),
           F("linkedEditingRange",
             Optional(StructureCapabilities.LinkedEditingRange)),
           F("callHierarchy", Optional(StructureCapabilities.CallHierarchy)),
           F("semanticTokens", Optional(StructureCapabilities.SemanticTokens)),
           F("moniker", Optional(StructureCapabilities.Moniker))>>)
WindowCapabilities ==
  [ShowMessageRequest |->
     Struct(<<F("messageActionItem", Optional(AnyObject))>>),
   ShowDocument |-> Struct(<<F("support", Boolean)>>),
   DidChangeConfiguration |-> Struct(<<DynamicRegistration>>)]
ClientCapabilities ==
  Struct(<<F("workspace", Optional(AnyObject)),
           F("textDocument", Optional(TextDocumentClientCapabilities)),
           F("window", Optional(AnyObject)), F("general", Optional(AnyObject)),
           F("experimental", Optional(AnyValue))>>)
WorkspaceFolder == Struct(<<F("uri", Bytes), F("name", Bytes)>>)
InitializeParams ==
  Extended(<<WorkDoneProgressParams>>,
           <<F("processId", VariantFrom(<<Int32, NullType>>, 2)),
             F("clientInfo", Optional(AnyObject)),
             F("locale", Optional(Bytes)),
             F("rootPath", Optional(VariantFrom(<<Bytes, NullType>>, 2))),
             F("rootUri", VariantFrom(<<Bytes, NullType>>, 2)),
             F("initializationOptions", Optional(AnyValue)),
             F("capabilities", ClientCapabilities),
             F("trace", Optional(SessionEnums.TraceValue)),
             F("workspaceFolders",
               Optional(VariantFrom(<<List(WorkspaceFolder),
                                      NullType>>, 2)))>>)

----------------------------------------------------------------------------
(* What the server can do. *)

WorkspaceOptions ==
  LET FileOperationPatternOptions ==
        Struct(<<F("ignoreCase", Optional(Boolean))>>)
      FileOperationPattern ==
        Struct(<<F("glob", Bytes),
                 F("matches", Optional(SessionEnums.FileOperationPatternKind)),
                 F("options", Optional(FileOperationPatternOptions))>>)
      FileOperationFilter ==
        Struct(<<F("scheme", Optional(Bytes)),
                 F("pattern", FileOperationPattern)>>)
  IN  [WorkspaceFoldersServerCapabilities |->
         Struct(<<F("supported", Optional(Boolean)),
                  F("changeNotifications",
                    Optional(Variant(<<Bytes, Boolean>>)))>>),
       WorkspaceSymbol |-> WorkDoneProgressOptions,
       ExecuteCommand |->
         Extended(<<WorkDoneProgressOptions>>, <<F("commands", List(Bytes))>>),
       FileOperationPatternOptions |-> FileOperationPatternOptions,
       FileOperationPattern |-> FileOperationPattern,
       FileOperationFilter |-> FileOperationFilter,
       FileOperationRegistrationOptions |->
         Struct(<<F("filters", List(FileOperationFilter))>>),
       TextDocumentSync |->
         Struct(<<F("openClose", Optional(Boolean)),
                  F("change", Optional(SessionEnums.TextDocumentSyncKind))>>)]
ReadingOptions ==
  [Completion |->
     Extended(<<WorkDoneProgressOptions>>,
              <<F("triggerCharacters", Optional(List(Bytes))),
                F("allCommitCharacters", Optional(List(Bytes))),
                F("resolveProvider", Optional(Boolean))>>),
   Hover |-> WorkDoneProgressOptions,
   SignatureHelp |->
     Extended(<<WorkDoneProgressOptions>>,
              <<F("triggerCharacters", Optional(List(Bytes))),
                F("retriggerCharacters", Optional(List(Bytes)))>>),
   Declaration |-> WorkDoneProgressOptions,
   DeclarationRegistration |->
     Joined(<<WorkDoneProgressOptions, TextDocumentRegistrationOptions,
              StaticRegistrationOptions>>),
   Definition |-> WorkDoneProgressOptions,
   TypeDefinition |-> WorkDoneProgressOptions,
   TypeDefinitionRegistration |->
     Joined(<<TextDocumentRegistrationOptions, WorkDoneProgressOptions,
              StaticRegistrationOptions>>),
   Implementation |-> WorkDoneProgressOptions,
   ImplementationRegistration |->
     Joined(<<TextDocumentRegistrationOptions, WorkDoneProgressOptions,
              StaticRegistrationOptions>>),
   Reference |-> WorkDoneProgressOptions,
   DocumentHighlight |-> WorkDoneProgressOptions]
EditingOptions ==
  [DocumentSymbol |->
     Extended(<<WorkDoneProgressOptions>>, <<F("label", Optional(Bytes))>>),
   CodeAction |->
     Extended(<<WorkDoneProgressOptions>>,
              <<F("codeActionKinds", Optional(List(Bytes))),
                F("resolveProvider", Optional(Boolean))>>),
   CodeLens |->
     Extended(<<WorkDoneProgressOptions>>,
              <<F("resolveProvider", Optional(Boolean))>>),
   DocumentLink |->
     Extended(<<WorkDoneProgressOptions>>,
              <<F("resolveProvider", Optional(Boolean))>>),
   DocumentColor |-> WorkDoneProgressOptions,
   DocumentColorRegistration |->
     Joined(<<TextDocumentRegistrationOptions, StaticRegistrationOptions,
              WorkDoneProgressOptions>>),
   DocumentFormatting |-> WorkDoneProgressOptions,
   DocumentRangeFormatting |-> WorkDoneProgressOptions,
   DocumentOnTypeFormatting |->
     Struct(<<F("firstTriggerCharacter", Bytes),
              F("moreTriggerCharacter", Optional(List(Bytes)))>>),
   Rename |->
     Extended(<<WorkDoneProgressOptions>>,
              <<F("prepareProvider", Optional(Boolean))>>)]
StructureOptions ==
  LET SemanticTokensLegend ==
        Struct(<<F("tokenTypes", List(Bytes)),
                 F("tokenModifiers", List(Bytes))>>)
      SemanticTokens ==
        Extended(<<WorkDoneProgressOptions>>,
                 <<F("legend", SemanticTokensLegend),
                   F("range", Optional(Variant(<<Boolean, AnyObject>>))),
                   F("full", Optional(Variant(<<Boolean, AnyObject>>)))>>)
  IN  [FoldingRange |-> WorkDoneProgressOptions,
       FoldingRangeRegistration |->
         Joined(<<TextDocumentRegistrationOptions, WorkDoneProgressOptions,
                  StaticRegistrationOptions>>),
       SelectionRange |-> WorkDoneProgressOptions,
       SelectionRangeRegistration |->
         Joined(<<WorkDoneProgressOptions, TextDocumentRegistrationOptions,
                  StaticRegistrationOptions>>),
       CallHierarchy |-> WorkDoneProgressOptions,
       CallHierarchyRegistration |->
         Joined(<<TextDocumentRegistrationOptions, WorkDoneProgressOptions,
                  StaticRegistrationOptions>>),
       SemanticTokensLegend |-> SemanticTokensLegend,
       SemanticTokens |-> SemanticTokens,
       SemanticTokensRegistration |->
         Joined(<<TextDocumentRegistrationOptions, SemanticTokens,
                  StaticRegistrationOptions>>)]
LinkedOptions ==
  [LinkedEditingRange |-> WorkDoneProgressOptions,
   LinkedEditingRangeRegistration |->
     Joined(<<TextDocumentRegistrationOptions, WorkDoneProgressOptions,
              StaticRegistrationOptions>>),
   Moniker |-> WorkDoneProgressOptions,
   MonikerRegistration |->
     Joined(<<TextDocumentRegistrationOptions, WorkDoneProgressOptions>>)]
ServerCapabilities ==
  LET Provider(options) == Optional(Variant(<<Boolean>> \o options))
  IN  Struct(<<F("textDocumentSync",
                 Optional(Variant(<<WorkspaceOptions.TextDocumentSync,
                                    SessionEnums.TextDocumentSyncKind>>))),
               F("completionProvider", Optional(ReadingOptions.Completion)),
               F("hoverProvider", Provider(<<ReadingOptions.Hover>>)),
               F("signatureHelpProvider",
                 Optional(ReadingOptions.SignatureHelp)),
               F("declarationProvider",
                 Provider(<<ReadingOptions.Declaration,
                            ReadingOptions.DeclarationRegistration>>)),
               F("definitionProvider",
                 Provider(<<ReadingOptions.Definition>>)),
               F("typeDefinitionProvider",
                 Provider(<<ReadingOptions.TypeDefinition,
                            ReadingOptions.TypeDefinitionRegistration>>)),
               F("implementationProvider",
                 Provider(<<ReadingOptions.Implementation,
                            ReadingOptions.ImplementationRegistration>>)),
               F("referencesProvider", Provider(<<ReadingOptions.Reference>>)),
               F("documentHighlightProvider",
                 Provider(<<ReadingOptions.DocumentHighlight>>)),
               F("documentSymbolProvider",
                 Provider(<<EditingOptions.DocumentSymbol>>)),
               F("codeActionProvider",
                 Provider(<<EditingOptions.CodeAction>>)),
               F("codeLensProvider", Optional(EditingOptions.CodeLens)),
               F("documentLinkProvider",
                 Optional(EditingOptions.DocumentLink)),
               F("colorProvider",
                 Provider(<<EditingOptions.DocumentColor,
                            EditingOptions.DocumentColorRegistration>>)),
               F("documentFormattingProvider",
                 Provider(<<EditingOptions.DocumentFormatting>>)),
               F("documentRangeFormattingProvider",
                 Provider(<<EditingOptions.DocumentRangeFormatting>>)),
               F("documentOnTypeFormattingProvider",
                 Optional(EditingOptions.DocumentOnTypeFormatting)),
               F("renameProvider", Provider(<<EditingOptions.Rename>>)),
               F("foldingRangeProvider",
                 Provider(<<StructureOptions.FoldingRange,
                            StructureOptions.FoldingRangeRegistration>>)),
               F("executeCommandProvider",
                 Optional(WorkspaceOptions.ExecuteCommand)),
               F("selectionRangeProvider",
                 Provider(<<StructureOptions.SelectionRange,
                            StructureOptions.SelectionRangeRegistration>>)),
               F("linkedEditingRangeProvider",
                 Provider(<<LinkedOptions.LinkedEditingRange,
                            LinkedOptions.LinkedEditingRangeRegistration>>)),
               F("callHierarchyProvider",
                 Provider(<<StructureOptions.CallHierarchy,
                            StructureOptions.CallHierarchyRegistration>>)),
               F("semanticTokensProvider",
                 Optional(
                   Variant(<<StructureOptions.SemanticTokens,
                             StructureOptions.SemanticTokensRegistration>>))),
               F("monikerProvider",
                 Provider(<<LinkedOptions.Moniker,
                            LinkedOptions.MonikerRegistration>>)),
               F("workspaceSymbolProvider",
                 Provider(<<WorkspaceOptions.WorkspaceSymbol>>)),
               F("workspace", Optional(AnyObject)),
               F("experimental", Optional(AnyValue))>>)
=============================================================================
