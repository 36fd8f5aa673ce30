----------------------------- MODULE LspMethods -----------------------------
(***************************************************************************)
(* The requests and notifications of the Language Server Protocol that     *)
(* ProtocolGen has functions for: the method that each one is sent under,  *)
(* and what requestX takes and registerXRequestHandler lets a handler give *)
(* as a result:                                                            *)
(*   "void"      null                                                      *)
(*   "nullable"  a value or null                                           *)
(*   "list"      a list; null is read as an empty one                      *)
(*   "plain"     a value                                                   *)
(*   "any"       anything                                                  *)
(***************************************************************************)
EXTENDS TLC

RequestMethod ==
  [Initialize |-> "initialize", Shutdown |-> "shutdown",
   ShowMessageRequest |-> "window/showMessageRequest",
   ShowDocument |-> "window/showDocument",
   WorkDoneProgressCreate |-> "window/workDoneProgress/create",
   Registration |-> "client/registerCapability",
   Unregistration |-> "client/unregisterCapability",
   WorkspaceWorkspaceFolders |-> "workspace/workspaceFolders",
   Configuration |-> "workspace/configuration",
   WorkspaceSymbol |-> "workspace/symbol",
   ExecuteCommand |-> "workspace/executeCommand",
   ApplyWorkspaceEdit |-> "workspace/applyEdit",
   CreateFiles |-> "workspace/willCreateFiles",
   RenameFiles |-> "workspace/willRenameFiles",
   DeleteFiles |-> "workspace/willDeleteFiles",
   WillSaveTextDocument |-> "textDocument/willSaveWaitUntil",
   Completion |-> "textDocument/completion",
   CompletionItemResolve |-> "completionItem/resolve",
   Hover |-> "textDocument/hover",
   SignatureHelp |-> "textDocument/signatureHelp",
   Declaration |-> "textDocument/declaration",
   Definition |-> "textDocument/definition",
   TypeDefinition |-> "textDocument/typeDefinition",
   Implementation |-> "textDocument/implementation",
   Reference |-> "textDocument/references",
   DocumentHighlight |-> "textDocument/documentHighlight",
   DocumentSymbol |-> "textDocument/documentSymbol",
   CodeAction |-> "textDocument/codeAction",
   CodeActionResolve |-> "codeAction/resolve",
   CodeLens |-> "textDocument/codeLens",
   CodeLensResolve |-> "codeLens/resolve",
   CodeLensRefresh |-> "workspace/codeLens/refresh",
   DocumentLink |-> "textDocument/documentLink",
   DocumentLinkResolve |-> "documentLink/resolve",
   DocumentColor |-> "textDocument/documentColor",
   ColorPresentation |-> "textDocument/colorPresentation",
   DocumentFormatting |-> "textDocument/formatting",
   DocumentRangeFormatting |-> "textDocument/rangeFormatting",
   DocumentOnTypeFormatting |-> "textDocument/onTypeFormatting",
   Rename |-> "textDocument/rename",
   PrepareRename |-> "textDocument/prepareRename",
   FoldingRange |-> "textDocument/foldingRange",
   SelectionRange |-> "textDocument/selectionRange",
   CallHierarchyPrepare |-> "textDocument/prepareCallHierarchy",
   CallHierarchyIncomingCalls |-> "callHierarchy/incomingCalls",
   CallHierarchyOutgoingCalls |-> "callHierarchy/outgoingCalls",
   SemanticTokens |-> "textDocument/semanticTokens/full",
   SemanticTokensDelta |-> "textDocument/semanticTokens/full/delta",
   SemanticTokensRange |-> "textDocument/semanticTokens/range",
   RequestingARefreshOfAllSemanticTokens |-> "workspace/semanticTokens/refresh",
   LinkedEditingRange |-> "textDocument/linkedEditingRange",
   Moniker |-> "textDocument/moniker"]

\* Progress has a method but no functions.
NotificationMethod ==
  [Cancel |-> "$/cancelRequest", Progress |-> "$/progress",
   Initialized |-> "initialized", Exit |-> "exit", LogTrace |-> "$/logTrace",
   SetTrace |-> "$/setTrace", ShowMessage |-> "window/showMessage",
   LogMessage |-> "window/logMessage",
   WorkDoneProgressCancel |-> "window/workDoneProgress/cancel",
   TelemetryEvent |-> "telemetry/event",
   DidChangeWorkspaceFolders |-> "workspace/didChangeWorkspaceFolders",
   DidChangeConfiguration |-> "workspace/didChangeConfiguration",
   DidChangeWatchedFiles |-> "workspace/didChangeWatchedFiles",
   CreateFiles |-> "workspace/didCreateFiles",
   RenameFiles |-> "workspace/didRenameFiles",
   DeleteFiles |-> "workspace/didDeleteFiles",
   DidOpenTextDocument |-> "textDocument/didOpen",
   DidChangeTextDocument |-> "textDocument/didChange",
   WillSaveTextDocument |-> "textDocument/willSave",
   DidSaveTextDocument |-> "textDocument/didSave",
   DidCloseTextDocument |-> "textDocument/didClose",
   PublishDiagnostics |-> "textDocument/publishDiagnostics"]

NotificationNames == DOMAIN NotificationMethod \ {"Progress"}

----------------------------------------------------------------------------
(* requestX. *)

WindowRequests ==
  [Initialize |-> "plain", Shutdown |-> "void",
   ShowMessageRequest |-> "nullable", ShowDocument |-> "plain",
   WorkDoneProgressCreate |-> "void"]

WorkspaceRequests ==
  [Registration |-> "void", Unregistration |-> "void",
   WorkspaceWorkspaceFolders |-> "nullable", Configuration |-> "list",
   WorkspaceSymbol |-> "nullable", ExecuteCommand |-> "any",
   ApplyWorkspaceEdit |-> "plain"]

FileRequests ==
  [CreateFiles |-> "nullable", RenameFiles |-> "nullable",
   DeleteFiles |-> "nullable", WillSaveTextDocument |-> "nullable"]

CompletionRequests ==
  [Completion |-> "nullable", CompletionItemResolve |-> "plain",
   Hover |-> "nullable", SignatureHelp |-> "nullable"]

NavigationRequests ==
  [Declaration |-> "nullable", Definition |-> "nullable",
   TypeDefinition |-> "nullable", Implementation |-> "nullable",
   Reference |-> "nullable", DocumentHighlight |-> "nullable"]

SymbolRequests ==
  [DocumentSymbol |-> "nullable", CodeAction |-> "nullable",
   CodeActionResolve |-> "plain", CodeLens |-> "nullable",
   CodeLensResolve |-> "plain", CodeLensRefresh |-> "void"]

LinkRequests ==
  [DocumentLink |-> "nullable", DocumentLinkResolve |-> "plain",
   DocumentColor |-> "list", ColorPresentation |-> "list"]

EditingRequests ==
  [DocumentFormatting |-> "nullable", DocumentRangeFormatting |-> "nullable",
   DocumentOnTypeFormatting |-> "nullable", Rename |-> "nullable",
   PrepareRename |-> "nullable"]

HierarchyRequests ==
  [FoldingRange |-> "nullable", SelectionRange |-> "nullable",
   CallHierarchyPrepare |-> "nullable",
   CallHierarchyIncomingCalls |-> "nullable",
   CallHierarchyOutgoingCalls |-> "nullable"]

TokenRequests ==
  [SemanticTokens |-> "nullable", SemanticTokensDelta |-> "nullable",
   SemanticTokensRange |-> "nullable",
   RequestingARefreshOfAllSemanticTokens |-> "void",
   LinkedEditingRange |-> "nullable", Moniker |-> "nullable"]

RequestResult ==
  WindowRequests @@ WorkspaceRequests @@ FileRequests @@ CompletionRequests
    @@ NavigationRequests @@ SymbolRequests @@ LinkRequests @@ EditingRequests
    @@ HierarchyRequests @@ TokenRequests

----------------------------------------------------------------------------
(* registerXRequestHandler. *)

WindowHandlers ==
  [Initialize |-> "plain", Shutdown |-> "void",
   ShowMessageRequest |-> "nullable", ShowDocument |-> "plain",
   WorkDoneProgressCreate |-> "void"]

WorkspaceHandlers ==
  [Registration |-> "void", Unregistration |-> "void",
   WorkspaceWorkspaceFolders |-> "nullable", Configuration |-> "list",
   WorkspaceSymbol |-> "nullable", ExecuteCommand |-> "any",
   ApplyWorkspaceEdit |-> "plain"]

FileHandlers ==
  [CreateFiles |-> "nullable", RenameFiles |-> "nullable",
   DeleteFiles |-> "nullable", WillSaveTextDocument |-> "nullable"]

CompletionHandlers ==
  [Completion |-> "nullable", CompletionItemResolve |-> "plain",
   Hover |-> "nullable", SignatureHelp |-> "nullable",
   Declaration |-> "nullable", Definition |-> "nullable",
   TypeDefinition |-> "nullable", Implementation |-> "nullable",
   Reference |-> "nullable", DocumentHighlight |-> "nullable"]

SymbolHandlers ==
  [DocumentSymbol |-> "nullable", CodeAction |-> "nullable",
   CodeActionResolve |-> "plain", CodeLens |-> "nullable",
   CodeLensResolve |-> "plain", CodeLensRefresh |-> "void",
   DocumentLink |-> "nullable", DocumentLinkResolve |-> "plain",
   DocumentColor |-> "list", ColorPresentation |-> "list"]

EditingHandlers ==
  [DocumentFormatting |-> "nullable", DocumentRangeFormatting |-> "nullable",
   DocumentOnTypeFormatting |-> "nullable", Rename |-> "nullable",
   PrepareRename |-> "nullable",
   FoldingRange |-> "nullable", SelectionRange |-> "nullable",
   CallHierarchyPrepare |-> "nullable",
   CallHierarchyIncomingCalls |-> "nullable",
   CallHierarchyOutgoingCalls |-> "nullable"]

TokenHandlers ==
  [SemanticTokens |-> "nullable", SemanticTokensDelta |-> "nullable",
   SemanticTokensRange |-> "nullable",
   RequestingARefreshOfAllSemanticTokens |-> "void",
   LinkedEditingRange |-> "nullable", Moniker |-> "nullable"]

HandlerResult ==
  WindowHandlers @@ WorkspaceHandlers @@ FileHandlers @@ CompletionHandlers
    @@ SymbolHandlers @@ EditingHandlers @@ TokenHandlers

\* The handlers that get a response with sendPartialResponse.
PartialHandlers ==
  {"WorkspaceSymbol", "Completion", "Declaration", "Definition",
   "TypeDefinition", "Implementation", "Reference", "DocumentHighlight",
   "DocumentSymbol", "CodeAction", "CodeLens", "DocumentLink",
   "DocumentColor", "ColorPresentation", "FoldingRange", "SelectionRange",
   "CallHierarchyIncomingCalls", "CallHierarchyOutgoingCalls",
   "SemanticTokens", "SemanticTokensDelta", "SemanticTokensRange", "Moniker"}

----------------------------------------------------------------------------

\* Every request has both functions, and they agree on its result; no two of
\* all names have the same method.
ASSUME TablesAgree ==
  /\ RequestResult = HandlerResult
  /\ DOMAIN RequestResult = DOMAIN RequestMethod
  /\ PartialHandlers \subseteq DOMAIN HandlerResult
  /\ \A x, y \in DOMAIN RequestMethod :
       RequestMethod[x] = RequestMethod[y] => x = y
  /\ \A x, y \in DOMAIN NotificationMethod :
       NotificationMethod[x] = NotificationMethod[y] => x = y
  /\ \A x \in DOMAIN RequestMethod, y \in DOMAIN NotificationMethod :
       RequestMethod[x] # NotificationMethod[y]
=============================================================================
