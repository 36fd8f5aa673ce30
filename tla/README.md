# A TLA+ model of QtLanguageServer

This directory holds a formal model of the library in `src/`: TLA+ modules
translated from the C++ sources, TLC configurations that check them on small
instances, and proofs that TLAPS checks for every instance.

The library has two layers. `src/src/jsonrpc` is an implementation of JSON-RPC
2.0 with typed parameters; `src/src/languageserver` frames its messages like
HTTP, and maps the requests and notifications of the Language Server Protocol
to typed functions, most of them generated from a specification by
`generate.ts`.

Everything runs in one thread. What makes the code hard is re-entrancy: nearly
every loop of it calls user code (a handler, a callback, an on-close action),
and user code may call any public operation again, or run an event loop that
delivers the next chunk or message, before it returns into the loop. The models
therefore keep what is in progress, the C++ stack as far as it matters, as an
explicit variable. Only its top advances; user code runs when the top has
handed control out.

## Inventory

| Component | State | Operations | Talks to |
|---|---|---|---|
| `QHttpMessageStreamParser` | parser state, header and value read so far, packet, sizes | `receiveData`, `receiveEof` | calls header, body and error handlers inside its loop |
| `QLanguageServerJsonRpcTransport` | the parser, callbacks, a data handler | `sendMessage`, `receiveData`, `hasHeader`, `hasBody` | parser below, message and diagnostic handlers above |
| `QJsonRpcProtocol` | transport, handlers, map of pending requests, preprocessor | sending (single and batch), receiving, registration | transport below; handlers and response handlers of the user |
| `RequestBatchHandler` | answers collected, counter of open requests, the transport | loop over a batch, its responders, deletes itself | handlers, transport |
| `TypedRpc`, `TypedHandler` | last id, map of handlers, on-close action | typed sending and registration | `QJsonRpcProtocol`, `QTypedJson` |
| `TypedResponse`, `LSPResponse` | status, id, responder, on-close actions | send, add action, move, destroy | a responder of `QJsonRpcProtocol`, actions of the user |
| `QTypedJson::Reader`, `JsonBuilder` | stacks of values, errors | walk over a value, with backtracking for variants | data types |
| `ProtocolBase`, `QLanguageServerProtocol` | handlers for what nobody handles, the transport | registration, dispatch of the rest, `receiveData` | `TypedRpc`, transport |
| `ProtocolGen` | none of its own | one `requestX`/`notifyX` and one `registerX` per method | `TypedRpc` |
| `QLspNotifySignals` | connections | turns notifications into signals | `ProtocolGen`, `ProtocolBase` |
| data types, `generate.ts` | none | plain data and its `walk` functions; build-time generator | `QTypedJson` |

What makes each of them correct:

- **Parser.** What it hands on depends on the bytes, not on how they are cut
  into chunks; a body has exactly the announced length; `receiveData` returns.
- **Protocol.** Every document that calls for an answer gets exactly one
  message, with the right ids, from the right place; every request sent has its
  handler called exactly once, with its own response.
- **Batches.** The batch object collects each answer once, sends them all when
  the last one is in, and exists exactly as long as it is needed.
- **Responses.** The duty to answer a request is held by exactly one object
  until it is met, however that object is moved or destroyed.
- **Typed JSON.** A value is read without an error exactly if it fits its type,
  wherever in it an alternative or a member failed before; no error is lost;
  what is written can be read again.
- **Session.** Each method reaches its handler, or the handler for methods
  that nobody registered; decoding errors reach the error handler.

What is hard to test is listed in `PROJECT.json` under `hazards`, at the line
where it bites, with the properties that cover it.

## Modules

| Module | Models | Extends or uses |
|---|---|---|
| `RpcExchange` | what a JSON-RPC endpoint promises (abstract) | |
| `JsonRpcProtocol` | `QJsonRpcProtocol`, `RequestBatchHandler` | |
| `JsonRpcProtocolProperties` | its properties, and the refinement of `RpcExchange` | both above |
| `JsonRpcProtocolProofs` | proofs: types, handlers of requests | the properties |
| `JsonRpcBatchProofs` | proofs: answers to documents, batch objects | the proofs above |
| `JsonRpcClientProofs` | proofs: requests that are sent, response arrays, the refinement of `RpcExchange` | `JsonRpcBatchProofs` |
| `TypedResponse` | `TypedResponse`, `LSPResponse`, the lambda of `registerRequestHandler` | |
| `TypedResponseProofs` | proofs | `TypedResponse` |
| `HttpStream` | byte streams and what they mean: a byte-wise reader | |
| `MessageChannel` | what a pair of transports promises (abstract) | |
| `HttpStreamParser` | `QHttpMessageStreamParser`, `sendMessage` and `hasHeader` of the transport; the refinement of `MessageChannel` | both above |
| `HttpStreamProofs` | proofs: what the byte-wise reader makes of a stream, and of a framed message | `HttpStream` |
| `HttpStreamParserProofs` | proofs: types, tokens, bodies | `HttpStreamParser`, `HttpStreamProofs` |
| `HttpChunkingProofs` | proofs: chunks do not matter, messages are delivered, the refinement of `MessageChannel` | `HttpStreamParserProofs` |
| `TypedJson` | `QTypedJson`: `doWalk` with the `Reader`, and what is to be written | |
| `JsonBuilder` | `doWalk` with `JsonBuilder`, a machine with three stacks | `TypedJson` |
| `LspTypes` | enums and the classes that many messages share | `TypedJson` |
| `LspCapabilities` | the capabilities and options of both ends | `LspTypes` |
| `LspMessages` | parameters and results of all requests and notifications | `LspCapabilities` |
| `TypedJsonTrips` | a value that is written and read by two peers in turn | `JsonBuilder` |
| `LspMethods` | the requests and notifications of `ProtocolGen`, as tables | |
| `RemoteCalls` | what a session promises its two users (abstract) | |
| `LspSession` | `TypedRpc`, `ProtocolBase`, `QLanguageServerProtocol`, `ProtocolGen`, `QLspNotifySignals` at both ends | |
| `LspSessionProperties` | its properties, and the refinement of `RemoteCalls` | both above |
| `LspSessionProofs` | proofs, the refinement of `RemoteCalls` | the properties |
| `MC...` | documents, streams and bounds for TLC | the module named |

### JsonRpcProtocol

The variables are the members of `QJsonRpcProtocolPrivate` (`transport`,
`handlers`, `default`, `pending`), the `RequestBatchHandler` objects (`batch`,
indexed by the arrival that made them), the requests that user code has not
answered (`open`), the loops in progress (`stack`), and histories. There are
three kinds of loops: over a received request batch, over a received response
array, and over a batch being sent. One action is one iteration. A handler that
answers at once and one that answers later are both behaviours of `Reply`,
because `Reply` may happen while the loop that called the handler has not gone
on yet.

`fault` is set when the code runs into undefined behaviour: `sendMessage` with
no transport, a batch object that is used after it has deleted itself, or a
protocol that is called after its end. The model stops there; nothing can be
said of what follows.

The destructor is defaulted and unhooks nothing. The lambda in the transport
and the responders of single requests and of the preprocessor point to the
object, the responders of a batch only to the batch. `MayDestroy` says what the
application does: never destroy the object, destroy it only after
`setTransport(nullptr)` and when no single request is held (`"detached"`), or
at any time that none of its callbacks is running (`"ever"`). Under `"detached"`
`NoUseAfterFree` holds; it rests on `setTransport` taking the handler from the
transport it leaves, whatever sequence of transports there was.

JSON is abstracted to what dispatch looks at: the type of a document, and for
each object the type of its `id` and whether its `method` is a string. Ids are
model values. Parameters and results are left out.

### TypedResponse

An object of the class is a slot with `status`, `request` and `closers`. The
parameters of handlers are objects like those of the application; a stack holds
the handlers in progress and the loops of `doOnCloseActions`. Between any two
iterations user code may answer, move, add actions to or destroy whatever it
can reach, or receive another request. `dying` marks a loop that runs inside a
destructor: the object is gone when it ends. A list that is changed while a
range-for goes over it, and an object that is destroyed while its own actions
run, are undefined behaviour and end the model's behaviour.

`MayOverwrite` and `MayMoveClosers` say what the application does: whether it
assigns over a response it has not answered, and whether it moves responses
that have on-close actions.

An action that is added to an object that is Invalid, because it was moved from
or never was a response, is a case of its own (`RunInvalid`): builds with
assertions stop, others call the action at once, with the status Invalid, or
dereference a `TypedRpc` the object never had. Such an action was added for no
request, so `ClosersRun`, which speaks of those that were, says nothing of it.

`JsonRpcProtocol` lets each responder be called once at most. That is what
`AnsweredOnce` proves of the responses built on it; and it assumes in its
fairness that handlers answer, which is what `EveryRequestAnswered` shows of
handlers that use a `TypedResponse`, even if they drop it.

### HttpStreamParser

`state`, `field`, `value`, `packet`, `packetSize` and `contentSize` are the
members of the class. `calls` holds the calls of `receiveData` in progress,
each with its own `data` and `dataPos`: the rest of a chunk is in a local
variable while the body handler runs, and a nested call parses the next chunk
with the same members.

Bytes are reduced to the ones the parser and the transport distinguish.
`LENGTH` and `TYPE` stand for the whole field names `Content-Length` and
`Content-Type`, `UTF8` for a value of the latter that is accepted. A member of
`Numbers` stands for the digits of the number `NumberValue` gives it: a number
is one byte here, of any value, and is not itself cut. `MaxInt` stands for
`INT_MAX`: a length above it is no number for `toInt`, and is complained of.
`warnings` counts the calls of the diagnostic handler, by the parser and
by `hasHeader`. `data.at()` past the
end (see below) is a choice between the assertion, a byte that is a space and a
byte that is not.

`HttpStream!Read` is the reference: it consumes one byte after the other and
knows nothing of chunks, positions or tokens.

A feed is what a peer sends: any bytes, with no `messages`, or what its
transport's `sendMessage` has written, with `messages` and the positions at which
they end (`ends`). `Framed` says that the stream is those messages, each with its
header, and nothing else, and that none is longer than `MaxInt`; it is part of
`FeedsAssumption`, so TLC evaluates it and the proofs may use it. It says nothing
of a feed with no messages. `SendMessage` writes nothing if the transport has no
data handler, so a message sent before there is one is not among `messages`.

`MessageChannel` is the promise to the protocols above: the messages written at
one end are delivered at the other, once each and in order, and what has been
written completely is delivered without waiting for more (`Fairness`, which
`NothingHeldBack` states of the parser). `ImplementsChannel`
maps a message to "written" when its last byte has been given to `receiveData`.
Feeds whose body handlers run event loops are left out of the mapping, because
there the order may change; `DeliversWhenNested` says what holds of them: if
each chunk is made of whole messages, every message is handed on as often as it
was sent, without a complaint.

### TypedJson

A C++ type is a record that says which branch of `doWalk` takes it and what it
is made of. `LspTypes`, `LspCapabilities` and `LspMessages` have the classes
and enums of the specification as sequences of their fields, in the order of
their `walk` functions, and tables from the requests and notifications to the
types of their parameters, results and partial results. `Read` is `doWalk` with
a `Reader`: its stacks are the recursion, and what is left of it is what goes on
from one member to the next, the status and whether there are messages.

`Build` is `doWalk` with a `JsonBuilder`, callback by callback. The builder has
no recursion to lean on: whether a missing optional is in a field (and left
out) or in an array (and a null) it only sees from the heights of its stacks,
and `endField` and `endElement` take what they find on top. `Write` says what
is to come out, value by value and without stacks; `BuilderWritesValue`
compares the two. An assertion that fails is recorded (`asserted`), and the
model goes on as builds without assertions do; so it does with `QString` and
`std::pair`, which `doWalk` does not know.

The reference in `TypedJsonTrips` has no reader that goes along: `Fits` and
`Meaning` are defined by the type and the JSON alone. `Unambiguous` says of a
type that no alternative writes what an earlier one reads.

The run goes over the types of all messages, once where several messages have
the same one, and over the two capabilities objects class by class. Of each
type it takes values with every alternative and option, and JSON that is right
or has one thing wrong in it: a member that is missing, of another kind, or
that nobody asked for. Small types (20 leaves or less) are varied at any depth
and with ten wrong values, the others in two levels of objects and with four.
Classes that contain themselves are unfolded once.

The operators are recursive over types, so their properties are checked and not
proved.

### LspSession

Two `QLanguageServerProtocol` objects send to each other. By end there are
`handlers` (`m_handlers`, with the kind of each entry: `TypedHandler` holds a
request handler, a notification handler, one of `QLspNotifySignals` or none),
the two `undispatched` handlers of `ProtocolBase`, the signals that are
`connected`, `lastId`, `pending` and the `wire` towards it. `sent` is a history
that says of every message what became of it: who took it, what was answered,
and what its sender was told.

Sending, taking and answering are steps of their own. `QJsonRpcProtocol` does
nothing more when the handler of a single message returns, and `TypedRpc`
deletes `sendBatch`, so whatever a handler does can follow the step in which it
is called; `JsonRpcProtocol` is the model in which loops go on afterwards. That
a held request is answered once is `AnsweredOnce` of `TypedResponse`.

One action stands for all functions of a kind, with the method as a parameter.
`LspMethods` says what is particular to a method: its name, and what its
function takes and its handler gives as a result. A result is a value of the
type, null, or something else; whether it is read as the value that was sent is
the matter of `TypedJson`. The run uses one request whose handler may send
partial results, one notification with a signal, and `$/progress`, which has a
name and no functions. The client also sends, with `typedRpc()`, a request
under the name of the notification and a notification under that of the request.

`m_lastId` counts modulo `IdCount`, and ids may be given beside it, so that an
id may still wait when it is used again. A refused second registration leaves
the handlers as they are, and a second undispatched handler replaces the first;
builds with assertions stop at either. A null handler keeps its entry: it answers
requests itself, and the undispatched handler is not asked. The result that
answers a request is read as the type of its function: as a value or an error,
and a list, whose elements may be right or wrong, as either.

`Garble` turns a message into bytes that are no JSON. The receiver answers with
an id that is null, which no handler is set for. TLC shows with `CallsAccounted`
that the request waits on, and its id is not free again.

## Runs

| Run | Asks | Bounds |
|---|---|---|
| `rpc_server` | are all answers given, once, right, whole, and in the end? | 2 arrivals from 4 kinds of documents, 2 transports swapped at will, 2 nested loops |
| `rpc_peer` | are all handlers of requests called once, in order, and nothing after its end? | 2 requests or batches begun, 2 arrivals, 2 nested loops, attached and detached at will, destroyed when detached |
| `rpc_faults` | is everything right up to undefined behaviour, and is that met, where no transport is set, only by the application's own doing? | malformed documents, preprocessor, null handlers, no transport, destroyed at any time, nothing sent but answers |
| `http_stream` | does chunking matter, do messages get through, in order and at once? | all streams of 3 pieces, or of a header block and 2; all cuts; lengths up to `MaxInt` = 3 and one above it; framed streams of what is sent with and without a data handler, also with nested calls |
| `typed_response` | is each request answered once, do its actions run? | 2 requests, 2 objects, 2 actions, 4 nested frames |
| `typed_json` | is read what fits, is no error lost, is what is written the value, does it come back and settle? | the types of all 52 requests and 21 notifications, JSON with one thing changed in it, 4 writings |
| `lsp_session` | is each call handled by its own handler, or refused, and its sender told so? | 2 messages, 3 methods, ids of one bit and one given, 1 handler configured, 1 message spoiled |
| `rpc_drained_early`, `http_missing_length`, `http_space_ends_chunk`, `typed_json_completion`, `typed_json_hover` | the findings below | as above |

Why the bounds are enough: two documents suffice for every pair of loops to
nest, in both orders, and two ids suffice for one to be in use while the other
is not. An array of three elements has a first, a last and one between. Three
pieces of a stream suffice for every transition of the parser from every state,
and every position is a cut. With two objects a response can be moved on and
another one moved to its place. Two messages suffice for an id to be used while
it waits, and for messages of both ends to cross; the handler of a method can be
registered, taken away and replaced at any time between. One handler at a time
means that a null entry and an undispatched handler never meet in `lsp_session`,
and `rpc_faults` sends no batches of its own; with either, a run takes longer than
a check should. Larger instances of the same questions, these among them, are
what the proofs are for.

Every property has a mutant of the model, a plausible bug in a definition that
models code, under which TLC finds it violated.

### Fairness

- `rpc_server`: a loop goes on when user code has returned into it, and each
  handler answers in the end. The first is what a C++ loop does; the second is
  the obligation of users, discharged by `TypedResponse`.
- `http_stream`: a call of `receiveData` that has begun runs on. Nothing is
  assumed of the peer.
- `typed_response`: loops go on, handlers return, and the application destroys
  in the end what it keeps. Only the last one needs strong fairness, since an
  object may not be destroyed while a nested frame is in progress.
- `lsp_session`: data that has come in is read, and each request that a handler
  holds is answered in the end, if only because its response is destroyed. The
  application need not send, register or spoil anything.

### Findings

- `rpc_drained_early`: a handler that answers an element of a batch before it
  returns may bring the batch's counter to zero inside the loop. The batch
  object then deletes itself, and the loop goes on using it.
- `http_missing_length`: a header block with no valid `Content-Length` yields
  an empty body only if it ends its chunk.
- `http_space_ends_chunk`: a chunk that ends in the spaces before a header is
  read one byte past its end.
- `typed_json_completion`: a list accepts every value that is no array as an
  empty list, without an error. As the first alternative of the result of a
  completion request it hides the other two.
- `typed_json_hover`: the members of `StringAndLanguage` are `QString`, which
  `doWalk` takes for an unsupported kind of list.

Met while modelling, and stated by no document: the move assignment of
`TypedResponse` does not answer what it overwrites, though the destructor does;
`sendMessage` announces a body longer than `INT_MAX`, and the parser at the other
end refuses its length; the responder of a single
request sends to the transport of the moment, the one of a batch to the one the
batch came from; other variants lose alternatives like completion does
(`SemanticTokensDelta` is read as `SemanticTokens`, `DeleteFile` as
`CreateFile`, `{language, value}` as `MarkupContent`, and a
`TextDocumentSyncKind` as `TextDocumentSyncOptions`, because an object whose
members are all optional can be read from anything); a missing object is an
error without a message, which `decodeAndCall` takes for a success; null as the
result of a request is read as one of the alternatives before it when that one
insists on nothing (an empty list for most requests whose result is a list or null, a `WorkspaceEdit` with
nothing in it for a rename, a `Hover` with no contents); a method whose handler
was taken away with a null one can never get another.

Met while the data types were written down: server capabilities that are a
`variant` of a flag, options and registration options never hold the last
alternative, which the options before it hide, and so do the options of
semantic tokens; a `TextEdit` hides the `AnnotatedTextEdit` after it; the label
of a `ParameterInformation`, if it is a pair, is read as (0, 0) and not written
at all; the members of `Color` are integers, so a fraction is read as 0; a
`CodeActionKind` that is not known is read as the empty one, and a `TraceValue`
that has no name is written as an empty string; `extraFields` of
`FormattingOptions` are declared and not walked; `sendPartialResponse` sends
`$/progress` without the token that its receiver needs; the copy assignment of
`SelectionRange` keeps the old parent when the new range has none.

The passing runs that could meet these are kept away from them by a named
constant (`MayDrainEarly`, `MayDestroy`, `MayOverwrite`), by a condition in the property
(`fault`, `overread`), or not at all, and then the property says what still
holds.

## Proofs

Theorems hold for all values of the constants that satisfy the assumptions
named in the modules: any documents, ids, transports, objects, peers' methods,
streams, messages and cuts, and any bounds. Every invariant the runs check is a
theorem except those under "Only model-checked", and so are the initial states
and step relations of all three refinements.

| Theorem | Property of a run | Assumes also |
|---|---|---|
| `JsonRpcProtocolProofs!TypeCorrect` | `TypeOK` | |
| `JsonRpcProtocolProofs!HandlersCalledOnce` | `EachCallOnce` | |
| `JsonRpcBatchProofs!AnswersAreRight` | `RightAnswers` | |
| `JsonRpcBatchProofs!NoAnswerIsLost` | `AnswersConserved` | |
| `JsonRpcBatchProofs!BatchesAnsweredWhole` | `BatchAnsweredWhole` | `~MayDrainEarly` |
| `JsonRpcBatchProofs!PendingCounts` | `PendingCountsOpen` | `~MayDrainEarly` |
| `JsonRpcBatchProofs!NothingUsedAfterFree` | `NoUseAfterFree` | `~MayDrainEarly`, `MayDestroy # "ever"` |
| `JsonRpcBatchProofs!DetachingIsSafe` | `DetachedSafely` | |
| `JsonRpcClientProofs!RequestsAreSentOnce` | `AcceptedSentOnce` | |
| `JsonRpcClientProofs!ResponsesAreInOrder` | `ResponsesInOrder` | |
| `JsonRpcClientProofs!ExchangeImplemented` | `ImplementsExchange` | |
| `TypedResponseProofs!TypeCorrect` | `TypeOK` | |
| `TypedResponseProofs!OneAnswer` | `AnsweredOnce` | |
| `TypedResponseProofs!DutyIsHeld` | `HeldOrAnswered` | `~MayOverwrite` |
| `TypedResponseProofs!ClosersAreRun` | `ClosersRun` | `~MayMoveClosers` |
| `HttpStreamParserProofs!TypeCorrect` | `TypeOK` | |
| `HttpStreamParserProofs!TokensAreWhole` | `TokensStartAtData` | |
| `HttpStreamParserProofs!BodiesAreAsAnnounced` | `BodyAsLongAsAnnounced` | |
| `HttpChunkingProofs!ChunksDoNotMatter` | `ChunkingIrrelevant` | |
| `HttpChunkingProofs!MessagesAreDelivered` | `DeliversMessages` | |
| `HttpChunkingProofs!ChannelImplemented` | `ImplementsChannel` | |
| `LspSessionProofs!TypeCorrect` | `TypeOK` | |
| `LspSessionProofs!AnswersFindTheirCalls` | `AnswerFindsItsCall` | |
| `LspSessionProofs!NoCallIsLost` | `CallsAccounted` | |
| `LspSessionProofs!Refinement` | `ImplementsRemoteCalls` | |

The hypotheses in the last column are what an application must keep to. Without
`~MayDrainEarly` a batch is used after its end (`rpc_drained_early`); a protocol
that is destroyed while its requests are held is called after it; without
`~MayOverwrite` an assignment drops a duty, and without `~MayMoveClosers`
actions stay behind with the object.

**JsonRpcProtocolProofs.** That an entry of `m_pendingRequests` is taken out
once is not inductive by itself: the steps of a response loop read items from
the stack, and those are ids only if the loop's items are those of the document
it was entered with. The invariant `Inv` therefore contains the types of the
loops' frames and their tie to the documents received, and that every open
request is a request. It holds whether or not the object may be destroyed: the
entries that a destroyed map held are counted as still waiting.

**JsonRpcBatchProofs.** `BatchInv` adds what must be known of each document
(`DocOK`): its batch object, the requests that user code holds of it, the place
of the loop over it and the messages that answer it fit together. What is owed
is in one place, the pending counter is the number of held requests, an object
with held requests is alive, a sent message is complete and the object that
sent it is gone. None of these can be left out. That an answer is sent once
rests on the object being gone; that on the counter; the counter on each
element being read once, hence on there being one loop over a batch
(`LoopsOK`). `DetachedOK` ties the hook in the transport to the transport that
is set, which is what makes destruction after detaching safe, and what keeps a
document from being answered when there is no transport (`DetachedSafely`). A step touches
one document, so each proof of a step is one lemma about a document, its batch,
held requests, loop position and answers (the operators take them as
arguments), and one fact that all other documents keep theirs.

**JsonRpcClientProofs.** `SentInv`: a request is in the bodies of at most one
message on the wire or in one array under construction, nowhere twice, and only
if its call was accepted. It needs the arrays of the loops, because a handler
may send while `sendBatch` is building. `OrderInv`: a response array has one
loop at most, and what has been delivered of it is the elements before that
loop, in their order. A loop that is below others in the stack is there
although it does not move, so the invariant speaks of all frames.

That an endpoint implements `RpcExchange`: a step is classified by what it does to three
histories, the documents received, the requests sent and the wire. With
`BatchInv` a document has at most one message, so that counting them, as the
mapping does, is a test whether there is one; then each class is one step of
one document or of one call of `RpcExchange`, or a stutter. The theorem is
about the safety part, `Exchange!Spec`.

**TypedResponseProofs.** `Inv` has five parts. `DutyOK`: an object that is
Started holds a request that has arrived and is not answered, and no two
objects hold the same one. `Kept`: a request that has arrived is held or
answered. `StackOK`: an object that is being destroyed has no duty, and the
frame of its handler lies below the loop if it is a parameter; without it the
destructor of a parameter could leave a frame that belongs to somebody else,
and a request could arrive in an object about to vanish. `LoopsOK`: a loop over
actions stays inside the list it began with, or undefined behaviour has been
met; without it the action that is called need not exist. `Types`: the types. A
general lemma, `StackFrom`, says when a new stack is right; each shape of step
(push, pop one, pop two, next iteration) cites it.

`ClosersRun` needs an invariant of its own, `ClosersInv`: an action that has
not run is in the list of exactly one object, which has the request it was
added for; the actions of a list that have run are those the loop over it has
passed; an object with a loop is answered, has that answer, and has one loop,
over its whole list. It holds as long as no undefined behaviour has been met;
what has run by then was right (`RunsOK`: it was added for the request it ran
with and ran with the answer to it, or was added to an Invalid object), and that
stays true after it.

**HttpStreamParserProofs.** `ParserInv` holds between the moments at which a
token is taken: a call of `receiveData` that waits for the body handler it
called has nothing before its position (so the nested call may leave any state
behind), the header is empty from the end of its block on, and a buffered
packet has the bytes counted, fewer than announced. That `Scan` finds what it
looks for (its CHOOSE has a value) is a lemma from the well-foundedness of the
numbers. Nothing is assumed of the streams or of what handlers do.

**HttpStreamProofs, HttpChunkingProofs.** `ChunkingIrrelevant` compares two
machines that take a stream in different portions: the parser takes tokens, and
looks ahead for the end of a run of spaces, inside one chunk; the reader takes
bytes. At the end of a chunk they agree, but that is not inductive, because
inside a chunk they do not. `ReadInv` says that there is a reader that agrees
with the parser and that ends, given the rest of the chunk, as the reader of
all bytes handed in so far does. Each step of the parser then moves that reader
over the bytes the step takes. It rests on lemmas about the reader: reading may
stop and go on anywhere (`ReadOn`), and the effect of a run of bytes is known
without reading them one by one (`FieldRun`, `ValueRun`, `SpaceRun`, `BodyRun`
and the like). The reader is a recursive function over the length of a
sequence; that it exists, and every statement about all its values, is shown by
the least length for which it fails. Two disagreements inside a chunk are part
of the invariant: at the end of a header block with an empty body, or without a
length, the reader is one step ahead (`Finish`), and a call of `receiveData`
that ends a chunk at such a place ends the message after its loop (`EndOfData`).
The cases the property excludes are the ones where the code differs: a chunk
read past its end, and an unbuffered parser after a message without a length
(`Lost`).

`DeliversMessages` and `ImplementsChannel` compare the parser with the messages
a stream was framed from. That `Read` gives them back takes two facts about the
reader. From a place between two messages the bytes of a framed message lead it
to a place between two messages again, with one body more, none before the last
byte, and no complaint (`MessageRead`); by induction over the messages it has
the first n of them where the n-th ends (`AllHanded`). And a reader takes back
neither a complaint nor a body, whatever it reads (`ReadGrows`): since it ends
with all messages and no complaint, it has at every place before a prefix of
the messages and no complaint (`HandedSoFar`). `ReadInvariance` carries this to
the parser, wherever it is in a chunk (`QuietInv`). There one more invariant is
needed, `SizedInv`, for `ReadInv` promises nothing once a byte has been overread
and does not count bodies without a length: each of them comes with a complaint
in the step that would do it, and there are no complaints. `InTurn` follows, and
says all `MessageChannel!Deliver` asks; the messages written are the first ones
because a later message ends later (`EndsGrow`). Assumed of the numbers is only
that they are none of the other bytes, that each has a value and that there is a
largest `int`, and of the feeds what `Framed` says.

**LspSessionProofs.** `AnswerFindsItsCall` and `CallsAccounted` hold together
only: an entry of the map tells where its request is, and that it is in one
place is what makes an answer find it. `Inv` says of each message on its way
that it fits what its sender knows and has not had consequences (`WireOK`), of
calls on the wire that they are in the order of their numbers (`OrderOK`), of
each call that what became of it fits who took it, and that it waits exactly if
the map has it under its id (`CallsOK`, `PendingOK`), and that what has been
neither taken nor spoiled is on its way (`NothingLost`).

That a session implements `RemoteCalls`: each step changes one item of `RemoteCalls` by one
phase, or none. That a call is taken after all calls its sender made before it
follows from `OrderOK`.

`SessionAssumption` has two clauses the proofs need and the tables justify:
`Peers` is finite, and the shape a handler's result is read as is that of the
request's function, or there is none.

### Only model-checked

- Liveness, under fairness: `AnswersEveryDocument`, `EveryRequestAnswered`,
  `EveryChunkEnds`, `CallsComplete`, `NothingHeldBack`.
- `DeliversWhenNested`: `ReadInv` follows one call of `receiveData`. With nested
  calls the bytes are read in the order of the stack, and a proof has to follow
  what all the calls on it have left.
- The properties of `TypedJsonTrips`: the operators are recursive over types,
  which the prover cannot unfold.
- The properties of the findings, which the code violates.

## Plan

The modules were written in this order: the protocol core first, then what it
rests on (responses, the stream), then what rests on it (typed values, the
session). What is left:

1. A proof of `DeliversWhenNested`: `ReadInv` with the rests of all calls on
   the stack, the innermost first, of which each but the first is a sequence of
   whole messages.
2. `TypedJson`: tuples, `setExtraFields`, reading into an object that already
   has a value.
3. `LspSession`: the destruction of a handler that is running, when it
   registers a null handler for its own method.

## Not modelled

- `setExtraFields` and tuples in `QTypedJson`; reading into an object that
  already has a value: see the plan.
- The copy operations of `SelectionRange`; all other data types have default
  ones.
- What an application does inside a handler after it has destroyed it.
- `registerResponseErrorHandler`: its handler only reports.
- The destruction of a `QJsonRpcProtocol` by one of its own callbacks, which
  also destroys the handler that is running. Its move construction keeps the
  private object that everything refers to; a move assignment ends that of the
  target like the destructor.
- Threads: the classes are documented not to be thread-safe.
- Wording of messages, logging, and the JSON text itself.
- `generate.ts`, which runs when the library is developed, not with it.
