--------------------------- MODULE TypedResponse ---------------------------
(***************************************************************************)
(* TypedResponse (src/jsonrpc/qjsontypedrpc_p.h): an object that stands    *)
(* for the duty to answer one request.  TypedRpc creates one for each      *)
(* request and moves it into the parameter of the request's handler, which *)
(* may answer it, leave it to its destructor, or move it into an object of *)
(* the application to be answered later.                                   *)
(*                                                                         *)
(* An answer runs the on-close actions of the object one by one, and they  *)
(* are user code again: it may answer, move or destroy objects, or run an  *)
(* event loop in which other requests arrive.  The handlers and the loops  *)
(* over actions that are in progress are on an explicit stack.             *)
(***************************************************************************)
EXTENDS Integers, Sequences

CONSTANTS
  Requests,       \* the requests a peer may send
  Slots,          \* TypedResponse objects of the application
  Actions,        \* on-close actions, each added to one response at most
  NoRequest,      \* the id of an object that never had one
  RpcAction,      \* an on-close action is installed in the TypedRpc
  MayOverwrite,   \* the application may assign over an unanswered response
  MayMoveClosers, \* or move responses that have on-close actions, also
                  \* while they are being run
  MaxDepth        \* bound: handlers and loops in progress

\* The parameter of a request's handler is an object too.
Objects == Requests \cup Slots
Sent == {"SentSuccess", "SentError"}
Status == {"Started", "Invalid"} \cup Sent
Faults == {"none", "listModified", "useAfterFree", "assertion", "nullRpc"}

ASSUME TypedResponseAssumption ==
  /\ Requests \cap Slots = {}
  /\ NoRequest \notin Requests
  /\ RpcAction \in BOOLEAN
  /\ MayOverwrite \in BOOLEAN /\ MayMoveClosers \in BOOLEAN
  /\ MaxDepth \in Nat

VARIABLES
  status,  \* m_status of each object; "Invalid" if there is none
  request, \* m_id and m_responseHandler of each object
  closers, \* m_onCloseActions of each object
  stack,   \* what is in progress, the innermost first
  fault,   \* the undefined behaviour or assertion user code has run into
  arrived, \* history: the requests received
  answers, \* history: calls of responders, <<request, status>>
  added,   \* history: the request each action was added for, if to a response
           \* that has one to answer or has answered it
  ran      \* history: calls of on-close actions

objectVars == <<status, request, closers>>
historyVars == <<arrived, answers, added, ran>>
vars == <<objectVars, stack, fault, historyVars>>

---------------------------------------------------------------------------
\* The stack.  A handler frame is left when its parameter is destroyed.  A
\* close frame first calls the action of the TypedRpc (next is 0), then those
\* of the object, up to the length of the list at that moment; dying says that
\* the object is destroyed afterwards.

HandlerFrame(n) == [kind |-> "handler", of |-> n, next |-> 0, last |-> 0,
                    dying |-> FALSE]
CloseFrame(o, dying) == [kind |-> "close", of |-> o, next |-> 0, last |-> 0,
                         dying |-> dying]
Top == Head(stack)
Push(f) == stack' = <<f>> \o stack
Pop == stack' = Tail(stack)
InClose == fault = "none" /\ stack # <<>> /\ Top.kind = "close"

\* An object whose doOnCloseActions is in progress below depth d, and one
\* whose list of actions is being iterated there.
ClosingBelow(o, d) ==
  \E i \in (d + 1)..Len(stack) : stack[i].kind = "close" /\ stack[i].of = o
IteratingBelow(o, d) ==
  \E i \in (d + 1)..Len(stack) : /\ stack[i].kind = "close" /\ stack[i].of = o
                                 /\ stack[i].last > 0

HasClosers(o) == closers[o] # <<>> \/ ClosingBelow(o, 0)

\* The objects user code may touch: the parameter of the innermost handler and
\* those of the application, except while their destructor runs.
Frames(kind) == {i \in 1..Len(stack) : stack[i].kind = kind}
Dying == {stack[i].of : i \in {j \in Frames("close") : stack[j].dying}}
Parameter == {stack[i].of : i \in {j \in Frames("handler") :
                                     \A k \in Frames("handler") : j <= k}}
Reachable == (Slots \cup Parameter) \ Dying

\* User code runs in the event loop, in a handler, and in an on-close action.
InUser ==
  /\ fault = "none"
  /\ InClose => Top.next > 1 \/ (Top.next = 0 /\ RpcAction)
HasRoom == Len(stack) < MaxDepth

---------------------------------------------------------------------------
\* Answering.

\* Mutant: the status stays Started.
MutantAnswer(o, s, dying) ==
  /\ answers' = Append(answers, <<request[o], s>>)
  /\ Push(CloseFrame(o, dying))
  /\ UNCHANGED <<status, request, closers, arrived, added, ran>>

\* The status changes before the responder is called, and that before the
\* actions of the object.
Answer(o, s, dying) ==
  /\ status' = [status EXCEPT ![o] = s]
  /\ answers' = Append(answers, <<request[o], s>>)
  /\ Push(CloseFrame(o, dying))
  /\ UNCHANGED <<request, closers, arrived, added, ran>>

\* sendSuccessfullResponse, sendErrorResponse.  On an object that is not
\* Started they only warn.
Send(o, s) ==
  /\ InUser /\ HasRoom
  /\ o \in Reachable /\ status[o] = "Started"
  /\ Answer(o, s, FALSE)
  /\ UNCHANGED fault

\* Mutant: one action too many.
MutantBeginClosers ==
  /\ InClose /\ Top.next = 0
  /\ stack' = <<[Top EXCEPT !.next = 1, !.last = Len(closers[Top.of]) + 1]>>
                \o Tail(stack)
  /\ UNCHANGED <<objectVars, fault, historyVars>>

\* doOnCloseActions has called the TypedRpc's action and begins its loop.
BeginClosers ==
  /\ InClose /\ Top.next = 0
  /\ stack' = <<[Top EXCEPT !.next = 1, !.last = Len(closers[Top.of])]>>
                \o Tail(stack)
  /\ UNCHANGED <<objectVars, fault, historyVars>>

\* Mutant: the loop stops before the last action.
MutantMore == Top.next < Top.last
More == Top.next <= Top.last

\* An action is called with the status and the id that the object has by now.
Invoke(o, a) == ran' = Append(ran, [action |-> a, for |-> request[o],
                                    status |-> status[o]])
RunsOf(a) == {i \in 1..Len(ran) : ran[i].action = a}

\* The next action.
RunCloser ==
  /\ InClose /\ Top.next > 0 /\ More
  /\ stack' = <<[Top EXCEPT !.next = @ + 1]>> \o Tail(stack)
  /\ Invoke(Top.of, closers[Top.of][Top.next])
  /\ UNCHANGED <<objectVars, fault, arrived, answers, added>>

\* The end of an object: it is Invalid, and has no actions, until it is
\* created again.
Gone(o) ==
  /\ status' = [status EXCEPT ![o] = "Invalid"]
  /\ request' = [request EXCEPT ![o] = NoRequest]
  /\ closers' = [closers EXCEPT ![o] = <<>>]

\* Leaving a handler ends its frame too, which is then the next one.
EndOfLife == IF Top.of \in Requests THEN stack' = Tail(Tail(stack)) ELSE Pop

\* The list is cleared, also under an outer loop over it.
EndClose ==
  /\ InClose /\ Top.next > 0 /\ ~More
  /\ IF Top.dying
     THEN Gone(Top.of) /\ EndOfLife
     ELSE /\ closers' = [closers EXCEPT ![Top.of] = <<>>]
          /\ Pop
          /\ UNCHANGED <<status, request>>
  /\ fault' = IF IteratingBelow(Top.of, 1) THEN "listModified" ELSE fault
  /\ UNCHANGED historyVars

\* addOnCloseAction: kept while Started, called at once when sent.
AddOrRun(o, a) ==
  /\ added' = [added EXCEPT ![a] = request[o]]
  /\ IF status[o] = "Started"
     THEN /\ closers' = [closers EXCEPT ![o] = Append(@, a)]
          /\ fault' = IF IteratingBelow(o, 0) THEN "listModified"
                      ELSE fault
          /\ UNCHANGED ran
     ELSE Invoke(o, a) /\ UNCHANGED <<closers, fault>>

\* On an Invalid object a build with assertions stops; another one calls the
\* action, with the TypedRpc of the object: only one that was moved from, and
\* so has an id, has one.
RunInvalid(o, a) ==
  /\ \/ fault' = "assertion" /\ UNCHANGED ran
     \/ request[o] # NoRequest /\ Invoke(o, a) /\ UNCHANGED fault
     \/ request[o] = NoRequest /\ fault' = "nullRpc" /\ UNCHANGED ran
  /\ UNCHANGED <<closers, added>>

AddOnCloseAction(o, a) ==
  /\ InUser
  /\ o \in Reachable
  /\ added[a] = NoRequest /\ RunsOf(a) = {}
  /\ IF status[o] = "Invalid" THEN RunInvalid(o, a) ELSE AddOrRun(o, a)
  /\ UNCHANGED <<status, request, stack, arrived, answers>>

---------------------------------------------------------------------------
\* Objects come, move and go.

\* Mutant: the source stays Started.
MutantMovedFrom == "Started"
MovedFrom == "Invalid"

\* registerRequestHandler's lambda makes a response for the request and moves
\* it into the handler's parameter.
Receive(n) ==
  /\ InUser /\ HasRoom
  /\ n \notin arrived
  /\ arrived' = arrived \cup {n}
  /\ status' = [status EXCEPT ![n] = "Started"]
  /\ request' = [request EXCEPT ![n] = n]
  /\ Push(HandlerFrame(n))
  /\ UNCHANGED <<closers, fault, answers, added, ran>>

\* The move assignment.  It takes everything but the actions: those of the
\* target stay with it, those of the source too.
Move(from, to) ==
  /\ InUser
  /\ from \in Reachable /\ to \in Slots \ Dying /\ from # to
  /\ MayOverwrite \/ status[to] # "Started"
  /\ MayMoveClosers \/ \A o \in {from, to} : ~HasClosers(o)
  /\ status' = [status EXCEPT ![to] = status[from], ![from] = MovedFrom]
  /\ request' = [request EXCEPT ![to] = request[from]]
  /\ UNCHANGED <<closers, stack, fault, historyVars>>

\* Mutant: the destructor does not answer.
MutantDestroy(o) ==
  /\ Gone(o)
  /\ IF o \in Requests THEN Pop ELSE UNCHANGED stack
  /\ UNCHANGED <<historyVars, fault>>

\* The destructor answers a response that is still Started with an error.
Destroy(o) ==
  /\ IF status[o] = "Started"
     THEN Answer(o, "SentError", TRUE)
     ELSE /\ Gone(o)
          /\ IF o \in Requests THEN Pop ELSE UNCHANGED stack
          /\ UNCHANGED historyVars
  /\ fault' = IF ClosingBelow(o, 0) THEN "useAfterFree" ELSE fault

\* A handler returns and its parameter is destroyed.
Return ==
  /\ InUser /\ stack # <<>> /\ Top.kind = "handler"
  /\ Destroy(Top.of)

\* The application destroys an object of its own.
Drop(o) ==
  /\ InUser /\ HasRoom
  /\ o \in Slots \ Dying /\ status[o] # "Invalid"
  /\ Destroy(o)

Init ==
  /\ status = [o \in Objects |-> "Invalid"]
  /\ request = [o \in Objects |-> NoRequest]
  /\ closers = [o \in Objects |-> <<>>]
  /\ stack = <<>> /\ fault = "none"
  /\ arrived = {} /\ answers = <<>>
  /\ added = [a \in Actions |-> NoRequest]
  /\ ran = <<>>

Loop == BeginClosers \/ RunCloser \/ EndClose

Next ==
  \/ Loop \/ Return
  \/ \E n \in Requests : Receive(n)
  \/ \E o \in Objects : \/ \E s \in Sent : Send(o, s)
                        \/ \E a \in Actions : AddOnCloseAction(o, a)
                        \/ \E to \in Slots : Move(o, to)
  \/ \E o \in Slots : Drop(o)

Spec == Init /\ [][Next]_vars

\* Loops run on, handlers return, and the application destroys in the end
\* what it keeps.
Fairness ==
  /\ WF_vars(Loop) /\ WF_vars(Return)
  /\ \A o \in Slots : SF_vars(Drop(o))
FairSpec == Spec /\ Fairness

---------------------------------------------------------------------------
\* Properties.

\* Every variable has its type, and a loop over actions stays inside its list
\* as long as nothing has changed the list under it.
TypeOK ==
  /\ status \in [Objects -> Status]
  /\ request \in [Objects -> Requests \cup {NoRequest}]
  /\ closers \in [Objects -> Seq(Actions)]
  /\ stack \in Seq([kind : {"handler", "close"}, of : Objects, next : Nat,
                    last : Nat, dying : BOOLEAN])
  /\ fault \in Faults
  /\ arrived \subseteq Requests
  /\ answers \in Seq(Requests \X Sent)
  /\ added \in [Actions -> Requests \cup {NoRequest}]
  /\ ran \in Seq([action : Actions, for : Requests \cup {NoRequest},
                  status : Status])
  /\ fault = "none" => \A i \in Frames("close") :
       /\ stack[i].next <= stack[i].last + 1
       /\ stack[i].last <= Len(closers[stack[i].of])

Holders(n) == {o \in Objects : status[o] = "Started" /\ request[o] = n}
AnswersTo(n) == {i \in 1..Len(answers) : answers[i][1] = n}

\* The responder of a request is called at most once, however its response is
\* moved, answered again, destroyed, or handled inside its own on-close
\* actions: this is what QJsonRpcProtocol relies on.
AnsweredOnce ==
  \A n \in Requests : \A i, j \in AnswersTo(n) : i = j

\* A request that has been received is answered, or exactly one object still
\* has the duty to answer it.
HeldOrAnswered ==
  \A n \in arrived :
    IF AnswersTo(n) = {} THEN \E o \in Objects : Holders(n) = {o}
                         ELSE Holders(n) = {}

\* An on-close action is called at most once, for the request it was added
\* for, with the status of the answer, and it has been called when the loop
\* that the answer began is over.  This needs MayMoveClosers to be FALSE: a
\* move leaves the actions behind with the object, and they are then called
\* for whatever it holds when its loop runs.
ClosersRun ==
  \A a \in Actions : \A n \in Requests : added[a] = n =>
    /\ \A i \in RunsOf(a) :
         /\ \A j \in RunsOf(a) : i = j
         /\ ran[i].for = n
         /\ \E k \in AnswersTo(n) : answers[k][2] = ran[i].status
    /\ fault = "none" /\ AnswersTo(n) # {} /\ stack = <<>> => RunsOf(a) # {}

\* Every request received is answered, by the application or, when it drops
\* the response, by the destructor.
EveryRequestAnswered ==
  \A n \in Requests :
    n \in arrived ~> (AnswersTo(n) # {} \/ fault # "none")
=============================================================================
