------------------------- MODULE MCJsonRpcProtocol -------------------------
(***************************************************************************)
(* The documents, the batches and the bounds with which TLC checks         *)
(* JsonRpcProtocol.  Each run takes the documents that its question needs. *)
(***************************************************************************)
EXTENDS JsonRpcProtocolProperties

CONSTANTS t1, t2, null, i1, bad, absent, m1, m2, badMethod, notObject

MCTransports == {t1, t2}
MCOneTransport == {t1}
MCDetaching == {t1, NoTransport}
MCOneMethod == {m1}
MCIds == {null, i1}
MCMethods == {m1, m2}

Obj(id, method) == [id |-> id, method |-> method]
Request1 == Obj(i1, m1)
Request2 == Obj(null, m1)
Unknown == Obj(i1, m2)
BadIdRequest == Obj(bad, m1)
BadMethodRequest == Obj(i1, badMethod)
Notify == Obj(absent, m1)
Response1 == Obj(i1, absent)
ResponseNull == Obj(null, absent)
ResponseBad == Obj(bad, absent)

One(item) == [type |-> "object", items |-> <<item>>]
Many(items) == [type |-> "array", items |-> items]
Garbage == [type |-> "error", items |-> <<>>]

\* Requests and notifications, alone and in arrays, with elements that get
\* an error: the answers are collected while other documents come in.
ServerDocs ==
  {One(Request1), Garbage, Many(<<Request1, Notify, Unknown>>),
   Many(<<notObject, Request2, Request1>>)}

\* Responses, expected or not, among requests.
PeerDocs ==
  {One(Response1), Many(<<ResponseNull, Response1>>),
   Many(<<Request1, Response1>>)}

\* What no well-behaved peer sends.
EdgeDocs ==
  {One(Request1), One(BadIdRequest), One(Obj(absent, absent)),
   One(ResponseBad), Many(<<>>), Many(<<Request1, Notify>>),
   Many(<<BadIdRequest, Response1, BadMethodRequest>>)}

BatchSet == {<<i1, absent, i1>>, <<bad, null>>}
=============================================================================
