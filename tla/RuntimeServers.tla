--------------------------- MODULE RuntimeServers ---------------------------
(***************************************************************************)
(* The three listeners of a runtime and the requests they serve at once:   *)
(* the Runtime API (runtimeApiHost.ts, runtimeRpc.ts), the OTLP receiver   *)
(* (receiver/index.ts) and MCP (mcp-server, transports/http.ts and         *)
(* server.ts), up to the close of the runtime.  A request is a shape: good, *)
(* or wrong in the one way it names.  Its client may go away at any time,  *)
(* which its handler does not notice.                                      *)
(***************************************************************************)
EXTENDS Naturals, Sequences, FiniteSets, SequencesExt

CONSTANTS
    Requests,       \* requests that may be in flight
    MaxRpc,         \* maxConcurrentRpc
    MaxStreams,     \* maxSseClients
    MaxExports,     \* maxPendingExports
    MaxServed       \* bound: requests that arrive before the close

ASSUME ServersAssumption ==
    /\ IsFiniteSet(Requests)
    /\ {MaxRpc, MaxStreams, MaxExports, MaxServed} \subseteq Nat

VARIABLES
    request,    \* each request: where it is, what it is, its calls and replies, its client gone
    activeRpc,  \* activeRpc of the API
    exports,    \* pendingExports of the receiver
    pressure,   \* overloaded exports counted since the receiver started
    closing,    \* the stage of close()
    served      \* requests that have arrived

serverVars == <<request, activeRpc, exports, pressure, closing, served>>

Listeners == {"rpc", "events", "otlp", "mcp"}
Stages == <<"open", "api", "receiver", "mcp", "engine", "closed">>
Past(stage) == \E i, j \in DOMAIN Stages : Stages[i] = stage /\ Stages[j] = closing /\ i < j

\* A listener accepts requests until its stage of close() has begun.
Accepting(to) ==
    CASE to \in {"rpc", "events"} -> closing = "open"
      [] to = "otlp" -> closing \in {"open", "api"}
      [] to = "mcp" -> closing \in {"open", "api", "receiver"}

\* What is wrong with a request before its body counts, in the order of the checks.
Flaws(to) ==
    CASE to = "rpc" -> <<"host", "origin", "method", "token", "media">>
      [] to = "events" -> <<"host", "origin", "method", "token">>
      [] to = "otlp" -> <<"host", "origin", "media">>
      [] to = "mcp" -> <<"host", "origin", "media", "token">>

Refusal(flaw) ==
    CASE flaw = "host" -> 400 [] flaw = "origin" -> 403 [] flaw = "method" -> 405
      [] flaw = "token" -> 401 [] flaw = "media" -> 415

\* Bodies: one call or a batch; each call has an id or is a notification.
CallKinds == {"good", "unknown", "fails", "malformed"}
Calls == [kind : CallKinds, id : BOOLEAN]
Call(kind) == [kind |-> kind, id |-> TRUE]
GoodCall == Call("good")
Only(kind) == <<Call(kind)>>
Batches == {<<c>> : c \in Calls} \cup
           {<<c, GoodCall>> : c \in {[kind |-> "good", id |-> FALSE], Call("fails"), Call("malformed")}}
Bodies(to) ==
    CASE to = "rpc" -> Batches \cup {Only("large"), Only("unparsable"), Only("empty")}
      [] to = "events" -> {<<>>}
      [] to = "otlp" -> {Only("good"), Only("fails"), Only("large"), Only("unparsable")}
      [] to = "mcp" -> {<<c>> : c \in Calls} \cup {Only("large"), Only("unparsable")}

\* runtimeRpc handle: nothing is said to a notification, except that it is no request.
RpcReply(call) ==
    CASE call.kind = "malformed" -> <<"invalid-request">>
      [] call.kind # "malformed" /\ ~call.id -> <<>>
      [] call.kind = "good" /\ call.id -> <<"result">>
      [] call.kind = "unknown" /\ call.id -> <<"method-not-found">>
      [] call.kind = "fails" /\ call.id -> <<"internal-error">>

\* mcp-server handle: only what fails is silent to a notification.
McpReply(call) ==
    CASE call.kind = "good" -> <<"result">>
      [] call.kind \in {"unknown", "fails"} /\ ~call.id -> <<>>
      [] call.kind = "unknown" /\ call.id -> <<"method-not-found">>
      [] call.kind = "fails" /\ call.id -> <<"internal-error">>
      [] call.kind = "malformed" -> <<"invalid-request">>

Fresh(to, body, at, status) ==
    [at |-> at, to |-> to, body |-> body, left |-> body, replies |-> <<>>, status |-> status,
     gone |-> FALSE]
NoRequest == Fresh("rpc", <<>>, "none", 0)

ServerInit ==
    /\ request = [r \in Requests |-> NoRequest]
    /\ activeRpc = 0 /\ exports = 0 /\ pressure = 0
    /\ closing = "open"
    /\ served = 0

Busy(to) == {r \in Requests : request[r].to = to /\ request[r].at \in {"reading", "handling"}}
Streams == {r \in Requests : request[r].at = "streaming"}
\* Requests whose connection is open: what the close() of a server waits for.
Connected(to) == {r \in Busy(to) : ~request[r].gone}

Answer(r, status) == request' = [request EXCEPT ![r].at = "answered", ![r].status = status]
\* The finally of the API route.
FreeSlot(r) == activeRpc' = IF request[r].to = "rpc" THEN activeRpc - 1 ELSE activeRpc

-----------------------------------------------------------------------------
(* A request arrives.  The API takes its slot before it reads the body, the *)
(* receiver after it has decoded it.                                        *)

Full(to) ==
    \/ to = "rpc" /\ activeRpc >= MaxRpc
    \/ to = "events" /\ Cardinality(Streams) >= MaxStreams

TurnAway(r, to) ==
    /\ \/ \E flaw \in ToSet(Flaws(to)) :
            request' = [request EXCEPT ![r] = Fresh(to, <<>>, "answered", Refusal(flaw))]
       \/ Full(to) /\ request' = [request EXCEPT ![r] = Fresh(to, <<>>, "answered", 503)]
    /\ UNCHANGED activeRpc

LetIn(r, to, body) ==
    /\ ~Full(to)
    /\ request' = [request EXCEPT ![r] =
           Fresh(to, body, IF to = "events" THEN "streaming" ELSE "reading", 0)]
    /\ activeRpc' = IF to = "rpc" THEN activeRpc + 1 ELSE activeRpc

Free == {r \in Requests : request[r].at \in {"none", "answered"}}

\* Which free place it takes makes no difference.
Arrive(r) ==
    /\ r \in Free /\ r = CHOOSE q \in Free : TRUE
    /\ served < MaxServed
    /\ served' = served + 1
    /\ \E to \in Listeners :
         /\ Accepting(to)
         /\ TurnAway(r, to) \/ \E body \in Bodies(to) : LetIn(r, to, body)
    /\ UNCHANGED <<exports, pressure, closing>>

\* A body that ends its request before it is looked at: over the limit, or
\* not to be parsed; an empty batch is refused by the API alike.
Unread(body) == body \in {Only("large"), Only("unparsable"), Only("empty")}
Overloaded(r) == request[r].to = "otlp" /\ exports >= MaxExports
NoRpcCall(r) == request[r].to = "mcp" /\ request[r].body[1].kind = "malformed"

\* What the API cannot parse is answered by a JSON-RPC error, elsewhere by 400.
ReadBody(r) ==
    /\ request[r].at = "reading"
    /\ \/ /\ Unread(request[r].body)
          /\ Answer(r, IF request[r].body = Only("large") THEN 413
                       ELSE IF request[r].to = "rpc" THEN 200 ELSE 400)
          /\ FreeSlot(r)
          /\ UNCHANGED <<exports, pressure>>
       \/ /\ ~Unread(request[r].body) /\ Overloaded(r)
          /\ Answer(r, 503)
          /\ pressure' = pressure + 1
          /\ UNCHANGED <<exports, activeRpc>>
       \/ /\ ~Unread(request[r].body) /\ NoRpcCall(r)
          /\ Answer(r, 400)
          /\ UNCHANGED <<exports, pressure, activeRpc>>
       \/ /\ ~Unread(request[r].body) /\ ~Overloaded(r) /\ ~NoRpcCall(r)
          /\ request' = [request EXCEPT ![r].at = "handling"]
          /\ exports' = IF request[r].to = "otlp" THEN exports + 1 ELSE exports
          /\ UNCHANGED <<pressure, activeRpc>>
    /\ UNCHANGED <<closing, served>>

\* A call to an engine that is closed, or being closed, may fail.
Outcomes(call) == {call} \cup (IF Past("mcp") /\ call.kind = "good" THEN {[call EXCEPT !.kind = "fails"]} ELSE {})

\* The next call of the body, awaited before the one after it.
HandleCall(r) ==
    /\ request[r].at = "handling" /\ request[r].left # <<>>
    /\ \E call \in Outcomes(Head(request[r].left)) :
       request' = [request EXCEPT
           ![r].left = Tail(@),
           ![r].replies = @ \o (CASE request[r].to = "rpc" -> RpcReply(call)
                                  [] request[r].to = "mcp" -> McpReply(call)
                                  [] request[r].to = "otlp" ->
                                       IF call.kind = "fails" THEN <<"internal-error">> ELSE <<"result">>)]
    /\ UNCHANGED <<activeRpc, exports, pressure, closing, served>>

\* 204 when there is nothing to say; 500 for an export that could not be written.
\* A response of the API over the byte limit is replaced as a whole by one error.
\* What is said to a client that has gone is lost.
Respond(r) ==
    /\ request[r].at = "handling" /\ request[r].left = <<>>
    /\ \/ /\ ~request[r].gone
          /\ Answer(r, CASE request[r].replies = <<>> -> 204
                        [] request[r].to = "otlp" /\ request[r].replies = <<"internal-error">> -> 500
                        [] OTHER -> 200)
       \/ /\ ~request[r].gone /\ request[r].to = "rpc" /\ request[r].replies # <<>>
          /\ request' = [request EXCEPT ![r].at = "answered", ![r].status = 200,
                                        ![r].replies = <<"response-too-large">>]
       \/ request[r].gone /\ request' = [request EXCEPT ![r] = NoRequest]
    /\ FreeSlot(r)
    /\ exports' = IF request[r].to = "otlp" THEN exports - 1 ELSE exports
    /\ UNCHANGED <<pressure, closing, served>>

\* The slot is given back only after an answer.
AbortKeepsSlot(r) ==
    /\ request[r].at = "reading"
    /\ Answer(r, 500)
    /\ UNCHANGED <<activeRpc, exports, pressure, closing, served>>

\* The client goes away before it has sent its body.  Until the listener is
\* closed Node also ends a request whose body takes too long (requestTimeout):
\* close() stops the timer that would.
Abort(r) ==
    /\ request[r].at = "reading"
    /\ Answer(r, 500)
    /\ FreeSlot(r)
    /\ UNCHANGED <<exports, pressure, closing, served>>

\* The client goes away while its request is handled: the calls that are left
\* are made, for nobody.
HangUp(r) ==
    /\ request[r].at = "handling" /\ ~request[r].gone
    /\ request' = [request EXCEPT ![r].gone = TRUE]
    /\ UNCHANGED <<activeRpc, exports, pressure, closing, served>>

\* A stream ends: the client closes it, or reads too slowly.
EndStream(r) ==
    /\ request[r].at = "streaming"
    /\ Answer(r, 200)
    /\ UNCHANGED <<activeRpc, exports, pressure, closing, served>>

-----------------------------------------------------------------------------
(* close(): each listener refuses new connections and waits for those that  *)
(* are open, not for the handlers whose client has gone; the API destroys   *)
(* its streams first.                                                       *)

\* A mutant of BeginClose: the streams are not destroyed.
BeginCloseOnStreams ==
    /\ closing = "open"
    /\ closing' = "api"
    /\ UNCHANGED <<request, activeRpc, exports, pressure, served>>

BeginClose ==
    /\ closing = "open"
    /\ closing' = "api"
    /\ request' = [r \in Requests |->
          IF r \in Streams THEN [request[r] EXCEPT !.at = "answered", !.status = 200] ELSE request[r]]
    /\ UNCHANGED <<activeRpc, exports, pressure, served>>

\* MCP requests in progress are not waited for.
StopNextHastily ==
    /\ \/ closing = "api" /\ Connected("rpc") = {} /\ Streams = {} /\ closing' = "receiver"
       \/ closing = "receiver" /\ Connected("otlp") = {} /\ closing' = "mcp"
       \/ closing = "mcp" /\ closing' = "engine"
       \/ closing = "engine" /\ closing' = "closed"
    /\ UNCHANGED <<request, activeRpc, exports, pressure, served>>

StopNext ==
    /\ \/ closing = "api" /\ Connected("rpc") = {} /\ Streams = {} /\ closing' = "receiver"
       \/ closing = "receiver" /\ Connected("otlp") = {} /\ closing' = "mcp"
       \/ closing = "mcp" /\ Connected("mcp") = {} /\ closing' = "engine"
       \/ closing = "engine" /\ closing' = "closed"
    /\ UNCHANGED <<request, activeRpc, exports, pressure, served>>

\* The runtime's own part, and that of the clients.
Handle(r) == HandleCall(r) \/ Respond(r)
Serve(r) == ReadBody(r) \/ Handle(r)
GoAway(r) == Abort(r) \/ HangUp(r) \/ EndStream(r)
ServerNext == BeginClose \/ StopNext \/ \E r \in Requests : Arrive(r) \/ Serve(r) \/ GoAway(r)

-----------------------------------------------------------------------------
(* However requests interleave, fail or are abandoned, the slots in use are *)
(* those of the requests being worked on, no more than allowed, and every   *)
(* refused export has been counted.                                         *)
SlotsExact ==
    /\ activeRpc = Cardinality(Busy("rpc")) /\ activeRpc <= MaxRpc
    /\ exports = Cardinality({r \in Busy("otlp") : request[r].at = "handling"}) /\ exports <= MaxExports
    /\ Cardinality(Streams) <= MaxStreams
    /\ pressure >= Cardinality({r \in Requests :
           request[r].at = "answered" /\ request[r].to = "otlp" /\ request[r].status = 503})

(* When close() comes to the engine every client that has stayed has its    *)
(* answer, on all three listeners: whoever may still call the engine then   *)
(* is the handler of a request whose client has gone.                       *)
Drained ==
    Past("mcp") =>
        \A r \in Requests : request[r].at \in {"reading", "handling", "streaming"} =>
            request[r].at = "handling" /\ request[r].gone
=============================================================================
