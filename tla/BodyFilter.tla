------------------------------ MODULE BodyFilter ------------------------------
(***************************************************************************)
(* The WASM filter that prints request bodies: read_request_body of        *)
(* golang_wasm_filters, and the same handler in Istio's wasm plugin.  The  *)
(* body comes in pieces; the filter adds up the sizes it is told, pauses   *)
(* until the stream ends, and then asks the host for that many bytes.  The *)
(* host may tell it the size of the piece, or of all that is buffered (as  *)
(* Envoy does, by the log in the README); the code must do with either.    *)
(***************************************************************************)
EXTENDS Integers, FiniteSets

CONSTANTS
    Requests,
    MaxBody,      \* bound: bytes of a body
    BufferLimit,  \* bytes Envoy buffers for a request before it refuses it
    MaxHostFaults, \* bound: GetHttpRequestBody that fail
    Nothing       \* nothing logged

ASSUME BodyAssumption ==
    /\ IsFiniteSet(Requests)
    /\ {MaxBody, BufferLimit, MaxHostFaults} \subseteq Nat
    /\ Nothing \notin Int

VARIABLES
    tells,     \* what the host passes as bodySize
    body,      \* the bytes each client has to send
    trailers,  \* 1 when trailers come after them
    stream,    \* how far each request is
    arrived,   \* bytes of it that have arrived
    totalRequestBodySize,
    logged,    \* bytes of it the filter has printed
    passed,    \* bytes of it sent on to the service
    hostFaults
bodyVars == <<tells, body, trailers, stream, arrived, totalRequestBodySize, logged,
              passed, hostFaults>>

BodyTypeOK ==
    /\ tells \in {"piece", "all"}
    /\ body \in [Requests -> 0..MaxBody]
    /\ trailers \in [Requests -> {0, 1}]
    /\ stream \in [Requests -> {"new", "open", "paused", "gone", "refused"}]
    /\ arrived \in [Requests -> 0..MaxBody]
    /\ totalRequestBodySize \in [Requests -> Nat]
    /\ logged \in [Requests -> 0..MaxBody \cup {Nothing}]
    /\ passed \in [Requests -> 0..MaxBody]
    /\ hostFaults \in 0..MaxHostFaults

BodyInit ==
    /\ tells \in {"piece", "all"}
    /\ body \in [Requests -> 0..MaxBody]
    /\ trailers \in [Requests -> {0, 1}]
    /\ stream = [q \in Requests |-> "new"]
    /\ arrived = [q \in Requests |-> 0]
    /\ totalRequestBodySize = [q \in Requests |-> 0]
    /\ logged = [q \in Requests |-> Nothing]
    /\ passed = [q \in Requests |-> 0]
    /\ hostFaults = 0

LeastOf(a, b) == IF a < b THEN a ELSE b

-----------------------------------------------------------------------------
(* A new httpContext; a request may have nothing but headers.              *)
OnHttpRequestHeaders(q) ==
    /\ stream[q] = "new"
    /\ \/ stream' = [stream EXCEPT ![q] = "open"]
       \/ /\ body[q] = 0 /\ trailers[q] = 0
          /\ stream' = [stream EXCEPT ![q] = "gone"]
    /\ UNCHANGED <<tells, body, trailers, arrived, totalRequestBodySize, logged,
                   passed, hostFaults>>

Receiving(q) == stream[q] \in {"open", "paused"}
Buffered(q, piece) == arrived[q] + piece

(* Mutant: the sum is replaced by the size of the last piece.              *)
AddUpLast(q, size) == size

AddUp(q, size) == totalRequestBodySize[q] + size

(* A piece arrives, perhaps an empty one, and the handler is told of it.   *)
BodyArrives(q, piece) ==
    /\ Receiving(q)
    /\ piece \in 0..(body[q] - arrived[q])
    /\ arrived' = [arrived EXCEPT ![q] = @ + piece]
    /\ totalRequestBodySize' = [totalRequestBodySize EXCEPT ![q] =
          AddUp(q, IF tells = "piece" THEN piece ELSE Buffered(q, piece))]

(* endOfStream is not set: ActionPause.                                    *)
MoreToCome(q, piece) ==
    /\ BodyArrives(q, piece)
    /\ piece > 0 /\ Buffered(q, piece) <= BufferLimit
    /\ stream' = [stream EXCEPT ![q] = "paused"]
    /\ UNCHANGED <<tells, body, trailers, logged, passed, hostFaults>>

EndOfStream(q) ==
    LET piece == body[q] - arrived[q] IN
    /\ trailers[q] = 0
    /\ BodyArrives(q, piece)
    /\ passed' = [passed EXCEPT ![q] = body[q]]
    /\ UNCHANGED <<tells, body, trailers>>

(* endOfStream: GetHttpRequestBody(0, total) gives what is buffered, total *)
(* bytes at most; then ActionContinue.                                     *)
BodyRead(q) ==
    /\ EndOfStream(q)
    /\ logged' = [logged EXCEPT ![q] = LeastOf(totalRequestBodySize'[q], body[q])]
    /\ stream' = [stream EXCEPT ![q] = "gone"]
    /\ UNCHANGED hostFaults

(* Mutant: a filter that could not read the body holds the request.        *)
BodyUnreadPauses(q) ==
    /\ EndOfStream(q)
    /\ hostFaults < MaxHostFaults
    /\ hostFaults' = hostFaults + 1
    /\ stream' = [stream EXCEPT ![q] = "held"]
    /\ UNCHANGED logged

(* The error is logged, and ActionContinue all the same.                   *)
BodyUnread(q) ==
    /\ EndOfStream(q)
    /\ hostFaults < MaxHostFaults
    /\ hostFaults' = hostFaults + 1
    /\ stream' = [stream EXCEPT ![q] = "gone"]
    /\ UNCHANGED logged

(* Trailers end the stream after a piece without endOfStream; the default  *)
(* handler lets them, and the buffered body, pass.                         *)
OnHttpRequestTrailers(q) ==
    /\ Receiving(q)
    /\ trailers[q] = 1 /\ arrived[q] = body[q]
    /\ stream' = [stream EXCEPT ![q] = "gone"]
    /\ passed' = [passed EXCEPT ![q] = body[q]]
    /\ UNCHANGED <<tells, body, trailers, arrived, totalRequestBodySize, logged, hostFaults>>

Refuse(q) ==
    /\ Receiving(q)
    /\ stream' = [stream EXCEPT ![q] = "refused"]
    /\ UNCHANGED <<tells, body, trailers, arrived, totalRequestBodySize, logged, passed,
                   hostFaults>>

(* Envoy answers 413 when a paused filter makes it buffer too much.        *)
Overflows(q) == body[q] > BufferLimit /\ Refuse(q)

ClientLeaves(q) == Refuse(q)

Arrives(q) ==
    \/ \E piece \in 1..MaxBody : MoreToCome(q, piece)
    \/ BodyRead(q) \/ BodyUnread(q) \/ OnHttpRequestTrailers(q) \/ Overflows(q)

BodyNext == \E q \in Requests : OnHttpRequestHeaders(q) \/ Arrives(q) \/ ClientLeaves(q)

-----------------------------------------------------------------------------
(* However the body is cut, and whichever size the host tells, the filter  *)
(* prints all of it or nothing, the service gets all of it or nothing, and *)
(* nothing is printed that it does not get.  A request leaves with its     *)
(* body unprinted only after trailers or a failed call of the host.        *)
BodyAccounted ==
    /\ \A q \in Requests : /\ logged[q] \in {body[q], Nothing}
                           /\ passed[q] \in {body[q], 0}
                           /\ logged[q] # Nothing => passed[q] = body[q]
    /\ Cardinality({q \in Requests : /\ stream[q] = "gone" /\ logged[q] = Nothing
                                     /\ body[q] > 0 /\ trailers[q] = 0}) <= hostFaults

(* No request is held for good: as long as its client sends, it leaves for *)
(* the service or is refused.                                              *)
NoRequestHeld ==
    \A q \in Requests : stream[q] \in {"open", "paused"} ~> stream[q] \in {"gone", "refused"}
=============================================================================
