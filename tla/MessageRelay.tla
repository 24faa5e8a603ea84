---------------------------- MODULE MessageRelay ----------------------------
(***************************************************************************)
(* The HTTP relay of the broker on one intercepted connection: read a      *)
(* request from the sandbox, send it to the provider, copy the answer back *)
(* piece by piece in the provider's own framing, and serve the next        *)
(* request only where the sandbox's parser can find its beginning.         *)
(*                                                                         *)
(* A stream is a sequence of tokens [t, n]: a status line, one framing     *)
(* header, the end of a head, a unit of payload, the size line of a chunk, *)
(* a delimiter, a trailer.  A stream that runs out is at its end of file   *)
(* when it has the token "eof", and silent otherwise.                      *)
(***************************************************************************)
EXTENDS Integers, Sequences, Functions

CONSTANTS
    Inputs,     \* what the sandbox may send on the connection
    Responses,  \* what a provider may send for one request
    Observed,   \* whether somebody watches the responses
    None

\* A response is a sequence of tokens that states its length at most once; a line
\* that follows the last chunk and is not blank is a trailer.
StreamToken == [t : STRING, n : Nat]
LastChunk == [t |-> "size", n |-> 0]
ASSUME RelayAssumption ==
    /\ Observed \in BOOLEAN /\ None \notin {"eof", "length", "chunked"}
    /\ \A r \in Responses :
         /\ r \in Seq(StreamToken)
         /\ \A i, j \in 1..Len(r) : r[i].t = "length" /\ r[j].t = "length" => i = j
         /\ \A i \in 1..(Len(r) - 1) : (r[i].t = "trailer" \/ r[i] = LastChunk)
                                          => r[i + 1].t \in {"crlf", "trailer", "eof"}

VARIABLES
    input,     \* what the broker has not yet read from the sandbox
    request,   \* the request being served
    phase,     \* "idle", "connect", "head", "body", "answered", "closed"
    from,      \* what the provider has yet to send
    framing,   \* how the body of the response ends: kind, units left, state
    parser,    \* where the sandbox's parser is in what it was sent
    observer,  \* "absent", "watching", "dropped", "ended"
    seen,      \* units of payload the observer was given
    decoded,   \* units of payload the sandbox decoded of this response
    answers,   \* final responses written, and requests read
    reads

relayVars == <<input, request, phase, from, framing, parser, observer, seen, decoded,
          answers, reads>>

Boundary == [at |-> "boundary", left |-> 0]
Complete == [kind |-> "length", left |-> 0, at |-> "size"]
NoFraming == [kind |-> None, left |-> 0, at |-> "size"]

RelayInit ==
    /\ input \in Inputs
    /\ request = None /\ phase = "idle" /\ from = <<>> /\ framing = NoFraming
    /\ parser = Boundary
    /\ observer = IF Observed THEN "watching" ELSE "absent"
    /\ seen = 0 /\ decoded = 0 /\ answers = 0 /\ reads = 0

-----------------------------------------------------------------------------
(* The parser of the sandbox, which sees only what was written.           *)

\* The lines of a head, in whatever order.
Has(head, t) == \E h \in head : h.t = t
LengthOf(head) == (CHOOSE h \in head : h.t = "length").n

CanHaveBody(status) ==
    ~(request.head \/ status \in 100..199 \/ status \in {204, 304})

\* A response head arrives where the parser expects one, or it breaks.
AfterHead(status, head) ==
    IF parser.at # "boundary" THEN [at |-> "broken", left |-> 0]
    ELSE IF ~CanHaveBody(status) THEN Boundary
    ELSE IF Has(head, "chunked") /\ Has(head, "length") THEN [at |-> "broken", left |-> 0]
    ELSE IF Has(head, "coded") THEN [at |-> "eof", left |-> 0]
    ELSE IF Has(head, "chunked") THEN [at |-> "size", left |-> 0]
    ELSE IF Has(head, "length")
    THEN IF LengthOf(head) = 0 THEN Boundary ELSE [at |-> "length", left |-> LengthOf(head)]
    ELSE [at |-> "eof", left |-> 0]

AfterUnit ==
    CASE parser.at = "length" ->
            IF parser.left = 1 THEN Boundary ELSE [parser EXCEPT !.left = @ - 1]
      [] parser.at = "data" ->
            IF parser.left = 1 THEN [at |-> "delimiter", left |-> 0] ELSE [parser EXCEPT !.left = @ - 1]
      [] parser.at = "eof" -> parser
      [] OTHER -> [at |-> "broken", left |-> 0]

AfterSize(n) ==
    IF parser.at # "size" THEN [at |-> "broken", left |-> 0]
    ELSE IF n = 0 THEN [at |-> "trailers", left |-> 0] ELSE [at |-> "data", left |-> n]

AfterLine(token) ==
    CASE parser.at = "delimiter" /\ token.t = "crlf" -> [at |-> "size", left |-> 0]
      [] parser.at = "trailers" /\ token.t = "crlf" -> Boundary
      [] parser.at = "trailers" /\ token.t = "trailer" -> parser
      [] OTHER -> [at |-> "broken", left |-> 0]

-----------------------------------------------------------------------------
(* Reading a request.                                                     *)

\* A head ends at its blank line, and also where the stream ends.
HeadLength(s) ==
    IF \E i \in DOMAIN s : s[i].t \in {"end", "eof"}
    THEN CHOOSE i \in DOMAIN s :
            s[i].t \in {"end", "eof"} /\ \A j \in 1..(i - 1) : s[j].t \notin {"end", "eof"}
    ELSE Len(s)

AfterTheHead(s) ==
    SubSeq(s, IF s[HeadLength(s)].t = "eof" THEN HeadLength(s) ELSE HeadLength(s) + 1, Len(s))

\* The units of a body sent in chunks, up to the last one; 0 when the framing
\* is broken or the stream ends first.
ChunkedLength(s) ==
    LET ends == {i \in DOMAIN s : s[i].t \notin {"unit"}} IN
    IF ends = {} THEN 0
    ELSE LET first == CHOOSE i \in ends : \A j \in ends : i <= j
         IN  IF s[first].t = "last" THEN first ELSE 0

\* How many tokens of what follows the head are its body, None when the
\* framing is refused: Transfer-Encoding decides before Content-Length.
_read_request_body(head, rest) ==
    IF Has(head, "coded") THEN None
    ELSE IF Has(head, "chunked")
    THEN IF ChunkedLength(rest) = 0 THEN None ELSE ChunkedLength(rest)
    ELSE IF Has(head, "badlength") THEN None
    ELSE IF ~Has(head, "length") THEN 0
    ELSE IF /\ LengthOf(head) <= Len(rest)
            /\ \A i \in 1..LengthOf(head) : rest[i].t # "eof"
    THEN LengthOf(head) ELSE None

\* The broker's own answers carry a length and close the connection.
Answers ==
    /\ parser' = IF parser.at = "boundary" THEN Boundary ELSE [at |-> "broken", left |-> 0]
    /\ answers' = answers + 1
    /\ phase' = "closed"

read_sandbox_request ==
    /\ phase = "idle" /\ input # <<>>
    /\ IF Head(input).t = "eof"
       THEN phase' = "closed" /\ UNCHANGED <<input, request, parser, answers, reads>>
       ELSE LET k == HeadLength(input)
                head == Range(SubSeq(input, 1, k))
                rest == AfterTheHead(input)
                body == _read_request_body(head, rest)
            IN  /\ reads' = reads + 1
                /\ request' = [head |-> Head(input).n = 1, whole |-> Has(head, "end"),
                               close |-> Has(head, "close")]
                /\ IF Head(input).t # "line" \/ body = None
                   THEN /\ Answers
                        /\ UNCHANGED input
                   ELSE /\ input' = SubSeq(rest, body + 1, Len(rest))
                        /\ phase' = "connect"
                        /\ UNCHANGED <<parser, answers>>
    /\ UNCHANGED <<from, framing, observer, seen, decoded>>

-----------------------------------------------------------------------------
(* Forwarding it.                                                         *)

\* The connection is refused before the provider: no credential, no credit.
Refuse ==
    /\ phase = "connect"
    /\ Answers
    /\ UNCHANGED <<input, request, from, framing, observer, seen, decoded, reads>>

Connect(response) ==
    /\ phase = "connect"
    /\ from' = response
    /\ phase' = "head"
    /\ framing' = NoFraming
    /\ observer' = IF Observed THEN "watching" ELSE "absent"
    /\ seen' = 0 /\ decoded' = 0
    /\ UNCHANGED <<input, request, parser, answers, reads>>

ConnectFails ==
    /\ phase = "connect"
    /\ Answers
    /\ UNCHANGED <<input, request, from, framing, observer, seen, decoded, reads>>

ResponseHead == Range(SubSeq(from, 1, HeadLength(from)))
Status == Head(from).n

ForwardedHead(head) ==
    IF Has(head, "chunked") \/ Has(head, "coded")
    THEN {h \in head : h.t # "length"} ELSE head

ResponseCanHaveBody(status) == CanHaveBody(status)

FramingOf(head) ==
    IF Has(head, "coded") THEN [NoFraming EXCEPT !.kind = "eof"]
    ELSE IF Has(head, "chunked") THEN [NoFraming EXCEPT !.kind = "chunked"]
    ELSE IF Has(head, "length") THEN [NoFraming EXCEPT !.kind = "length", !.left = LengthOf(head)]
    ELSE [NoFraming EXCEPT !.kind = "eof"]

HeadHasArrived == from # <<>> /\ (Has(Range(from), "end") \/ Has(Range(from), "eof"))

\* An interim response is passed on and the final one is awaited.
RelayInterim ==
    /\ phase = "head" /\ HeadHasArrived
    /\ Head(from).t = "status" /\ Status \in 100..199 /\ Status # 101
    /\ from' = AfterTheHead(from)
    /\ UNCHANGED <<input, request, phase, framing, parser, observer, seen, decoded, answers, reads>>

\* Not a status line, or a length that is not a number: nothing was written,
\* so the sandbox gets a 502.
RefuseHead ==
    /\ phase = "head" /\ HeadHasArrived
    /\ \/ Head(from).t # "status"
       \/ /\ Status \notin 100..199
          /\ CanHaveBody(Status) /\ Has(ResponseHead, "badlength")
          /\ ~Has(ResponseHead, "chunked") /\ ~Has(ResponseHead, "coded")
    /\ Answers
    /\ observer' = IF observer = "watching" THEN "ended" ELSE observer
    /\ from' = <<>>
    /\ UNCHANGED <<input, request, framing, seen, decoded, reads>>

\* The connection to the provider breaks before a final head was passed on.
HeadFails ==
    /\ phase = "head"
    /\ Answers
    /\ observer' = IF observer = "watching" THEN "ended" ELSE observer
    /\ UNCHANGED <<input, request, from, framing, seen, decoded, reads>>

RelayHead ==
    /\ phase = "head" /\ HeadHasArrived
    /\ Head(from).t = "status" /\ (Status \notin 100..199 \/ Status = 101)
    /\ ~(/\ CanHaveBody(Status) /\ Has(ResponseHead, "badlength")
         /\ ~Has(ResponseHead, "chunked") /\ ~Has(ResponseHead, "coded"))
    /\ parser' = AfterHead(Status, IF CanHaveBody(Status) THEN ForwardedHead(ResponseHead)
                                                          ELSE ResponseHead)
    /\ answers' = answers + 1
    /\ from' = AfterTheHead(from)
    /\ request' = [request EXCEPT !.close = @ \/ Status = 101 \/ Has(ResponseHead, "close")]
    /\ framing' = IF ResponseCanHaveBody(Status) THEN FramingOf(ResponseHead) ELSE NoFraming
    /\ phase' = IF ~ResponseCanHaveBody(Status) \/ FramingOf(ResponseHead) = Complete
                THEN "answered" ELSE "body"
    /\ UNCHANGED <<input, observer, seen, decoded, reads>>

-----------------------------------------------------------------------------
(* Relaying the body.                                                     *)

\* The body did not end where the sandbox can see it end.
StopsShort == phase' = "closed"

\* Bug: an error in the middle of a body is reported to the sandbox.
FailsWith502 ==
    /\ Answers

\* After the head an error only tears the connection down.
FailsSilently == phase' = "closed" /\ UNCHANGED <<parser, answers>>

Watched(units) == seen' = IF observer = "watching" THEN seen + units ELSE seen

WatchedSize == UNCHANGED seen

AfterToken == SubSeq(from, 2, Len(from))

RelayUnit ==
    /\ phase = "body" /\ from # <<>> /\ Head(from).t = "unit"
    /\ \/ framing.kind = "eof" /\ UNCHANGED framing
       \/ framing.kind = "length" /\ framing' = [framing EXCEPT !.left = @ - 1]
       \/ /\ framing.kind = "chunked" /\ framing.at = "data"
          /\ framing' = [framing EXCEPT !.left = @ - 1,
                                           !.at = IF framing.left = 1 THEN "delimiter" ELSE @]
    /\ from' = AfterToken
    /\ parser' = AfterUnit
    /\ decoded' = decoded + 1
    /\ Watched(1)
    /\ phase' = IF framing' = Complete THEN "answered" ELSE "body"
    /\ UNCHANGED <<input, request, observer, answers, reads>>

RelaySize ==
    /\ phase = "body" /\ framing.kind = "chunked" /\ framing.at = "size"
    /\ from # <<>> /\ Head(from).t # "eof"
    /\ from' = AfterToken
    /\ IF Head(from).t # "size"
       THEN StopsShort /\ UNCHANGED <<parser, framing, seen>>
       ELSE /\ parser' = AfterSize(Head(from).n)
            /\ framing' = [framing EXCEPT
                              !.at = IF Head(from).n = 0 THEN "trailers" ELSE "data",
                              !.left = Head(from).n]
            /\ WatchedSize
            /\ UNCHANGED phase
    /\ UNCHANGED <<input, request, observer, decoded, answers, reads>>

\* What stands after a chunk is written before it is looked at.
RelayDelimiter ==
    /\ phase = "body" /\ framing.kind = "chunked" /\ framing.at = "delimiter"
    /\ from # <<>> /\ Head(from).t # "eof"
    /\ from' = AfterToken
    /\ parser' = AfterLine(Head(from))
    /\ framing' = [framing EXCEPT !.at = "size"]
    /\ IF Head(from).t = "crlf" THEN UNCHANGED phase ELSE StopsShort
    /\ UNCHANGED <<input, request, observer, seen, decoded, answers, reads>>

RelayTrailer ==
    /\ phase = "body" /\ framing.kind = "chunked" /\ framing.at = "trailers"
    /\ from # <<>> /\ Head(from).t # "eof"
    /\ from' = AfterToken
    /\ parser' = AfterLine(Head(from))
    /\ phase' = IF Head(from).t = "crlf" THEN "answered" ELSE "body"
    /\ UNCHANGED <<input, request, framing, observer, seen, decoded, answers, reads>>

\* The provider closes: the end of a body that says so, or a short one.
ProviderCloses ==
    /\ phase = "body" /\ from # <<>> /\ Head(from).t = "eof"
    /\ StopsShort
    /\ UNCHANGED <<input, request, from, framing, parser, observer, seen, decoded, answers, reads>>

\* The connection to the provider breaks in the middle of a body.
ProviderFails ==
    /\ phase = "body"
    /\ FailsSilently
    /\ UNCHANGED <<input, request, from, framing, observer, seen, decoded, reads>>

\* A callback of the observer raises: it is dropped for this response.
ObserverRaises ==
    /\ phase = "body" /\ observer = "watching"
    /\ observer' = "dropped"
    /\ UNCHANGED <<input, request, phase, from, framing, parser, seen, decoded, answers, reads>>

\* The exchange is over: the next request, or the end of the connection.
Served ==
    /\ phase = "answered"
    /\ phase' = IF request.close THEN "closed" ELSE "idle"
    /\ observer' = IF observer = "watching" THEN "ended" ELSE observer
    /\ from' = <<>> /\ framing' = NoFraming
    /\ UNCHANGED <<input, request, parser, seen, decoded, answers, reads>>

BrokerStep ==
    \/ read_sandbox_request
    \/ RelayInterim \/ RefuseHead \/ RelayHead
    \/ RelayUnit \/ RelaySize \/ RelayDelimiter \/ RelayTrailer
    \/ ProviderCloses \/ Served

RelayNext ==
    \/ BrokerStep
    \/ Refuse \/ ConnectFails
    \/ \E r \in Responses : Connect(r)
    \/ HeadFails \/ ProviderFails
    \/ ObserverRaises

\* The broker reads what is there, and a connection attempt ends.
RelayFairness ==
    /\ WF_relayVars(BrokerStep)
    /\ WF_relayVars(ConnectFails \/ \E r \in Responses : Connect(r))

RelaySpec == RelayInit /\ [][RelayNext]_relayVars
FairRelaySpec == RelaySpec /\ RelayFairness

-----------------------------------------------------------------------------
RelayTypeOK ==
    /\ phase \in {"idle", "connect", "head", "body", "answered", "closed"}
    /\ parser.at \in {"boundary", "length", "size", "data", "delimiter", "trailers", "eof", "broken"}
    /\ framing.kind \in {None, "eof", "length", "chunked"}
    /\ observer \in {"absent", "watching", "dropped", "ended"}
    /\ phase = "body" => framing.kind # None

\* "an injected 502 mid-body is silent corruption": a response, the broker's
\* own errors included, begins only where the sandbox expects one, and the
\* next request is read only when the parser is between messages.
ResponsesStartAtABoundary ==
    /\ answers <= reads
    /\ phase \in {"idle", "connect", "head", "answered"} => parser.at = "boundary"

\* A response and what the parser holds of it agree about where its body
\* ends, however the provider framed it: the sandbox and the broker count the
\* same units.
FramingIsShared ==
    phase = "body" /\ framing.kind # "eof" =>
        \/ /\ framing.kind = "length"
           /\ framing.left > 0 /\ parser = [at |-> "length", left |-> framing.left]
        \/ /\ framing.kind = "chunked" /\ parser.at = framing.at
           /\ framing.at = "data" => parser.left = framing.left

\* "truncation is detectable from the framing": a body that stopped short left
\* the parser of the sandbox waiting for the rest.
TruncationIsDetectable ==
    phase = "closed" /\ framing.kind \in {"length", "chunked"} => parser.at # "boundary"

\* An observer that is still there was given every unit of payload the
\* sandbox got, and nothing of the framing.
ObserverSeesThePayload == observer \in {"watching", "ended"} => seen = decoded

\* A request and the next one do not share tokens: what is left to read
\* begins with a request line.
RequestsAreTakenWhole ==
    phase \in {"idle", "connect", "head", "body", "answered"} /\ input # <<>> =>
        Head(input).t \in {"line", "badline", "eof"}

\* Chunk framing a parser would reject is not passed on.
NoBrokenFraming == parser.at # "broken"

\* Only a request that was sent to its end is served: phase "connect" and
\* later.
OnlyWholeRequests ==
    phase \in {"connect", "head", "body"} => request.whole

\* Whatever the framing and wherever it breaks, the sandbox, the broker and the
\* observer agree on where a message ends.
FramesAgree ==
    /\ RelayTypeOK /\ ResponsesStartAtABoundary /\ FramingIsShared
    /\ TruncationIsDetectable /\ ObserverSeesThePayload

\* Every request is answered to its end, or the connection is closed.
ExchangesEnd == (phase # "idle") ~> (phase \in {"idle", "closed"})
=============================================================================
