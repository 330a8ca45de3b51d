------------------------------ MODULE HttpClient ------------------------------
(***************************************************************************)
(* One request of the HTTP client (esphttpclient/httpclient.c), from       *)
(* http_request to the end of its connection. Everything the request owns  *)
(* is on the heap and is passed along in the callbacks of the SDK and of a *)
(* timer; whoever is last frees it.                                        *)
(*                                                                         *)
(* A response is a sequence of tokens: the version with the status, a      *)
(* header, the empty line, bytes of the body, and, when the body is        *)
(* chunked, sizes and line ends. The server sends it in segments of any    *)
(* length and closes where it likes. An access to freed memory or to       *)
(* address zero ends the behaviour: nothing is known of what follows.      *)
(* USE_SECURE is not defined in this repository.                           *)
(***************************************************************************)
EXTENDS Integers, SequencesExt

CONSTANTS
  Parts,          \* the parts a body is made of: sequences of one or two bytes
  MaxParts,       \* bound of the model: parts of a body
  BufferMax       \* BUFFER_SIZE_MAX, the terminator counted

ASSUME ClientAssumption ==
  /\ \A p \in Parts : p \in Seq(ToSet(p)) /\ Len(p) \in 1 .. 2
  /\ MaxParts \in Nat /\ BufferMax \in Nat \ {0}

VARIABLES
  request,     \* what was asked for: [secure, body]
  response,    \* what the server answers: [version, chunked, parts]
  delivered,   \* the tokens of it that were delivered
  heap,        \* of every block whether its pointer is NULL, live or dangling
  sdk,         \* what the SDK is doing for the request
  timer,       \* timeout_timer is armed
  buffer,      \* req->buffer without its terminator
  discarded,   \* a segment did not fit
  sentCbs,     \* sent callbacks to come
  sent,        \* what was sent to the server
  told,        \* the calls of user_callback
  timedOut,    \* the timeout ended the request
  fault        \* "none", or what memory was touched: "freed" or "null"

clientVars == <<request, response, delivered, heap, sdk, timer, buffer, discarded, sentCbs, sent, told,
          timedOut, fault>>

\* names stands for hostname and path, conn for the espconn and its tcp.
Blocks == {"req", "names", "headers", "post", "buffer", "conn"}

Requests == [secure : BOOLEAN, body : BOOLEAN]
Responses == [version : BOOLEAN, chunked : BOOLEAN, parts : BoundedSeq(Parts, MaxParts)]

Size(n) == CASE n = 0 -> "0" [] n = 1 -> "1" [] OTHER -> "2"
Number(token) == CASE token = "1" -> 1 [] token = "2" -> 2 [] OTHER -> 0

\* What goes over the wire.
ChunkOf(part) == <<Size(Len(part)), "nl">> \o part \o <<"nl">>
BodyOf(r) ==
  IF r.chunked THEN FlattenSeq([n \in 1 .. Len(r.parts) |-> ChunkOf(r.parts[n])]) \o <<"0", "nl", "nl">>
  ELSE FlattenSeq(r.parts)
Wire(r) ==
  <<IF r.version THEN "version" ELSE "other">> \o <<IF r.chunked THEN "chunked" ELSE "header">>
    \o <<"empty line">> \o BodyOf(r)

ClientTypeOK ==
  /\ request \in Requests
  /\ delivered \in Nat
  /\ heap \in [Blocks -> {"null", "live", "freed"}]
  /\ sdk \in {"idle", "resolving", "unasked", "connecting", "connected", "closing", "gone"}
  /\ timer \in BOOLEAN /\ discarded \in BOOLEAN /\ timedOut \in BOOLEAN
  /\ fault \in {"none", "freed", "null"}

ClientStart ==
  /\ request = [secure |-> FALSE, body |-> FALSE]
  /\ delivered = 0
  /\ heap = [b \in Blocks |-> "null"]
  /\ sdk = "idle"
  /\ timer = FALSE
  /\ buffer = <<>> /\ discarded = FALSE
  /\ sentCbs = 0 /\ sent = <<>>
  /\ told = <<>>
  /\ timedOut = FALSE /\ fault = "none"

ClientInit == response \in Responses /\ ClientStart
----------------------------------------------------------------------------
\* free(NULL) does nothing; the pointer to a block that is freed dangles.
Freed(h, blocks) == [b \in Blocks |-> IF b \in blocks /\ h[b] = "live" THEN "freed" ELSE h[b]]
OfRequest == {"req", "names", "headers", "post", "buffer"}

Answer(status, body, size) == [status |-> status, body |-> body, size |-> size]
Error == Answer("error", <<>>, 0)

\* A callback gets the espconn, and the request from it.
Dangling == heap["conn"] = "freed"
Touch ==
  /\ fault' = "freed"
  /\ UNCHANGED <<request, response, delivered, heap, sdk, timer, buffer, discarded, sentCbs, sent,
                 told, timedOut>>

\* Mutant of DnsFailed: nobody is told.
DnsFailedUntold(h) ==
  /\ told' = told
  /\ heap' = Freed(h, {"req"})
  /\ sdk' = "gone"
  /\ timer' = timer

\* The host is not found: of the request only the struct is freed.
DnsFailed(h) ==
  /\ told' = Append(told, Error)
  /\ heap' = Freed(h, {"req"})
  /\ sdk' = "gone"
  /\ timer' = timer

\* Mutant of DnsFound: the timeout is not armed.
DnsFoundNoTimer(h, r) ==
  /\ heap' = [h EXCEPT !["conn"] = "live"]
  /\ sdk' = IF r.secure THEN "unasked" ELSE "connecting"
  /\ timer' = timer /\ told' = told

\* The host is found; a secure request arms its timeout, but never asks for a connection.
DnsFound(h, r) ==
  /\ heap' = [h EXCEPT !["conn"] = "live"]
  /\ sdk' = IF r.secure THEN "unasked" ELSE "connecting"
  /\ timer' = TRUE /\ told' = told

DnsCallback(h, r) == DnsFound(h, r) \/ DnsFailed(h)

\* A request with or without headers and a body; its host may be known already.
HttpRequest ==
  /\ sdk = "idle"
  /\ request' \in Requests
  /\ \E headers \in BOOLEAN :
       LET null == (IF headers THEN {} ELSE {"headers"})
                     \cup (IF request'.body THEN {} ELSE {"post"}) \cup {"conn"}
           h == [b \in Blocks |-> IF b \in null THEN "null" ELSE "live"]
       IN  \/ heap' = h /\ sdk' = "resolving" /\ UNCHANGED <<timer, told>>
           \/ DnsCallback(h, request')
  /\ UNCHANGED <<response, delivered, buffer, discarded, sentCbs, sent, timedOut, fault>>

Resolved ==
  /\ sdk = "resolving"
  /\ DnsCallback(heap, request)
  /\ UNCHANGED <<request, response, delivered, buffer, discarded, sentCbs, sent, timedOut, fault>>

\* The head goes out; it announces the body that follows.
ConnectCallback ==
  /\ sdk = "connecting"
  /\ IF Dangling THEN Touch
     ELSE /\ sent' = <<IF heap["post"] = "live" THEN "head with length" ELSE "head">>
          /\ sentCbs' = 1
          /\ heap' = [heap EXCEPT !["headers"] = "null"]
          /\ sdk' = "connected"
          /\ UNCHANGED <<request, response, delivered, timer, buffer, discarded, told, timedOut,
                         fault>>

\* The head was sent, the body is next; or all is sent.
SentCallback ==
  /\ sentCbs > 0
  /\ IF Dangling THEN Touch
     ELSE /\ IF heap["post"] # "null"
             THEN /\ sent' = Append(sent, "body") /\ sentCbs' = sentCbs
                  /\ heap' = [heap EXCEPT !["post"] = "null"]
             ELSE sentCbs' = sentCbs - 1 /\ UNCHANGED <<sent, heap>>
          /\ UNCHANGED <<request, response, delivered, sdk, timer, buffer, discarded, told,
                         timedOut, fault>>

Segment(n) == SubSeq(Wire(response), delivered + 1, delivered + n)

\* The segment fits and there is memory for it.
Keep(segment) ==
  /\ Len(buffer) + 1 + Len(segment) <= BufferMax
  /\ buffer' = buffer \o segment
  /\ UNCHANGED <<sdk, discarded>>

\* It does not: the string is made empty, its size stays, and the connection is closed. Bound of the
\* model: malloc fails once.
Discard(segment) ==
  /\ discarded => Len(buffer) + 1 + Len(segment) > BufferMax
  /\ buffer' = IF buffer = <<>> THEN buffer ELSE [buffer EXCEPT ![1] = "nul"]
  /\ discarded' = TRUE
  /\ sdk' = "closing"

\* A segment of the response; segments may still come when a disconnect was asked for.
ReceiveCallback ==
  /\ sdk \in {"connected", "closing"}
  /\ \E n \in 1 .. Len(Wire(response)) - delivered :
       IF Dangling THEN Touch
       ELSE /\ Keep(Segment(n)) \/ Discard(Segment(n))
            /\ delivered' = delivered + n
            /\ UNCHANGED <<request, response, heap, timer, sentCbs, sent, told, timedOut, fault>>
----------------------------------------------------------------------------
(***************************************************************************)
(* What a response is decoded to.                                          *)
(***************************************************************************)

Has(tokens, token) == \E n \in 1 .. Len(tokens) : tokens[n] = token
From(tokens, n) == SubSeq(tokens, n, Len(tokens))
First(tokens, token) == SelectInSeq(tokens, LAMBDA t : t = token)

\* n bytes behind position p, unknown ones where the buffer has no more.
Moved(tokens, p, n) == [k \in 1 .. n |-> IF p + k <= Len(tokens) THEN tokens[p + k] ELSE "?"]

\* The loop of chunked_decode, from token p on; strtol skips the ends of lines.
ChunkedDecode(tokens) ==
  LET decode[p \in 1 .. Len(tokens) + 4] ==
        LET nothing == [body |-> <<>>, null |-> FALSE]
            n == Number(tokens[p])
        IN  IF p > Len(tokens) THEN nothing
            ELSE IF tokens[p] = "nl" THEN decode[p + 1]
            ELSE IF n = 0 THEN nothing
            ELSE IF p = Len(tokens) THEN [body |-> <<>>, null |-> TRUE]
            ELSE LET rest == decode[p + 1 + n + 1 + 1]
                 IN  [rest EXCEPT !.body = Moved(tokens, p + 1, n) \o @]
  IN  decode[1]

\* Mutant of Decoded: the body is taken as it came.
DecodedPlain(tokens) ==
  LET end == First(tokens, "empty line")
      body == From(tokens, end + 1)
  IN  IF tokens = <<>> \/ tokens[1] # "version" THEN [answer |-> Error, null |-> FALSE]
      ELSE IF end = 0 THEN [answer |-> Error, null |-> TRUE]
      ELSE [answer |-> Answer("status", body, Len(body) + 1), null |-> FALSE]

\* The answer to the user. Without an empty line the end of the headers is looked for in vain, and a
\* zero is written at NULL + 2. The size of a plain body counts the terminator.
Decoded(tokens) ==
  LET end == First(tokens, "empty line")
      body == From(tokens, end + 1)
      chunks == ChunkedDecode(body)
  IN  IF tokens = <<>> \/ tokens[1] # "version" THEN [answer |-> Error, null |-> FALSE]
      ELSE IF end = 0 THEN [answer |-> Error, null |-> TRUE]
      ELSE IF ~Has(SubSeq(tokens, 1, end), "chunked")
      THEN [answer |-> Answer("status", body, Len(body) + 1), null |-> FALSE]
      ELSE [answer |-> Answer("status", chunks.body, Len(chunks.body)), null |-> chunks.null]
----------------------------------------------------------------------------
\* Mutant of DisconnectCallback: the timer stays armed.
DisconnectCallbackTimerOn ==
  /\ sdk \in {"connecting", "connected", "closing"}
  /\ IF Dangling THEN Touch
     ELSE LET d == Decoded(buffer)
          IN  /\ timer' = timer
              /\ IF d.null THEN fault' = "null" /\ UNCHANGED <<told, heap, sdk, sentCbs>>
                 ELSE /\ told' = Append(told, d.answer)
                      /\ heap' = Freed(heap, Blocks)
                      /\ sdk' = "gone" /\ sentCbs' = 0 /\ fault' = fault
              /\ UNCHANGED <<request, response, delivered, buffer, discarded, sent, timedOut>>

\* The connection is closed, by either side, or failed (error_callback): the user is told, the
\* request and the espconn are freed.
DisconnectCallback ==
  /\ sdk \in {"connecting", "connected", "closing"}
  /\ IF Dangling THEN Touch
     ELSE LET d == Decoded(buffer)
          IN  /\ timer' = FALSE
              /\ IF d.null THEN fault' = "null" /\ UNCHANGED <<told, heap, sdk, sentCbs>>
                 ELSE /\ told' = Append(told, d.answer)
                      /\ heap' = Freed(heap, Blocks)
                      /\ sdk' = "gone" /\ sentCbs' = 0 /\ fault' = fault
              /\ UNCHANGED <<request, response, delivered, buffer, discarded, sent, timedOut>>

\* Ten seconds after the address was found. Everything is freed, and the SDK, asked to disconnect,
\* still has the espconn.
TimeoutCallback ==
  /\ timer
  /\ IF Dangling THEN Touch
     ELSE /\ timer' = FALSE
          /\ timedOut' = TRUE
          /\ heap' = Freed(heap, Blocks)
          /\ sdk' = CASE sdk = "unasked" -> "gone" [] sdk = "connected" -> "closing" [] OTHER -> sdk
          /\ UNCHANGED <<request, response, delivered, buffer, discarded, sentCbs, sent, told, fault>>

ClientStep ==
  \/ HttpRequest \/ Resolved
  \/ ConnectCallback \/ SentCallback \/ ReceiveCallback
  \/ DisconnectCallback \/ TimeoutCallback

ClientNext == fault = "none" /\ ClientStep

ClientSpec == ClientInit /\ [][ClientNext]_clientVars

\* The SDK answers a question for an address, and a timer that is armed is due in the end.
ClientFairness ==
  /\ WF_clientVars(Resolved /\ fault = "none")
  /\ WF_clientVars(TimeoutCallback /\ fault = "none")

ClientFairSpec == ClientSpec /\ ClientFairness
----------------------------------------------------------------------------
Over == heap["req"] = "freed"

\* The user is told how a request ended once, by the DNS callback or by the disconnect callback,
\* and never of a timeout, which is all that keeps the callback from him.
ToldOnceUnlessTimedOut == Over => Len(told) = IF timedOut THEN 0 ELSE 1

\* The callbacks find freed memory only when the timeout came before the SDK was done with the
\* connection; and what a request holds is freed when it ends, but not after its host was not found.
MemoryAccounted ==
  /\ fault = "freed" => timedOut
  /\ Over /\ heap["conn"] # "null" => \A b \in Blocks : heap[b] # "live"

\* A complete response of which no segment was refused is decoded without a null pointer, and the
\* user gets the body that the server meant, however it was cut into segments.
ToldWhatWasMeant ==
  delivered = Len(Wire(response)) /\ ~discarded =>
    /\ fault # "null"
    /\ \A n \in 1 .. Len(told) :
         told[n].status = "status" => told[n].body = FlattenSeq(response.parts)

\* Every request ends, with an answer or without; or the program has touched memory it must not.
RequestEnds == sdk = "resolving" ~> (Over \/ fault # "none")
=============================================================================
