------------------------------ MODULE HttpdConn ------------------------------
(***************************************************************************)
(* One connection of the web server, from httpdConnectCb to httpdDisconCb: *)
(* the request parser's state, the dispatch to a CGI function, the send    *)
(* buffer, the backlog and the packets the SDK holds                       *)
(* (libesphttpd/core/httpd.c over httpd-nonos.c).                          *)
(*                                                                         *)
(* The SDK calls one callback at a time. httpdRecvCb handles a segment     *)
(* byte by byte with one send buffer and one final flush. While recv is    *)
(* not "idle" its loop is running and no other callback runs: RecvHead and *)
(* RecvByte take the next input, HeadComplete and BodyChunk are the rest   *)
(* of the iteration that completed a head or filled the post buffer, and   *)
(* RecvEnd is the final flush.                                             *)
(*                                                                         *)
(* Data is abstracted to what the server tells apart. A request head is    *)
(* one event; a body is counted in bytes, MaxPost of them to a buffer; one *)
(* item stands for whatever a CGI function writes in one call, so lengths  *)
(* of buffers and packets are counted in items.                            *)
(***************************************************************************)
EXTENDS Integers, Sequences, SequencesExt

CONSTANTS
  MaxPost,      \* MAX_POST, the size of a post buffer
  MaxSend,      \* MAX_SENDBUFF_LEN
  MaxBacklog,   \* MAX_BACKLOG_SIZE
  SdkDepth,     \* packets the SDK holds before it refuses another one
  MayRunShort,  \* memory may become short, so that allocations fail
  SilentChunks, \* a page may have a chunk that comes to nothing in its middle
  Requests,     \* the requests the client makes
  Pipelined,    \* those it may send before it has the response to the last one
  MaxReq,       \* bound of the model: requests on this connection
  MaxCalls      \* bound of the model: calls of a CGI function for one response

\* oneshot: answers in its first call (most CGIs, redirects, the built-in 404).
\* list:    cgiWiFiScan, cgiReadFlash; every call writes something.
\* page:    cgiEspFsTemplate; headers first, then a chunk of the file in each call,
\*          of which nothing is written when it is empty, lies inside of a token
\*          or is all tokens that stand for nothing.
\* file:    serveStaticFile; headers first, then pieces of the file until a read
\*          comes back short, possibly with nothing at all. A client that does not
\*          accept gzip may get a message instead, without headers.
\* upload:  cgiUploadFirmware; consumes the body, answers when it is complete. It finds
\*          the memory for its state here (Upload has the other case).
\* cors:    an OPTIONS request, answered by httpdProcessRequest itself.
CgiKinds == {"oneshot", "list", "page", "file", "upload"}

Request == [keep : BOOLEAN, len : Nat, kind : CgiKinds \cup {"cors"}]

ASSUME ConnAssumption ==
  /\ MaxPost \in Nat \ {0}
  /\ MaxSend \in Nat \ {0}
  /\ MaxBacklog \in Nat
  /\ SdkDepth \in Nat \ {0}
  /\ MayRunShort \in BOOLEAN
  /\ SilentChunks \in BOOLEAN
  /\ MaxReq \in Nat
  /\ MaxCalls \in Nat
  /\ Requests \subseteq Request
  /\ Pipelined \subseteq Requests

VARIABLES
  link,         \* "down", "up", or "closing" once espconn_disconnect was called
  recv,         \* where httpdRecvCb is: "idle", "loop", "head", "body"
  post,         \* conn->post; len < 0 while headers are received
  stray,        \* the header buffer holds bytes that are no start of a request
  cur,          \* the request parsed last: its number, and what conn->url leads
                \* to ("unknown" when it is NULL)
  flags,        \* HFL_CHUNKED, HFL_SENDINGBODY, HFL_DISCONAFTERSENT
  cgi,          \* conn->cgi, or "none"
  calls,        \* calls made of conn->cgi; cgiData is set once this is not 0
  sendBuff,     \* priv->sendBuff, empty outside of a callback
  backlog,      \* priv->sendBacklog, a sequence of packets
  backlogSize,  \* priv->sendBacklogSize
  inflight,     \* the SDK's packets: accepted, sentcb still to come
  short,        \* memory is short: an allocation in the SDK or here may fail
  client,       \* requests begun, body bytes still to come, may it go on at once
  held,         \* history: running CGI functions that hold resources
  eaten,        \* history: bytes of the body the running CGI function was given
  answers,      \* history: requests finished by httpdCgiIsDone
  wire          \* history: items the SDK accepted, in order

cgiVars == <<cgi, calls, held, eaten>>
sendVars == <<sendBuff, backlog, backlogSize, inflight, wire>>
vars == <<link, recv, post, stray, cur, flags, short, client, answers, cgiVars, sendVars>>

\* What a CGI function writes in one call, or the terminator of a chunked response.
Item == [req : Nat, call : Nat, end : BOOLEAN]
Packet == Seq(Item)
Post == [len : Int, buffSize : Nat, buffLen : Nat, received : Nat]
Flags == [chunked : BOOLEAN, body : BOOLEAN, discon : BOOLEAN]

TypeOK ==
  /\ link \in {"down", "up", "closing"}
  /\ recv \in {"idle", "loop", "head", "body"}
  /\ post \in Post
  /\ stray \in BOOLEAN
  /\ cur \in [num : Nat, kind : CgiKinds \cup {"cors", "unknown"}]
  /\ flags \in Flags
  /\ cgi \in CgiKinds \cup {"none"}
  /\ calls \in Nat
  /\ sendBuff \in Packet
  /\ backlog \in Seq(Packet)
  /\ backlogSize \in Int
  /\ inflight \in Seq(Packet)
  /\ short \in BOOLEAN
  /\ client \in [reqs : Nat, left : Nat, pipe : BOOLEAN]
  /\ held \in Int
  /\ eaten \in Nat
  /\ answers \in Nat
  /\ wire \in Seq(Item)

NoFlags == [chunked |-> FALSE, body |-> FALSE, discon |-> FALSE]
FreshPost == [len |-> -1, buffSize |-> 0, buffLen |-> 0, received |-> 0]

\* The state httpdConnectCb builds (httpdRetireConn leaves no other).
Init ==
  /\ link = "down"
  /\ recv = "idle"
  /\ post = FreshPost
  /\ stray = FALSE
  /\ cur = [num |-> 0, kind |-> "unknown"]
  /\ flags = NoFlags
  /\ cgi = "none" /\ calls = 0 /\ held = 0 /\ eaten = 0
  /\ sendBuff = <<>> /\ backlog = <<>> /\ backlogSize = 0 /\ inflight = <<>> /\ wire = <<>>
  /\ short = FALSE
  /\ client = [reqs |-> 0, left |-> 0, pipe |-> FALSE]
  /\ answers = 0

----------------------------------------------------------------------------
(***************************************************************************)
(* Sending.                                                                *)
(***************************************************************************)

SdkTakes(q) == Len(q) < SdkDepth
SdkMayRefuse(q) == short \/ Len(q) >= SdkDepth

\* httpdSend: appends to the send buffer, or drops what does not fit.
Put(b, x) == IF Len(b) < MaxSend THEN Append(b, x) ELSE b

Data(call) == [req |-> cur.num, call |-> call, end |-> FALSE]
Terminator(call) == [req |-> cur.num, call |-> call, end |-> TRUE]

\* Mutant of ToBacklog: a packet is linked in front of the list.
ToBacklogFront(b) ==
  /\ backlog' = <<b>> \o backlog
  /\ backlogSize' = backlogSize + Len(b)

\* A packet the SDK refused is linked behind the others.
ToBacklog(b) ==
  /\ backlog' = Append(backlog, b)
  /\ backlogSize' = backlogSize + Len(b)

\* httpdFlushSendBuffer, last part: hand packet b to the SDK, which holds the
\* packets q; else keep it in the backlog, unless that is full. When there is no
\* memory for the backlog the send buffer stays as it is, and lives on if keep.
Flush(q, b, keep) ==
  \/ /\ b = <<>>
     /\ sendBuff' = <<>> /\ inflight' = q
     /\ UNCHANGED <<backlog, backlogSize, wire>>
  \/ /\ b # <<>> /\ SdkTakes(q)
     /\ sendBuff' = <<>> /\ inflight' = Append(q, b) /\ wire' = wire \o b
     /\ UNCHANGED <<backlog, backlogSize>>
  \/ /\ b # <<>> /\ SdkMayRefuse(q) /\ backlogSize + Len(b) > MaxBacklog
     /\ sendBuff' = <<>> /\ inflight' = q
     /\ UNCHANGED <<backlog, backlogSize, wire>>
  \/ /\ b # <<>> /\ SdkMayRefuse(q) /\ backlogSize + Len(b) <= MaxBacklog
     /\ sendBuff' = <<>> /\ inflight' = q
     /\ ToBacklog(b)
     /\ UNCHANGED wire
  \/ /\ b # <<>> /\ short /\ backlogSize + Len(b) <= MaxBacklog
     /\ sendBuff' = (IF keep THEN b ELSE <<>>) /\ inflight' = q
     /\ UNCHANGED <<backlog, backlogSize, wire>>

\* The send buffer is left for a later flush of the same callback.
NoFlush(q, b) ==
  /\ sendBuff' = b /\ inflight' = q
  /\ UNCHANGED <<backlog, backlogSize, wire>>

----------------------------------------------------------------------------
(***************************************************************************)
(* Calling a CGI function. The caller is httpdProcessRequest ("request"),  *)
(* httpdRecvCb for a later part of the body ("body") or httpdSentCb        *)
(* ("sent"); they differ in when they flush what the function has written. *)
(***************************************************************************)

\* What call number n + 1 of a CGI function may do: write something or not, without
\* headers before it (bare) or not, be done or ask to be called again.
CgiReturns(kind, n) ==
  {o \in [writes : BOOLEAN, bare : BOOLEAN, done : BOOLEAN] :
     /\ o.bare => kind = "file" /\ n = 0 /\ o.done
     /\ kind = "oneshot" => o.writes /\ o.done
     /\ kind = "list" => o.writes
     /\ kind = "page" /\ n = 0 => o.writes /\ ~o.done
     /\ kind = "page" => o.writes \/ o.done \/ SilentChunks
     /\ kind = "file" /\ n = 0 => o.writes /\ o.done = o.bare
     /\ kind = "file" => o.writes \/ o.done
     /\ kind = "upload" => o.writes = o.done /\ o.done = (post.received = post.len)
     /\ kind \in {"list", "page", "file"} /\ n > 0 /\ n + 1 >= MaxCalls => o.done}

\* httpdCgiIsDone, after it has set conn->cgi to NULL, with send buffer b; after is the
\* post state the caller leaves. A chunked response gets its terminator and is
\* flushed, and the connection waits for the next request; any other connection is
\* marked, to be closed when its data was sent.
EndResponse(call, q, b, body, after, caller) ==
  IF flags.chunked
    THEN /\ Flush(q, IF body THEN Append(b, Terminator(call)) ELSE b, caller # "sent")
         /\ flags' = NoFlags
         /\ stray' = FALSE
         /\ post' = [len |-> -1, buffSize |-> post.buffSize, buffLen |-> 0, received |-> 0]
    ELSE /\ IF caller = "sent" THEN Flush(q, b, FALSE) ELSE NoFlush(q, b)
         /\ flags' = [flags EXCEPT !.body = body, !.discon = TRUE]
         /\ post' = after
         /\ UNCHANGED stray

\* Mutant of CgiIsDone: conn->cgi stays set.
CgiIsDoneKeepsCgi(call, q, b, body, after, caller) ==
  /\ cgi' = cgi
  /\ answers' = answers + 1
  /\ EndResponse(call, q, b, body, after, caller)

\* httpdCgiIsDone after that call.
CgiIsDone(call, q, b, body, after, caller) ==
  /\ cgi' = "none"
  /\ answers' = answers + 1
  /\ EndResponse(call, q, b, body, after, caller)

\* Call n + 1 of a CGI function and what the caller does with its result; the SDK
\* holds the packets q.
CallCgi(kind, n, q, after, caller) ==
  /\ calls' = n + 1
  /\ eaten' = (IF n = 0 THEN 0 ELSE eaten) + post.buffLen
  /\ \E o \in CgiReturns(kind, n) :
       LET b == IF o.writes THEN Put(sendBuff, Data(n + 1)) ELSE sendBuff
           body == flags.body \/ (o.writes /\ ~o.bare)
       IN  IF o.done
             THEN /\ CgiIsDone(n + 1, q, b, body, after, caller)
                  /\ held' = IF n = 0 THEN held ELSE held - 1
             ELSE /\ cgi' = kind
                  /\ held' = IF n = 0 THEN held + 1 ELSE held
                  /\ flags' = [flags EXCEPT !.body = body]
                  /\ post' = after
                  /\ IF caller = "body" THEN NoFlush(q, b) ELSE Flush(q, b, caller # "sent")
                  /\ UNCHANGED <<answers, stray>>

\* httpdProcessRequest. The walk through the route table, past CGI functions that
\* return HTTPD_CGI_NOTFOUND or HTTPD_CGI_AUTHENTICATED, is abstracted to the one
\* that takes the request.
ProcessRequest(after) ==
  \/ /\ cur.kind = "unknown"
     /\ post' = after
     /\ UNCHANGED <<flags, answers, stray, cgiVars, sendVars>>
  \/ /\ cur.kind = "cors"
     /\ CgiIsDone(1, inflight, Put(sendBuff, Data(1)), TRUE, after, "request")
     /\ UNCHANGED <<calls, held, eaten>>
  \/ /\ cur.kind \in CgiKinds
     /\ CallCgi(cur.kind, 0, inflight, after, "request")

----------------------------------------------------------------------------
(***************************************************************************)
(* The client.                                                             *)
(***************************************************************************)

\* Nothing of an earlier response is on its way or still to be made.
Quiet ==
  /\ cgi = "none"
  /\ sendBuff = <<>> /\ backlog = <<>> /\ inflight = <<>>
  /\ ~flags.discon

\* A request may begin when the last one is complete and quiet; a client that saw
\* the server take no notice of a request with a body keeps waiting.
MayStart(r) ==
  /\ client.left = 0
  /\ client.reqs < MaxReq
  /\ post.len <= 0
  /\ Quiet \/ (client.pipe /\ r \in Pipelined)

----------------------------------------------------------------------------
(***************************************************************************)
(* The callbacks.                                                          *)
(***************************************************************************)

\* httpdConnectCb; the state is as Init describes it.
ConnectCb ==
  /\ link = "down" /\ client.reqs = 0
  /\ link' = "up"
  /\ UNCHANGED <<recv, post, stray, cur, flags, short, client, answers, cgiVars, sendVars>>

\* httpdRecvCb takes input while the connection is up.
Receiving == link = "up" /\ recv \in {"idle", "loop"}

\* The last byte of a request head. httpdParseHeader sets the flags and the post
\* state; with bytes of something else before it the request line is not
\* recognised. While a request is being answered the head is unexpected data.
RecvHead(r) ==
  /\ Receiving
  /\ MayStart(r)
  /\ client' = [reqs |-> client.reqs + 1, left |-> r.len, pipe |-> r.keep /\ r.len = 0]
  /\ IF post.len < 0
       THEN /\ cur' = [num |-> client.reqs + 1, kind |-> IF stray THEN "unknown" ELSE r.kind]
            /\ flags' = [flags EXCEPT !.chunked = @ \/ (r.keep /\ ~stray)]
            /\ post' = [len |-> r.len,
                        buffSize |-> IF r.len = 0 THEN post.buffSize
                                     ELSE IF r.len > MaxPost THEN MaxPost ELSE r.len,
                        buffLen |-> IF r.len = 0 THEN post.buffLen ELSE 0,
                        received |-> post.received]
            /\ recv' = IF r.len = 0 THEN "head" ELSE "loop"
       ELSE /\ recv' = "loop"
            /\ UNCHANGED <<cur, flags, post>>
  /\ UNCHANGED <<link, stray, short, answers, cgiVars, sendVars>>

\* No body: the request can be processed at once.
HeadComplete ==
  /\ recv = "head"
  /\ recv' = "loop"
  /\ ProcessRequest(post)
  /\ UNCHANGED <<link, cur, short, client>>

\* A byte of a request body goes to the post buffer, if the server expects one. It
\* takes it for the start of a request head when it is done with the request.
RecvByte ==
  /\ Receiving
  /\ client.left > 0
  /\ client' = [client EXCEPT !.left = @ - 1]
  /\ LET p == [len |-> post.len, buffSize |-> post.buffSize,
               buffLen |-> post.buffLen + 1, received |-> post.received + 1]
     IN  \/ /\ post.len < 0
            /\ stray' = TRUE
            /\ recv' = "loop"
            /\ UNCHANGED post
         \/ /\ post.len > 0
            /\ post' = p
            /\ recv' = IF p.buffLen >= p.buffSize \/ p.received = p.len THEN "body" ELSE "loop"
            /\ UNCHANGED stray
         \/ /\ post.len = 0
            /\ recv' = "loop"
            /\ UNCHANGED <<post, stray>>
  /\ UNCHANGED <<link, cur, flags, short, answers, cgiVars, sendVars>>

\* Mutant of Emptied: the buffer is not emptied.
NotEmptied == post

\* The post state once its buffer was handed to a CGI function.
Emptied == [post EXCEPT !.buffLen = 0]

\* The post buffer is full or the body complete: the running CGI function is
\* called, or the request is processed; then the buffer is empty again.
BodyChunk ==
  /\ recv = "body"
  /\ recv' = "loop"
  /\ IF cgi # "none" THEN CallCgi(cgi, calls, inflight, Emptied, "body")
                     ELSE ProcessRequest(Emptied)
  /\ UNCHANGED <<link, cur, short, client>>

\* Mutant of RecvEnd: no final flush.
RecvEndNoFlush ==
  /\ recv = "loop"
  /\ recv' = "idle"
  /\ UNCHANGED <<link, post, stray, cur, flags, short, client, answers, cgiVars, sendVars>>

\* The end of the segment.
RecvEnd ==
  /\ recv = "loop"
  /\ recv' = "idle"
  /\ Flush(inflight, sendBuff, FALSE)
  /\ UNCHANGED <<link, post, stray, cur, flags, short, client, answers, cgiVars>>

\* The head of the backlog is handed to the SDK, which may refuse it.
HeadSent(q) ==
  \/ /\ SdkTakes(q)
     /\ inflight' = Append(q, Head(backlog)) /\ wire' = wire \o Head(backlog)
  \/ /\ SdkMayRefuse(q)
     /\ inflight' = q /\ UNCHANGED wire

\* Mutants of BacklogGoesOn: sendBacklogSize is not decremented, or the head is freed
\* before it was sent.
BacklogGoesOnUncounted(q) ==
  /\ backlog # <<>>
  /\ HeadSent(q)
  /\ backlog' = Tail(backlog)
  /\ UNCHANGED backlogSize
BacklogGoesOnUnsent(q) ==
  /\ backlog # <<>>
  /\ inflight' = q /\ UNCHANGED wire
  /\ backlog' = Tail(backlog)
  /\ backlogSize' = backlogSize - Len(Head(backlog))

\* httpdSentCb, first part: the head of the backlog is sent and freed, whether the
\* SDK took it or not.
BacklogGoesOn(q) ==
  /\ backlog # <<>>
  /\ HeadSent(q)
  /\ backlog' = Tail(backlog)
  /\ backlogSize' = backlogSize - Len(Head(backlog))

\* httpdSentCb: the SDK is done with its oldest packet. Either the backlog goes on,
\* or a marked connection is closed, or the CGI function goes on.
SentCb ==
  /\ recv = "idle" /\ link # "down"
  /\ inflight # <<>>
  /\ LET q == Tail(inflight)
     IN  \/ /\ BacklogGoesOn(q)
            /\ UNCHANGED <<link, post, stray, flags, answers, sendBuff, cgiVars>>
         \/ /\ backlog = <<>> /\ flags.discon
            /\ link' = "closing"
            /\ inflight' = q
            /\ UNCHANGED <<post, stray, flags, answers, sendBuff, backlog, backlogSize, wire, cgiVars>>
         \/ /\ backlog = <<>> /\ ~flags.discon /\ cgi = "none"
            /\ inflight' = q
            /\ UNCHANGED <<link, post, stray, flags, answers, sendBuff, backlog, backlogSize, wire, cgiVars>>
         \/ /\ backlog = <<>> /\ ~flags.discon /\ cgi # "none"
            /\ CallCgi(cgi, calls, q, post, "sent")
            /\ UNCHANGED link
  /\ UNCHANGED <<recv, cur, short, client>>

\* Mutant of DisconCb: a running CGI function does not hear of the close.
DisconCbUntold ==
  /\ recv = "idle" /\ link # "down"
  /\ link' = "down"
  /\ cgi' = "none" /\ calls' = 0 /\ eaten' = 0
  /\ post' = FreshPost /\ stray' = FALSE /\ flags' = NoFlags
  /\ cur' = [num |-> 0, kind |-> "unknown"]
  /\ backlog' = <<>> /\ backlogSize' = 0 /\ inflight' = <<>>
  /\ UNCHANGED <<recv, held, short, client, answers, sendBuff, wire>>

\* httpdDisconCb: closed by either side. A running CGI function is called to clean
\* up; httpdRetireConn frees the backlog, the post buffer and the slot.
DisconCb ==
  /\ recv = "idle" /\ link # "down"
  /\ link' = "down"
  /\ held' = IF cgi # "none" THEN held - 1 ELSE held
  /\ cgi' = "none" /\ calls' = 0 /\ eaten' = 0
  /\ post' = FreshPost /\ stray' = FALSE /\ flags' = NoFlags
  /\ cur' = [num |-> 0, kind |-> "unknown"]
  /\ backlog' = <<>> /\ backlogSize' = 0 /\ inflight' = <<>>
  /\ UNCHANGED <<recv, short, client, answers, sendBuff, wire>>

\* From here on allocations may fail.
MemoryGetsShort ==
  /\ MayRunShort /\ ~short
  /\ short' = TRUE
  /\ UNCHANGED <<link, recv, post, stray, cur, flags, client, answers, cgiVars, sendVars>>

Next ==
  \/ MemoryGetsShort
  \/ ConnectCb
  \/ \E r \in Requests : RecvHead(r)
  \/ HeadComplete
  \/ RecvByte
  \/ BodyChunk
  \/ RecvEnd
  \/ SentCb
  \/ DisconCb

Spec == Init /\ [][Next]_vars

\* A callback that has begun runs to its end, the SDK sends what it accepted and
\* reports it, and the client completes the body it has announced. Nobody has to
\* begin a request or to close a connection.
FairSpec ==
  /\ Spec
  /\ WF_vars(RecvEnd) /\ WF_vars(HeadComplete) /\ WF_vars(BodyChunk)
  /\ WF_vars(SentCb)
  /\ WF_vars(RecvByte)

----------------------------------------------------------------------------
(***************************************************************************)
(* Properties.                                                             *)
(***************************************************************************)

\* A CGI function runs only for a request whose head is complete: while the server
\* waits for a head, conn->cgi is NULL, so the next request cannot overwrite the
\* cgiData of an unfinished one.
HeaderPhaseHasNoCgi ==
  post.len < 0 => cgi = "none"

\* Resources a CGI function acquired in its first call (an open file, the state of
\* an upload) are released exactly once: by its last call, or by the call that
\* tells it the connection is gone.
ResourcesReleased ==
  held = IF cgi # "none" THEN 1 ELSE 0

\* Bytes are written inside the post buffer (which has one byte more for the
\* terminating zero), whatever the CGI functions do between two bytes.
PostBufferInBounds ==
  post.len > 0 =>
    /\ post.buffLen <= post.buffSize
    /\ recv # "body" => post.buffLen < post.buffSize

\* sendBacklogSize, which the limit is tested on, is the length of the backlog, and
\* it respects the limit.
BacklogAccounted ==
  /\ backlogSize = Len(FlattenSeq(backlog))
  /\ backlogSize <= MaxBacklog

\* With an SDK that only refuses a packet while it holds SdkDepth of them, a
\* backlog always has a sentcb to come that sends its head.
BacklogHasASentCb ==
  ~short /\ backlog # <<>> => Len(inflight) = SdkDepth

\* Every byte of the body is handed to an upload exactly once.
BodyEatenOnce ==
  cgi = "upload" /\ recv # "body" => eaten + post.buffLen = post.received

\* httpdCgiIsDone runs once for every request, in the order of the requests.
OneAnswerPerRequest ==
  answers \in {client.reqs - 1, client.reqs}

\* While memory lasts, the SDK is given the responses in the order of the requests
\* and every response in the order it was written, with nothing after its
\* terminator: neither the backlog nor pipelining reorders or interleaves them.
ResponsesInOrder ==
  ~short => \A i, j \in DOMAIN wire : i < j =>
    /\ wire[i].req <= wire[j].req
    /\ wire[i].req = wire[j].req => wire[i].call <= wire[j].call /\ ~wire[i].end

\* The SDK's packets and the backlog are one queue, as SendQueue promises it.
Queue == INSTANCE SendQueue WITH queue <- inflight \o backlog, reliable <- ~short

SendsInOrder == Queue!Spec

\* httpd.c, httpdCgiIsDone: "Cannot re-use this connection. Mark to get it killed
\* after all data is sent." A marked connection must have a sentcb to come.
MarkedGetsClosed ==
  flags.discon /\ link = "up" /\ recv = "idle" => inflight # <<>>

\* httpd.c, httpdFlushSendBuffer: "Can't send this for some reason. Dump packet in
\* backlog, we can send it later."
BacklogSentLater ==
  backlog # <<>> ~> backlog = <<>>

\* While memory lasts, every request is answered completely, or the connection is closed.
EveryRequestAnswered ==
  []<>(link # "up" \/ short \/ (Quiet /\ answers = client.reqs))
=============================================================================
