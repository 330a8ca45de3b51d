--------------------------- MODULE HttpdConnProofs ---------------------------
(***************************************************************************)
(* Safety of one connection, for every size of the buffers, every depth of *)
(* the SDK's queue, every set of requests and every number of them.        *)
(*                                                                         *)
(* The properties are not inductive by themselves. Control adds what the   *)
(* callbacks know of each other: a CGI function that runs was called       *)
(* before, a body is received only into a buffer of at least one byte, and *)
(* where httpdRecvCb's loop may be in which state. A step that calls a CGI *)
(* function is summarised by CgiStep, and what it does to the packets by   *)
(* SendStep, so that each callback is argued about once.                   *)
(***************************************************************************)
EXTENDS HttpdConn, FlattenTheorems, SequenceTheorems, TLAPS

Control ==
  /\ cgi # "none" => calls >= 1
  /\ post.len > 0 => post.buffSize >= 1
  /\ recv = "head" => post.len = 0 /\ cgi = "none"
  /\ recv = "body" => post.len > 0
  /\ Len(inflight) <= SdkDepth

IInv ==
  /\ TypeOK
  /\ Control
  /\ HeaderPhaseHasNoCgi
  /\ ResourcesReleased
  /\ PostBufferInBounds
  /\ BacklogHasASentCb

\* t is s with one packet more.
Longer(s, t) ==
  /\ Len(t) = Len(s) + 1
  /\ \A i \in DOMAIN s : t[i] = s[i]

\* The packets q can be flushed to: they are what the SDK holds when the callback begins.
SendReady(q) ==
  /\ q \in Seq(Packet)
  /\ Len(q) <= SdkDepth
  /\ ~short /\ backlog # <<>> => Len(q) = SdkDepth

\* What a flush, or no flush, makes of the packets q and the backlog.
SendStep(q) ==
  /\ sendBuff' \in Packet /\ backlog' \in Seq(Packet) /\ backlogSize' \in Int
  /\ inflight' \in Seq(Packet) /\ wire' \in Seq(Item)
  /\ Len(inflight') <= SdkDepth
  /\ ~short /\ backlog' # <<>> => Len(inflight') = SdkDepth
  /\ ~short => \/ inflight' \o backlog' = q \o backlog
               \/ Longer(q \o backlog, inflight' \o backlog')

\* The post state after a chunked response.
NextHead == [len |-> -1, buffSize |-> post.buffSize, buffLen |-> 0, received |-> 0]

\* What a call of a CGI function makes of the state of the connection.
CgiStep(q, after) ==
  /\ SendStep(q)
  /\ cgi' \in CgiKinds \cup {"none"}
  /\ calls' \in Nat /\ eaten' \in Nat /\ answers' \in Nat
  /\ held' = IF cgi' # "none" THEN 1 ELSE 0
  /\ cgi' # "none" => calls' >= 1 /\ post' = after
  /\ post' \in {after, NextHead}
  /\ flags' \in Flags /\ stray' \in BOOLEAN

----------------------------------------------------------------------------
\* Packets.

\* A packet behind an empty rest.
LEMMA AppendToFirst ==
  ASSUME NEW STATE q, q \in Seq(Packet), NEW STATE b, b \in Packet
  PROVE  Longer(q \o <<>>, Append(q, b) \o <<>>)
BY DEF Longer

\* A packet behind the rest.
LEMMA AppendToRest ==
  ASSUME NEW STATE q, q \in Seq(Packet), NEW STATE r, r \in Seq(Packet), NEW STATE b, b \in Packet
  PROVE  Longer(q \o r, q \o Append(r, b))
BY DEF Longer

\* The head of the rest takes the place of the oldest packet.
LEMMA HeadMovesUp ==
  ASSUME NEW STATE q, q \in Seq(Packet), NEW STATE r, r \in Seq(Packet), q # <<>>, r # <<>>
  PROVE  Append(Tail(q), Head(r)) \o Tail(r) = Tail(q \o r)
<1> DEFINE s == Append(Tail(q), Head(r)) \o Tail(r)
           t == Tail(q \o r)
<1>1. /\ s \in Seq(Packet) /\ t \in Seq(Packet)
      /\ Len(s) = Len(q) + Len(r) - 1 /\ Len(t) = Len(q) + Len(r) - 1
  OBVIOUS
<1>2. ASSUME NEW i \in 1 .. Len(s)
      PROVE  s[i] = t[i]
  OBVIOUS
<1> QED
  BY <1>1, <1>2, SeqEqual

\* A flush keeps the packets in order and leaves a backlog only to a busy SDK.
LEMMA FlushSends ==
  ASSUME TypeOK, NEW STATE q, SendReady(q), NEW STATE b, b \in Packet, NEW keep \in BOOLEAN,
         Flush(q, b, keep)
  PROVE  SendStep(q)
<1> USE DEF TypeOK, SendReady
<1>1. SdkDepth \in Nat
  BY ConnAssumption
<1>2. CASE /\ inflight' = q /\ backlog' = backlog
           /\ sendBuff' \in {b, <<>>}
           /\ UNCHANGED <<backlogSize, wire>>
  <2>1. sendBuff' \in Packet
    <3>1. sendBuff' = b \/ sendBuff' = <<>>
      BY <1>2
    <3> QED
      BY <3>1, EmptySeq DEF Packet
  <2>2. backlogSize' \in Int /\ wire' \in Seq(Item) /\ backlog' \in Seq(Packet) /\ inflight' \in Seq(Packet)
    BY <1>2
  <2>3. inflight' \o backlog' = q \o backlog
    BY <1>2
  <2>4. Len(inflight') <= SdkDepth /\ (~short /\ backlog' # <<>> => Len(inflight') = SdkDepth)
    BY <1>2
  <2> QED
    BY <2>1, <2>2, <2>3, <2>4 DEF SendStep
<1>3. CASE /\ b # <<>> /\ SdkTakes(q)
           /\ sendBuff' = <<>> /\ inflight' = Append(q, b) /\ wire' = wire \o b
           /\ UNCHANGED <<backlog, backlogSize>>
  <2>1. inflight' \in Seq(Packet) /\ Len(inflight') = Len(q) + 1 /\ Len(inflight') <= SdkDepth
    BY <1>1, <1>3 DEF SdkTakes
  <2>2. wire' \in Seq(Item) /\ sendBuff' \in Packet
    BY <1>3 DEF Packet
  <2>3. ~short => backlog = <<>>
    BY <1>1, <1>3 DEF SdkTakes
  <2> QED
    BY <1>3, <2>1, <2>2, <2>3, AppendToFirst DEF SendStep
<1>4. CASE /\ SdkMayRefuse(q)
           /\ sendBuff' = <<>> /\ inflight' = q
           /\ backlog' = Append(backlog, b) /\ backlogSize' = backlogSize + Len(b)
           /\ UNCHANGED wire
  <2>1. backlog' \in Seq(Packet) /\ sendBuff' \in Packet
    BY <1>4 DEF Packet
  <2>2. backlogSize' \in Int
    BY <1>4 DEF Packet
  <2>3. ~short => Len(inflight') = SdkDepth
    BY <1>1, <1>4 DEF SdkMayRefuse
  <2>4. Longer(q \o backlog, inflight' \o backlog')
    BY <1>4, AppendToRest
  <2> QED
    BY <1>4, <2>1, <2>2, <2>3, <2>4 DEF SendStep
<1> QED
  BY <1>2, <1>3, <1>4 DEF Flush, ToBacklog

\* Without a flush nothing moves.
LEMMA NoFlushSends ==
  ASSUME TypeOK, NEW STATE q, SendReady(q), NEW STATE b, b \in Packet, NoFlush(q, b)
  PROVE  SendStep(q)
<1>1. /\ inflight' = q /\ backlog' = backlog /\ sendBuff' = b
      /\ backlogSize' = backlogSize /\ wire' = wire
  BY DEF NoFlush
<1>2. inflight' \o backlog' = q \o backlog
  BY <1>1
<1> QED
  BY <1>1, <1>2 DEF SendStep, SendReady, TypeOK

\* What is written to a send buffer leaves a packet there.
LEMMA PutPacket ==
  ASSUME NEW STATE b, b \in Packet, NEW STATE x, x \in Item
  PROVE  Put(b, x) \in Packet /\ Append(b, x) \in Packet
BY DEF Put, Packet

\* Data and terminators are items.
LEMMA ItemTypes ==
  ASSUME TypeOK, NEW STATE n, n \in Nat
  PROVE  Data(n) \in Item /\ Terminator(n) \in Item
BY DEF TypeOK, Data, Terminator, Item

----------------------------------------------------------------------------
\* CGI functions.

\* The end of a response: no CGI function is left, and the connection waits for
\* another head or stays as the caller leaves it.
LEMMA DoneStep ==
  ASSUME TypeOK, NEW STATE call, call \in Nat, NEW STATE q, SendReady(q),
         NEW STATE b, b \in Packet, NEW STATE body, body \in BOOLEAN,
         NEW STATE after, after \in Post, NEW caller, CgiIsDone(call, q, b, body, after, caller)
  PROVE  /\ SendStep(q)
         /\ cgi' = "none" /\ answers' \in Nat
         /\ flags' \in Flags /\ stray' \in BOOLEAN
         /\ post' \in {after, NextHead}
<1>1. cgi' = "none" /\ answers' \in Nat
  BY DEF CgiIsDone, EndResponse, TypeOK
<1>2. CASE flags.chunked
  <2> DEFINE c == IF body THEN Append(b, Terminator(call)) ELSE b
  <2>1. c \in Packet
    BY ItemTypes, PutPacket
  <2>2. (caller # "sent") \in BOOLEAN
    OBVIOUS
  <2>3. Flush(q, c, caller # "sent")
    BY <1>2 DEF CgiIsDone, EndResponse
  <2>4. SendStep(q)
    BY <2>1, <2>2, <2>3, FlushSends
  <2>5. flags' = NoFlags /\ stray' = FALSE /\ post' = NextHead
    BY <1>2 DEF CgiIsDone, EndResponse, NextHead
  <2>6. NoFlags \in Flags
    BY DEF NoFlags, Flags
  <2> QED
    BY <1>1, <2>4, <2>5, <2>6
<1>3. CASE ~flags.chunked
  <2>1. flags' \in Flags /\ stray' \in BOOLEAN /\ post' = after
    BY <1>3 DEF CgiIsDone, EndResponse, Flags, TypeOK
  <2>2. Flush(q, b, FALSE) \/ NoFlush(q, b)
    BY <1>3 DEF CgiIsDone, EndResponse
  <2>3. SendStep(q)
    BY <2>2, FlushSends, NoFlushSends
  <2> QED
    BY <1>1, <2>1, <2>3
<1> QED
  BY <1>2, <1>3

\* A call of a CGI function: the first one acquires, the last one releases.
LEMMA CallStep ==
  ASSUME TypeOK, ResourcesReleased,
         NEW STATE kind, kind \in CgiKinds, NEW STATE n, n \in Nat, n = 0 <=> cgi = "none",
         NEW STATE q, SendReady(q), NEW STATE after, after \in Post, NEW caller,
         CallCgi(kind, n, q, after, caller)
  PROVE  CgiStep(q, after)
<1>1. PICK o \in CgiReturns(kind, n) :
        LET b == IF o.writes THEN Put(sendBuff, Data(n + 1)) ELSE sendBuff
            body == flags.body \/ (o.writes /\ ~o.bare)
        IN  IF o.done
              THEN /\ CgiIsDone(n + 1, q, b, body, after, caller)
                   /\ held' = IF n = 0 THEN held ELSE held - 1
              ELSE /\ cgi' = kind
                   /\ held' = IF n = 0 THEN held + 1 ELSE held
                   /\ flags' = [flags EXCEPT !.body = body]
                   /\ post' = after
                   /\ IF caller = "body" THEN NoFlush(q, b) ELSE Flush(q, b, caller # "sent")
                   /\ UNCHANGED <<answers, stray>>
  BY DEF CallCgi
<1> DEFINE b == IF o.writes THEN Put(sendBuff, Data(n + 1)) ELSE sendBuff
           body == flags.body \/ (o.writes /\ ~o.bare)
<1>2. o.writes \in BOOLEAN /\ o.done \in BOOLEAN
  BY DEF CgiReturns
<1>3. b \in Packet /\ body \in BOOLEAN /\ n + 1 \in Nat
  <2>1. n + 1 \in Nat /\ sendBuff \in Packet /\ body \in BOOLEAN
    BY <1>2 DEF TypeOK, Flags
  <2>2. Data(n + 1) \in Item
    BY <2>1, ItemTypes
  <2>3. Put(sendBuff, Data(n + 1)) \in Packet
    BY <2>1, <2>2, PutPacket
  <2> QED
    BY <2>1, <2>3
<1>4. calls' = n + 1 /\ eaten' \in Nat
  <2>1. calls' = n + 1 /\ eaten' = (IF n = 0 THEN 0 ELSE eaten) + post.buffLen
    BY DEF CallCgi
  <2>2. eaten \in Nat /\ post.buffLen \in Nat
    BY DEF TypeOK, Post
  <2> QED
    BY <2>1, <2>2
<1>5. held = IF n = 0 THEN 0 ELSE 1
  BY DEF ResourcesReleased
<1>6. "none" \notin CgiKinds
  BY DEF CgiKinds
<1>7. CASE o.done
  <2>1. CgiIsDone(n + 1, q, b, body, after, caller) /\ held' = IF n = 0 THEN held ELSE held - 1
    BY <1>1, <1>7
  <2>2. held' = 0
    BY <1>5, <2>1
  <2> HIDE DEF b, body
  <2>3. /\ SendStep(q)
        /\ cgi' = "none" /\ answers' \in Nat
        /\ flags' \in Flags /\ stray' \in BOOLEAN
        /\ post' \in {after, NextHead}
    BY <1>3, <2>1, DoneStep
  <2> QED
    BY <1>4, <2>2, <2>3 DEF CgiStep
<1>8. CASE ~o.done
  <2>1. /\ cgi' = kind /\ post' = after
        /\ held' = IF n = 0 THEN held + 1 ELSE held
        /\ flags' = [flags EXCEPT !.body = body]
        /\ answers' = answers /\ stray' = stray
        /\ NoFlush(q, b) \/ Flush(q, b, caller # "sent")
    BY <1>1, <1>8
  <2>2. held' = 1
    BY <1>5, <2>1
  <2>3. flags' \in Flags
    BY <1>3, <2>1 DEF TypeOK, Flags
  <2>4. (caller # "sent") \in BOOLEAN
    OBVIOUS
  <2> HIDE DEF b, body
  <2>5. SendStep(q)
    BY <1>3, <2>1, <2>4, FlushSends, NoFlushSends
  <2> QED
    BY <1>4, <1>6, <2>1, <2>2, <2>3, <2>5 DEF CgiStep, TypeOK
<1> QED
  BY <1>2, <1>7, <1>8

\* Dispatching a request: a first call, the answer to an OPTIONS request, or nothing.
LEMMA ProcessStep ==
  ASSUME TypeOK, ResourcesReleased, cgi = "none", SendReady(inflight),
         NEW STATE after, after \in Post, ProcessRequest(after)
  PROVE  CgiStep(inflight, after)
<1>1. held = 0 /\ "none" \notin CgiKinds
  BY DEF ResourcesReleased, CgiKinds
<1>2. CASE cur.kind = "unknown" /\ post' = after
           /\ UNCHANGED <<flags, answers, stray, cgiVars, sendVars>>
  <2>1. SendStep(inflight)
    <3>1. inflight' \o backlog' = inflight \o backlog
      BY <1>2 DEF sendVars
    <3> QED
      BY <1>2, <3>1 DEF sendVars, SendStep, SendReady, TypeOK
  <2> QED
    BY <1>1, <1>2, <2>1 DEF cgiVars, CgiStep, TypeOK
<1>3. CASE /\ CgiIsDone(1, inflight, Put(sendBuff, Data(1)), TRUE, after, "request")
           /\ UNCHANGED <<calls, held, eaten>>
  <2>1. Put(sendBuff, Data(1)) \in Packet
    BY ItemTypes, PutPacket DEF TypeOK
  <2>2. /\ SendStep(inflight)
        /\ cgi' = "none" /\ answers' \in Nat
        /\ flags' \in Flags /\ stray' \in BOOLEAN
        /\ post' \in {after, NextHead}
    BY <1>3, <2>1, DoneStep
  <2> QED
    BY <1>1, <1>3, <2>2 DEF CgiStep, TypeOK
<1>4. CASE cur.kind \in CgiKinds /\ CallCgi(cur.kind, 0, inflight, after, "request")
  BY <1>4, CallStep
<1> QED
  BY <1>2, <1>3, <1>4 DEF ProcessRequest

\* A post state a CGI function may be called with, and left with.
Settled(after) ==
  /\ after \in Post
  /\ after.len >= 0
  /\ after.len > 0 => after.buffSize >= 1 /\ after.buffLen < after.buffSize

\* A callback that called a CGI function keeps the invariant.
LEMMA CgiStepInv ==
  ASSUME IInv, NEW STATE q, NEW STATE after, Settled(after), CgiStep(q, after),
         recv' \in {"idle", "loop"}, link' \in {"down", "up", "closing"},
         UNCHANGED <<cur, short, client>>
  PROVE  IInv'
<1>1. post' \in Post /\ post' \in {after, NextHead} /\ NextHead.len = -1
  <2>1. NextHead \in Post
    BY DEF NextHead, Post, IInv, TypeOK
  <2> QED
    BY <2>1 DEF Settled, CgiStep, NextHead
<1>2. held' \in Int
  BY DEF CgiStep
<1>3. TypeOK'
  BY <1>1, <1>2 DEF IInv, TypeOK, CgiStep, SendStep
<1>4. post'.len > 0 => post' = after
  BY <1>1
<1>5. Control'
  BY <1>4 DEF Control, Settled, CgiStep, SendStep
<1>6. HeaderPhaseHasNoCgi'
  BY <1>1 DEF HeaderPhaseHasNoCgi, Settled, CgiStep, Post
<1>7. ResourcesReleased'
  BY DEF ResourcesReleased, CgiStep
<1>8. PostBufferInBounds'
  BY <1>1, <1>4 DEF PostBufferInBounds, Settled, Post
<1>9. BacklogHasASentCb'
  BY DEF BacklogHasASentCb, CgiStep, SendStep
<1> QED
  BY <1>3, <1>5, <1>6, <1>7, <1>8, <1>9 DEF IInv

\* Outside of httpdSentCb a flush goes to what the SDK holds now.
LEMMA InflightReady ==
  ASSUME IInv
  PROVE  SendReady(inflight)
BY DEF IInv, TypeOK, Control, BacklogHasASentCb, SendReady

\* In httpdSentCb the SDK has room for a packet again.
LEMMA TailReady ==
  ASSUME IInv, inflight # <<>>
  PROVE  /\ Tail(inflight) \in Seq(Packet)
         /\ Len(Tail(inflight)) < SdkDepth
         /\ backlog = <<>> => SendReady(Tail(inflight))
BY ConnAssumption DEF IInv, TypeOK, Control, SendReady

----------------------------------------------------------------------------
\* Initially the invariant holds.
LEMMA InitInv == Init => IInv
<1> SUFFICES ASSUME Init PROVE IInv
  OBVIOUS
<1>1. TypeOK
  <2>1. /\ FreshPost \in Post /\ NoFlags \in Flags
        /\ <<>> \in Packet /\ <<>> \in Seq(Packet) /\ <<>> \in Seq(Item)
    BY EmptySeq DEF FreshPost, NoFlags, Post, Flags, Packet
  <2>2. /\ cur \in [num : Nat, kind : CgiKinds \cup {"cors", "unknown"}]
        /\ client \in [reqs : Nat, left : Nat, pipe : BOOLEAN]
        /\ link \in {"down", "up", "closing"} /\ recv \in {"idle", "loop", "head", "body"}
        /\ stray \in BOOLEAN /\ short \in BOOLEAN
    BY DEF Init
  <2>3. /\ post \in Post /\ flags \in Flags
        /\ sendBuff \in Packet /\ backlog \in Seq(Packet) /\ inflight \in Seq(Packet)
        /\ wire \in Seq(Item)
    BY <2>1 DEF Init
  <2>4. /\ cgi \in CgiKinds \cup {"none"} /\ calls \in Nat /\ held \in Int /\ eaten \in Nat
        /\ answers \in Nat /\ backlogSize \in Int
    BY DEF Init
  <2> QED
    BY <2>2, <2>3, <2>4 DEF TypeOK
<1> QED
  BY <1>1, ConnAssumption DEF Init, IInv, Control, HeaderPhaseHasNoCgi, ResourcesReleased, PostBufferInBounds,
                BacklogHasASentCb, FreshPost

\* A request head is parsed, or ignored.
LEMMA RecvHeadInv ==
  ASSUME IInv, NEW r \in Requests, RecvHead(r)
  PROVE  IInv'
<1>1. r \in Request /\ MaxPost \in Nat \ {0} /\ SdkDepth \in Nat \ {0}
  BY ConnAssumption
<1>2. /\ post' \in Post
      /\ recv' \in {"loop", "head"}
      /\ recv' = "head" => post'.len = 0 /\ cgi = "none"
      /\ post'.len < 0 => cgi = "none"
      /\ post'.len > 0 => post'.buffSize >= 1 /\ post'.buffLen < post'.buffSize
  <2>1. CASE post.len < 0
    <3>1. post' = [len |-> r.len,
                   buffSize |-> IF r.len = 0 THEN post.buffSize
                                ELSE IF r.len > MaxPost THEN MaxPost ELSE r.len,
                   buffLen |-> IF r.len = 0 THEN post.buffLen ELSE 0,
                   received |-> post.received]
          /\ recv' = IF r.len = 0 THEN "head" ELSE "loop"
      BY <2>1 DEF RecvHead
    <3>2. cgi = "none"
      BY <2>1 DEF IInv, HeaderPhaseHasNoCgi
    <3>3. r.len \in Nat /\ post.buffSize \in Nat /\ post.buffLen \in Nat /\ post.received \in Nat
      BY <1>1 DEF Request, IInv, TypeOK, Post
    <3> QED
      BY <1>1, <3>1, <3>2, <3>3 DEF Post
  <2>2. CASE ~(post.len < 0)
    <3>1. post' = post /\ recv' = "loop" /\ recv # "body"
      BY <2>2 DEF RecvHead, Receiving
    <3> QED
      BY <2>2, <3>1 DEF IInv, TypeOK, Control, PostBufferInBounds
  <2> QED
    BY <2>1, <2>2
<1>3. cur' \in [num : Nat, kind : CgiKinds \cup {"cors", "unknown"}]
  BY <1>1 DEF RecvHead, Request, IInv, TypeOK
<1>4. flags' \in Flags
  BY <1>1 DEF RecvHead, Request, IInv, TypeOK, Flags
<1>5. client' \in [reqs : Nat, left : Nat, pipe : BOOLEAN]
  BY <1>1 DEF RecvHead, Request, IInv, TypeOK
<1>6. UNCHANGED <<link, stray, short, answers, cgi, calls, held, eaten,
                  sendBuff, backlog, backlogSize, inflight, wire>>
  BY DEF RecvHead, cgiVars, sendVars
<1>7. TypeOK'
  BY <1>2, <1>3, <1>4, <1>5, <1>6 DEF IInv, TypeOK
<1>8. Control'
  BY <1>2, <1>6 DEF IInv, Control
<1>9. HeaderPhaseHasNoCgi' /\ ResourcesReleased' /\ PostBufferInBounds' /\ BacklogHasASentCb'
  BY <1>2, <1>6 DEF IInv, TypeOK, Post, HeaderPhaseHasNoCgi, ResourcesReleased, PostBufferInBounds, BacklogHasASentCb
<1> QED
  BY <1>7, <1>8, <1>9 DEF IInv

\* A byte of a body goes into the post buffer, which has room for it.
LEMMA RecvByteInv ==
  ASSUME IInv, RecvByte
  PROVE  IInv'
<1>1. /\ post' \in Post
      /\ stray' \in BOOLEAN
      /\ recv' \in {"loop", "body"}
      /\ post'.len = post.len /\ post'.buffSize = post.buffSize
      /\ recv' = "body" => post'.len > 0
      /\ post'.len > 0 => post'.buffLen <= post'.buffSize
                          /\ (recv' # "body" => post'.buffLen < post'.buffSize)
  <2> DEFINE p == [len |-> post.len, buffSize |-> post.buffSize,
                   buffLen |-> post.buffLen + 1, received |-> post.received + 1]
  <2>1. CASE /\ post.len > 0
             /\ post' = p
             /\ recv' = IF p.buffLen >= p.buffSize \/ p.received = p.len THEN "body" ELSE "loop"
             /\ UNCHANGED stray
    <3>1. post \in Post /\ post.buffLen < post.buffSize
      BY <2>1 DEF IInv, TypeOK, PostBufferInBounds, RecvByte, Receiving
    <3>2. p \in Post /\ p.len = post.len /\ p.buffSize = post.buffSize /\ p.buffLen = post.buffLen + 1
      BY <3>1 DEF Post
    <3>3. stray' \in BOOLEAN
      BY <2>1 DEF IInv, TypeOK
    <3> HIDE DEF p
    <3>4. p.buffLen \in Nat /\ p.buffSize \in Nat /\ post.buffLen \in Nat
      BY <3>1, <3>2 DEF Post
    <3> QED
      BY <2>1, <3>1, <3>2, <3>3, <3>4
  <2>2. CASE /\ post.len < 0
             /\ stray' = TRUE
             /\ recv' = "loop"
             /\ UNCHANGED post
    BY <2>2 DEF IInv, TypeOK, Post
  <2>3. CASE /\ post.len = 0
             /\ recv' = "loop"
             /\ UNCHANGED <<post, stray>>
    BY <2>3 DEF IInv, TypeOK, Post
  <2> QED
    BY <2>1, <2>2, <2>3 DEF RecvByte
<1>2. client' \in [reqs : Nat, left : Nat, pipe : BOOLEAN]
  <2>1. client \in [reqs : Nat, left : Nat, pipe : BOOLEAN] /\ client.left > 0
    BY DEF RecvByte, IInv, TypeOK
  <2>2. client' = [client EXCEPT !.left = @ - 1]
    BY DEF RecvByte
  <2> QED
    BY <2>1, <2>2
<1>3. UNCHANGED <<link, cur, flags, short, answers, cgi, calls, held, eaten,
                  sendBuff, backlog, backlogSize, inflight, wire>>
  BY DEF RecvByte, cgiVars, sendVars
<1>4. TypeOK'
  BY <1>1, <1>2, <1>3 DEF IInv, TypeOK
<1>5. Control'
  BY <1>1, <1>3 DEF IInv, Control
<1>6. HeaderPhaseHasNoCgi' /\ ResourcesReleased' /\ PostBufferInBounds' /\ BacklogHasASentCb'
  BY <1>1, <1>3 DEF IInv, HeaderPhaseHasNoCgi, ResourcesReleased, PostBufferInBounds, BacklogHasASentCb
<1> QED
  BY <1>4, <1>5, <1>6 DEF IInv

\* The invariant without httpdRecvCb's position, which a step to "loop" or "idle"
\* from there only relaxes.
LEMMA ReceivedInv ==
  ASSUME IInv, recv # "body", recv' \in {"loop", "idle"}, link' \in {"down", "up", "closing"},
         UNCHANGED <<post, stray, cur, flags, cgi, calls, held, eaten, short, client, answers>>,
         SendStep(inflight) \/ SendStep(Tail(inflight))
  PROVE  IInv'
BY DEF IInv, TypeOK, Control, HeaderPhaseHasNoCgi, ResourcesReleased, PostBufferInBounds,
       BacklogHasASentCb, SendStep

\* A request without a body is processed.
LEMMA HeadCompleteInv ==
  ASSUME IInv, HeadComplete
  PROVE  IInv'
<1>1. post.len = 0 /\ cgi = "none" /\ post \in Post
  BY DEF HeadComplete, IInv, Control, TypeOK
<1>2. Settled(post)
  BY <1>1 DEF Settled
<1>3. CgiStep(inflight, post)
  BY <1>1, InflightReady, ProcessStep DEF HeadComplete, IInv
<1> QED
  BY <1>2, <1>3, CgiStepInv DEF HeadComplete, IInv, TypeOK

\* The post buffer, emptied, as a CGI function's caller leaves it.
LEMMA EmptiedSettled ==
  ASSUME IInv, post.len > 0
  PROVE  Settled(Emptied)
<1>1. post \in Post /\ post.buffSize \in Nat /\ post.buffSize >= 1
  BY DEF IInv, TypeOK, Control, Post
<1>2. Emptied \in Post
  BY <1>1 DEF Post, Emptied
<1>3. Emptied.len = post.len /\ Emptied.buffSize = post.buffSize /\ Emptied.buffLen = 0
  BY <1>1 DEF Post, Emptied
<1>4. post.len \in Int
  BY <1>1 DEF Post
<1> QED
  BY <1>1, <1>2, <1>3, <1>4 DEF Settled

\* A part of a body is handed to the CGI function, or is the first one.
LEMMA BodyChunkSends ==
  ASSUME IInv, BodyChunk
  PROVE  CgiStep(inflight, Emptied) /\ SendStep(inflight)
<1>1. Settled(Emptied)
  BY EmptiedSettled DEF BodyChunk, IInv, Control
<1>2. Emptied \in Post /\ calls \in Nat
  BY <1>1 DEF Settled, IInv, TypeOK
<1>3. IF cgi # "none" THEN CallCgi(cgi, calls, inflight, Emptied, "body") ELSE ProcessRequest(Emptied)
  BY DEF BodyChunk
<1>4. CASE cgi # "none"
  <2>1. cgi \in CgiKinds /\ calls # 0
    BY <1>4 DEF IInv, TypeOK, Control
  <2> QED
    BY <1>2, <1>3, <1>4, <2>1, InflightReady, CallStep DEF IInv, CgiStep
<1>5. CASE cgi = "none"
  BY <1>2, <1>3, <1>5, InflightReady, ProcessStep DEF IInv, CgiStep
<1> QED
  BY <1>4, <1>5

\* The step that hands over a part of a body keeps the invariant.
LEMMA BodyChunkInv ==
  ASSUME IInv, BodyChunk
  PROVE  IInv'
<1>1. Settled(Emptied)
  BY EmptiedSettled DEF BodyChunk, IInv, Control
<1> QED
  BY <1>1, BodyChunkSends, CgiStepInv DEF BodyChunk, IInv, TypeOK

\* The flush at the end of a segment.
LEMMA RecvEndInv ==
  ASSUME IInv, RecvEnd
  PROVE  IInv' /\ SendStep(inflight)
<1>1. SendStep(inflight)
  BY InflightReady, FlushSends DEF RecvEnd, IInv, TypeOK
<1> QED
  BY <1>1, ReceivedInv DEF RecvEnd, cgiVars, IInv, TypeOK

\* The backlog goes on: the SDK takes its head, or it is lost for want of memory.
LEMMA BacklogSends ==
  ASSUME IInv, inflight # <<>>, backlog # <<>>,
         \/ inflight' = Append(Tail(inflight), Head(backlog)) /\ wire' = wire \o Head(backlog)
         \/ SdkMayRefuse(Tail(inflight)) /\ inflight' = Tail(inflight) /\ UNCHANGED wire,
         backlog' = Tail(backlog), backlogSize' = backlogSize - Len(Head(backlog)),
         UNCHANGED <<sendBuff, short>>
  PROVE  /\ sendBuff' \in Packet /\ backlog' \in Seq(Packet) /\ backlogSize' \in Int
         /\ inflight' \in Seq(Packet) /\ wire' \in Seq(Item)
         /\ Len(inflight') <= SdkDepth
         /\ ~short /\ backlog' # <<>> => Len(inflight') = SdkDepth
         /\ ~short => inflight' \o backlog' = Tail(inflight \o backlog)
<1>1. SdkDepth \in Nat \ {0}
  BY ConnAssumption
<1>2. /\ sendBuff \in Packet /\ backlog \in Seq(Packet) /\ backlogSize \in Int
      /\ inflight \in Seq(Packet) /\ wire \in Seq(Item) /\ Len(inflight) <= SdkDepth
      /\ ~short => Len(inflight) = SdkDepth
  BY DEF IInv, TypeOK, Control, BacklogHasASentCb
<1>3. Head(backlog) \in Packet /\ Tail(backlog) \in Seq(Packet) /\ Tail(inflight) \in Seq(Packet)
      /\ Len(Tail(inflight)) = Len(inflight) - 1 /\ Len(inflight) \in Nat
  BY <1>2
<1>4. Len(Head(backlog)) \in Nat /\ wire \o Head(backlog) \in Seq(Item)
  BY <1>2, <1>3 DEF Packet
<1>5. ~short => ~SdkMayRefuse(Tail(inflight))
  BY <1>1, <1>2, <1>3 DEF SdkMayRefuse
<1>6. inflight' \in Seq(Packet) /\ wire' \in Seq(Item) /\ Len(inflight') <= SdkDepth
      /\ (~short => Len(inflight') = SdkDepth)
  <2>1. CASE inflight' = Append(Tail(inflight), Head(backlog)) /\ wire' = wire \o Head(backlog)
    <3>1. inflight' \in Seq(Packet) /\ Len(inflight') = Len(Tail(inflight)) + 1
      BY <1>3, <2>1
    <3>2. Len(Tail(inflight)) + 1 = Len(inflight)
      BY <1>3
    <3>3. wire' \in Seq(Item)
      BY <1>4, <2>1
    <3> QED
      BY <1>2, <3>1, <3>2, <3>3
  <2>2. CASE SdkMayRefuse(Tail(inflight)) /\ inflight' = Tail(inflight) /\ UNCHANGED wire
    <3>1. Len(Tail(inflight)) <= SdkDepth
      BY TailReady, <1>1, <1>3
    <3>2. inflight' \in Seq(Packet) /\ Len(inflight') <= SdkDepth
      BY <1>3, <2>2, <3>1
    <3>3. wire' \in Seq(Item) /\ short
      BY <1>2, <1>5, <2>2
    <3> QED
      BY <3>2, <3>3
  <2> QED
    BY <2>1, <2>2
<1>7. ~short => inflight' \o backlog' = Tail(inflight \o backlog)
  BY <1>2, <1>5, HeadMovesUp
<1>8. sendBuff' \in Packet /\ backlog' \in Seq(Packet) /\ backlogSize' \in Int
  BY <1>2, <1>3, <1>4
<1> QED
  BY <1>6, <1>7, <1>8

\* What httpdSentCb does: it advances the backlog, leaves the oldest packet, or calls
\* the CGI function.
LEMMA SentCbCases ==
  ASSUME IInv, SentCb
  PROVE  /\ recv = "idle" /\ recv' = "idle" /\ link' \in {"down", "up", "closing"}
         /\ inflight # <<>>
         /\ UNCHANGED <<cur, short, client>>
         /\ \/ /\ backlog # <<>>
               /\ \/ inflight' = Append(Tail(inflight), Head(backlog)) /\ wire' = wire \o Head(backlog)
                  \/ SdkMayRefuse(Tail(inflight)) /\ inflight' = Tail(inflight) /\ UNCHANGED wire
               /\ backlog' = Tail(backlog) /\ backlogSize' = backlogSize - Len(Head(backlog))
               /\ UNCHANGED <<post, stray, flags, answers, sendBuff, cgi, calls, held, eaten>>
            \/ /\ backlog = <<>>
               /\ inflight' = Tail(inflight)
               /\ UNCHANGED <<post, stray, flags, answers, sendBuff, backlog, backlogSize, wire,
                              cgi, calls, held, eaten>>
            \/ /\ backlog = <<>> /\ cgi # "none"
               /\ CgiStep(Tail(inflight), post)
<1>1. CASE backlog # <<>>
  BY <1>1 DEF SentCb, BacklogGoesOn, HeadSent, cgiVars, IInv, TypeOK
<1>2. CASE backlog = <<>> /\ (flags.discon \/ cgi = "none")
  BY <1>2 DEF SentCb, BacklogGoesOn, HeadSent, cgiVars, IInv, TypeOK
<1>3. CASE backlog = <<>> /\ ~flags.discon /\ cgi # "none"
  <2>1. /\ CallCgi(cgi, calls, Tail(inflight), post, "sent") /\ link' = link
        /\ inflight # <<>> /\ recv = "idle" /\ UNCHANGED <<recv, cur, short, client>>
    BY <1>3 DEF SentCb, BacklogGoesOn
  <2>2. cgi \in CgiKinds /\ calls \in Nat /\ calls # 0 /\ post \in Post /\ link \in {"down", "up", "closing"}
    BY <1>3 DEF IInv, TypeOK, Control
  <2>3. SendReady(Tail(inflight))
    BY <1>3, <2>1, TailReady
  <2>4. CgiStep(Tail(inflight), post)
    BY <1>3, <2>1, <2>2, <2>3, CallStep DEF IInv
  <2> QED
    BY <1>3, <2>1, <2>2, <2>4
<1> QED
  BY <1>1, <1>2, <1>3

\* The SDK reports a packet.
LEMMA SentCbInv ==
  ASSUME IInv, SentCb
  PROVE  IInv'
<1>1. /\ recv = "idle" /\ recv' = "idle" /\ link' \in {"down", "up", "closing"}
      /\ inflight # <<>>
      /\ UNCHANGED <<cur, short, client>>
  BY SentCbCases
<1>2. CASE /\ backlog # <<>>
           /\ \/ inflight' = Append(Tail(inflight), Head(backlog)) /\ wire' = wire \o Head(backlog)
              \/ SdkMayRefuse(Tail(inflight)) /\ inflight' = Tail(inflight) /\ UNCHANGED wire
           /\ backlog' = Tail(backlog) /\ backlogSize' = backlogSize - Len(Head(backlog))
           /\ UNCHANGED <<post, stray, flags, answers, sendBuff, cgi, calls, held, eaten>>
  <2>1. /\ sendBuff' \in Packet /\ backlog' \in Seq(Packet) /\ backlogSize' \in Int
        /\ inflight' \in Seq(Packet) /\ wire' \in Seq(Item)
        /\ Len(inflight') <= SdkDepth
        /\ ~short /\ backlog' # <<>> => Len(inflight') = SdkDepth
    BY <1>1, <1>2, BacklogSends
  <2> QED
    BY <1>1, <1>2, <2>1
    DEF IInv, TypeOK, Control, HeaderPhaseHasNoCgi, ResourcesReleased, PostBufferInBounds, BacklogHasASentCb
<1>3. CASE /\ backlog = <<>>
           /\ inflight' = Tail(inflight)
           /\ UNCHANGED <<post, stray, flags, answers, sendBuff, backlog, backlogSize, wire,
                          cgi, calls, held, eaten>>
  <2>1. inflight' \in Seq(Packet) /\ Len(inflight') <= SdkDepth
    <3>1. Tail(inflight) \in Seq(Packet) /\ Len(Tail(inflight)) < SdkDepth
      BY <1>1, TailReady
    <3>2. Len(Tail(inflight)) \in Nat /\ SdkDepth \in Nat
      BY <3>1, ConnAssumption
    <3> QED
      BY <1>3, <3>1, <3>2
  <2> QED
    BY <1>1, <1>3, <2>1
    DEF IInv, TypeOK, Control, HeaderPhaseHasNoCgi, ResourcesReleased, PostBufferInBounds, BacklogHasASentCb
<1>4. CASE cgi # "none" /\ CgiStep(Tail(inflight), post)
  <2>1. Settled(post)
    BY <1>1, <1>4 DEF IInv, TypeOK, Control, HeaderPhaseHasNoCgi, PostBufferInBounds, Post, Settled
  <2> QED
    BY <1>1, <1>4, <2>1, CgiStepInv
<1> QED
  BY <1>2, <1>3, <1>4, SentCbCases

\* The connection closes: everything is released.
LEMMA DisconCbInv ==
  ASSUME IInv, DisconCb
  PROVE  IInv'
<1>1. /\ FreshPost \in Post /\ FreshPost.len = -1 /\ NoFlags \in Flags
      /\ <<>> \in Seq(Packet) /\ Len(<<>>) = 0
  BY EmptySeq DEF FreshPost, NoFlags, Post, Flags
<1>2. /\ link' = "down" /\ recv' = "idle" /\ post' = FreshPost /\ stray' = FALSE /\ flags' = NoFlags
      /\ cgi' = "none" /\ calls' = 0 /\ eaten' = 0
      /\ cur' = [num |-> 0, kind |-> "unknown"]
      /\ backlog' = <<>> /\ backlogSize' = 0 /\ inflight' = <<>>
      /\ UNCHANGED <<short, client, answers, sendBuff, wire>>
  BY DEF DisconCb
<1>3. held' = 0
  BY DEF DisconCb, IInv, ResourcesReleased
<1>4. cur' \in [num : Nat, kind : CgiKinds \cup {"cors", "unknown"}]
  BY <1>2
<1>5. TypeOK'
  <2>1. /\ short' \in BOOLEAN /\ answers' \in Nat /\ sendBuff' \in Packet /\ wire' \in Seq(Item)
        /\ client' \in [reqs : Nat, left : Nat, pipe : BOOLEAN]
    BY <1>2 DEF IInv, TypeOK
  <2>2. /\ post' \in Post /\ flags' \in Flags /\ backlog' \in Seq(Packet) /\ inflight' \in Seq(Packet)
    BY <1>1, <1>2
  <2>3. /\ cgi' \in CgiKinds \cup {"none"} /\ calls' \in Nat /\ eaten' \in Nat /\ held' \in Int
        /\ backlogSize' \in Int
    BY <1>2, <1>3
  <2>4. /\ link' \in {"down", "up", "closing"} /\ recv' \in {"idle", "loop", "head", "body"}
        /\ stray' \in BOOLEAN
    BY <1>2
  <2> QED
    BY <1>4, <2>1, <2>2, <2>3, <2>4 DEF TypeOK
<1>6. Control'
  BY <1>1, <1>2, ConnAssumption DEF Control
<1> QED
  BY <1>1, <1>2, <1>3, <1>5, <1>6
  DEF IInv, HeaderPhaseHasNoCgi, ResourcesReleased, PostBufferInBounds, BacklogHasASentCb

\* Every step keeps the invariant.
LEMMA StepInv == IInv /\ [Next]_vars => IInv'
<1> SUFFICES ASSUME IInv, [Next]_vars
             PROVE  IInv'
  OBVIOUS
<1>1. CASE MemoryGetsShort
  BY <1>1 DEF MemoryGetsShort, cgiVars, sendVars, IInv, TypeOK, Control, HeaderPhaseHasNoCgi,
              ResourcesReleased, PostBufferInBounds, BacklogHasASentCb
<1>2. CASE ConnectCb
  BY <1>2 DEF ConnectCb, cgiVars, sendVars, IInv, TypeOK, Control, HeaderPhaseHasNoCgi,
              ResourcesReleased, PostBufferInBounds, BacklogHasASentCb
<1>3. CASE UNCHANGED vars
  BY <1>3 DEF vars, cgiVars, sendVars, IInv, TypeOK, Control, HeaderPhaseHasNoCgi,
              ResourcesReleased, PostBufferInBounds, BacklogHasASentCb
<1> QED
  BY <1>1, <1>2, <1>3, RecvHeadInv, HeadCompleteInv, RecvByteInv, BodyChunkInv, RecvEndInv,
     SentCbInv, DisconCbInv DEF Next

\* The inductive invariant holds of every behaviour.
THEOREM ConnInvariant == Spec => []IInv
BY InitInv, StepInv, PTL DEF Spec

\* The variables of the connection keep their types.
THEOREM ConnTypes == Spec => []TypeOK
<1>1. IInv => TypeOK
  BY DEF IInv
<1> QED
  BY <1>1, ConnInvariant, PTL

\* While a request head is awaited no CGI function is left running.
THEOREM ConnHeaderPhase == Spec => []HeaderPhaseHasNoCgi
<1>1. IInv => HeaderPhaseHasNoCgi
  BY DEF IInv
<1> QED
  BY <1>1, ConnInvariant, PTL

\* What a CGI function acquires is released exactly once.
THEOREM ConnReleases == Spec => []ResourcesReleased
<1>1. IInv => ResourcesReleased
  BY DEF IInv
<1> QED
  BY <1>1, ConnInvariant, PTL

\* The post buffer is never written beyond its end, whatever the sizes.
THEOREM ConnPostBuffer == Spec => []PostBufferInBounds
<1>1. IInv => PostBufferInBounds
  BY DEF IInv
<1> QED
  BY <1>1, ConnInvariant, PTL

\* While memory lasts a backlog never waits for a report that does not come.
THEOREM ConnBacklogMoves == Spec => []BacklogHasASentCb
<1>1. IInv => BacklogHasASentCb
  BY DEF IInv
<1> QED
  BY <1>1, ConnInvariant, PTL

----------------------------------------------------------------------------
\* The SDK's packets and the backlog implement SendQueue.

\* A step that leaves the order of the packets alone, or adds one behind them, is a
\* step of the queue while memory lasts; without memory any step is.
LEMMA OrderKept ==
  ASSUME IInv, [Next]_vars,
         ~short' => \/ inflight' \o backlog' = inflight \o backlog
                    \/ Longer(inflight \o backlog, inflight' \o backlog')
                    \/ /\ inflight \o backlog # <<>>
                       /\ \/ inflight' \o backlog' = Tail(inflight \o backlog)
                          \/ Longer(Tail(inflight \o backlog), inflight' \o backlog')
                    \/ inflight' \o backlog' = <<>>
  PROVE  [Queue!Next]_<<inflight \o backlog, ~short>>
<1>1. short' => Queue!Next
  BY DEF Queue!Next
<1>2. short \in BOOLEAN /\ short' \in BOOLEAN
  BY StepInv DEF IInv, TypeOK
<1>3. short => short'
  BY DEF Next, vars, MemoryGetsShort, ConnectCb, RecvHead, HeadComplete, RecvByte, BodyChunk, RecvEnd, SentCb,
         DisconCb
<1>4. CASE ~short'
  <2>1. ~short
    BY <1>3, <1>4
  <2>2. CASE inflight' \o backlog' = inflight \o backlog
    BY <1>2, <1>4, <2>1, <2>2
  <2>3. CASE Longer(inflight \o backlog, inflight' \o backlog')
    BY <1>2, <1>4, <2>1, <2>3 DEF Longer, Queue!Next, Queue!Flushed, Queue!OneBehind
  <2>4. CASE inflight \o backlog # <<>> /\ inflight' \o backlog' = Tail(inflight \o backlog)
    BY <1>2, <1>4, <2>1, <2>4 DEF Queue!Next, Queue!Sent
  <2>5. CASE inflight \o backlog # <<>> /\ Longer(Tail(inflight \o backlog), inflight' \o backlog')
    BY <1>2, <1>4, <2>1, <2>5 DEF Longer, Queue!Next, Queue!SentAndFlushed, Queue!OneBehind
  <2>6. CASE inflight' \o backlog' = <<>>
    BY <1>2, <1>4, <2>1, <2>6 DEF Queue!Next, Queue!Closed
  <2> QED
    BY <1>4, <2>2, <2>3, <2>4, <2>5, <2>6
<1> QED
  BY <1>1, <1>2, <1>4

\* A flush to what the SDK holds is a step of the queue.
LEMMA SendKeepsOrder ==
  ASSUME IInv, [Next]_vars, short' = short, SendStep(inflight)
  PROVE  [Queue!Next]_<<inflight \o backlog, ~short>>
BY OrderKept DEF SendStep

\* Every step is a step of the queue.
LEMMA QueueStep ==
  ASSUME IInv, [Next]_vars
  PROVE  [Queue!Next]_<<inflight \o backlog, ~short>>
<1>1. CASE MemoryGetsShort
  BY <1>1, OrderKept DEF MemoryGetsShort
<1>2. CASE /\ UNCHANGED <<inflight, backlog>>
  <2>1. inflight' \o backlog' = inflight \o backlog
    BY <1>2
  <2> QED
    BY <2>1, OrderKept
<1>3. CASE HeadComplete
  <2>1. post.len = 0 /\ cgi = "none" /\ post \in Post
    BY <1>3 DEF HeadComplete, IInv, Control, TypeOK
  <2>2. CgiStep(inflight, post)
    BY <1>3, <2>1, InflightReady, ProcessStep DEF HeadComplete, IInv
  <2> QED
    BY <1>3, <2>2, SendKeepsOrder DEF CgiStep, HeadComplete
<1>4. CASE BodyChunk
  BY <1>4, BodyChunkSends, SendKeepsOrder DEF BodyChunk
<1>5. CASE RecvEnd
  BY <1>5, RecvEndInv, SendKeepsOrder DEF RecvEnd
<1>6. CASE SentCb
  <2>1. inflight \in Seq(Packet) /\ backlog \in Seq(Packet) /\ inflight # <<>> /\ short' = short
    BY <1>6, SentCbCases DEF IInv, TypeOK
  <2>2. inflight \o backlog # <<>>
    BY <2>1
  <2>3. CASE backlog # <<>>
    <3>1. ~short => inflight' \o backlog' = Tail(inflight \o backlog)
      BY <1>6, <2>3, SentCbCases, BacklogSends
    <3> QED
      BY <2>1, <2>2, <3>1, OrderKept
  <2>4. CASE backlog = <<>>
    <3>1. Tail(inflight \o backlog) = Tail(inflight) \o backlog
      BY <2>1, <2>4
    <3>2. CASE inflight' = Tail(inflight) /\ backlog' = backlog
      <4>1. inflight' \o backlog' = Tail(inflight \o backlog)
        BY <3>1, <3>2
      <4> QED
        BY <2>2, <4>1, OrderKept
    <3>3. CASE SendStep(Tail(inflight))
      <4>1. ~short => \/ inflight' \o backlog' = Tail(inflight) \o backlog
                      \/ Longer(Tail(inflight) \o backlog, inflight' \o backlog')
        BY <3>3 DEF SendStep
      <4>2. ~short => \/ inflight' \o backlog' = Tail(inflight \o backlog)
                      \/ Longer(Tail(inflight \o backlog), inflight' \o backlog')
        BY <3>1, <4>1
      <4> QED
        BY <2>1, <2>2, <4>2, OrderKept
    <3> QED
      BY <1>6, <2>4, <3>2, <3>3, SentCbCases DEF CgiStep
  <2> QED
    BY <2>3, <2>4
<1>7. CASE DisconCb
  <2>1. inflight' \o backlog' = <<>>
    BY <1>7, EmptySeq, ConcatEmptySeq DEF DisconCb
  <2> QED
    BY <2>1, OrderKept
<1>8. UNCHANGED vars \/ ConnectCb \/ RecvByte \/ (\E r \in Requests : RecvHead(r)) => UNCHANGED <<inflight, backlog>>
  BY DEF vars, sendVars, ConnectCb, RecvByte, RecvHead
<1> QED
  BY <1>1, <1>2, <1>3, <1>4, <1>5, <1>6, <1>7, <1>8 DEF Next

\* Packets leave in the order of the flushes and none is lost, while memory lasts.
THEOREM ConnSendsInOrder == Spec => SendsInOrder
<1>1. Init => Queue!Init
  <2> SUFFICES ASSUME Init PROVE Queue!Init
    OBVIOUS
  <2>1. inflight \o backlog = <<>>
    BY EmptySeq, ConcatEmptySeq DEF Init
  <2> QED
    BY <2>1 DEF Init, Queue!Init
<1>2. IInv /\ [Next]_vars => [Queue!Next]_<<inflight \o backlog, ~short>>
  BY QueueStep
<1> QED
  BY <1>1, <1>2, ConnInvariant, PTL DEF Spec, SendsInOrder, Queue!Spec

----------------------------------------------------------------------------
(***************************************************************************)
(* What a connection sends, and how it takes note of requests, on top of   *)
(* the invariant proved so far.                                            *)
(*                                                                         *)
(* A call of a CGI function is summarised once more, by CallWrites: it     *)
(* extends the send buffer by at most its data and a terminator, and       *)
(* flushes it at most once. Line is what the SDK was given with what waits *)
(* for it in the backlog; a flush either leaves it or puts the buffer      *)
(* behind it.                                                              *)
(***************************************************************************)

\* Send buffers a CGI function leaves in a call that is not its last, and in any call.
Response(c, n) == c = sendBuff \/ c = Append(sendBuff, Data(n))
Ended(c, n) == \E b \in Packet : Response(b, n) /\ (c = b \/ c = Append(b, Terminator(n)))

\* The send buffer c is flushed, or left for a later flush.
Delivered(q, c) == (\E keep \in BOOLEAN : Flush(q, c, keep)) \/ NoFlush(q, c)

\* How a request that was answered leaves the connection.
ReadyOrMarked(after) ==
  \/ post' = NextHead /\ stray' = FALSE
  \/ post' = after /\ flags'.discon /\ stray' = stray

\* What is put into a send buffer, if there is room for it.
LEMMA PutResponse ==
  ASSUME TypeOK, NEW n \in Nat
  PROVE  Put(sendBuff, Data(n)) \in Packet /\ Response(Put(sendBuff, Data(n)), n)
<1>1. sendBuff \in Packet /\ Data(n) \in Item
  BY ItemTypes DEF TypeOK
<1>2. Put(sendBuff, Data(n)) \in Packet
  BY <1>1, PutPacket
<1> QED
  BY <1>2 DEF Put, Response

\* The end of a response, whose send buffer was b.
LEMMA DoneWrites ==
  ASSUME TypeOK, NEW n \in Nat, NEW STATE q, NEW STATE b, b \in Packet, NEW STATE body, body \in BOOLEAN,
         NEW STATE after, NEW caller, Response(b, n), CgiIsDone(n, q, b, body, after, caller)
  PROVE  \E c \in Packet : /\ Delivered(q, c) /\ Ended(c, n)
                           /\ caller = "sent" => Flush(q, c, FALSE)
                           /\ cgi' = "none" /\ answers' = answers + 1
                           /\ ReadyOrMarked(after)
<1>1. cgi' = "none" /\ answers' = answers + 1
  BY DEF CgiIsDone
<1>2. CASE flags.chunked
  <2>1. PICK c \in Packet : c = IF body THEN Append(b, Terminator(n)) ELSE b
    <3>1. Append(b, Terminator(n)) \in Packet
      BY ItemTypes, PutPacket
    <3> QED
      BY <3>1
  <2>2. Flush(q, c, caller # "sent")
    BY <1>2, <2>1, Zenon DEF CgiIsDone, EndResponse
  <2>3. Delivered(q, c) /\ (caller = "sent" => Flush(q, c, FALSE))
    <3>1. (caller # "sent") \in BOOLEAN
      OBVIOUS
    <3>2. CASE caller = "sent"
      <4>1. (caller # "sent") = FALSE
        BY <3>2
      <4>2. Flush(q, c, FALSE)
        BY <2>2, <4>1, Zenon
      <4> QED
        BY <4>2 DEF Delivered
    <3>3. CASE caller # "sent"
      BY <2>2, <3>1, <3>3, Zenon DEF Delivered
    <3> QED
      BY <3>2, <3>3
  <2>4. Ended(c, n)
    BY <2>1 DEF Ended
  <2>5. ReadyOrMarked(after)
    BY <1>2, Zenon DEF CgiIsDone, EndResponse, NextHead, ReadyOrMarked
  <2> QED
    BY <1>1, <2>3, <2>4, <2>5
<1>3. CASE ~flags.chunked
  <2>1. Delivered(q, b) /\ (caller = "sent" => Flush(q, b, FALSE))
    BY <1>3, Zenon DEF CgiIsDone, EndResponse, Delivered
  <2>2. Ended(b, n)
    BY DEF Ended
  <2>3. ReadyOrMarked(after)
    <3>1. flags' = [flags EXCEPT !.body = body, !.discon = TRUE] /\ post' = after /\ stray' = stray
      BY <1>3, Zenon DEF CgiIsDone, EndResponse
    <3>2. flags'.discon
      BY <3>1 DEF TypeOK, Flags
    <3> QED
      BY <3>1, <3>2 DEF ReadyOrMarked
  <2> QED
    BY <1>1, <2>1, <2>2, <2>3
<1> QED
  BY <1>2, <1>3

\* A call of a CGI function: what it makes of the send buffer, of the resources, and of the
\* post state.
LEMMA CallWrites ==
  ASSUME TypeOK, NEW STATE kind, kind \in CgiKinds, NEW STATE n, n \in Nat, NEW STATE q, NEW STATE after, NEW caller,
         CallCgi(kind, n, q, after, caller)
  PROVE  /\ calls' = n + 1
         /\ eaten' = (IF n = 0 THEN 0 ELSE eaten) + post.buffLen
         /\ \E c \in Packet :
              /\ Delivered(q, c)
              /\ caller = "sent" => Flush(q, c, FALSE)
              /\ \/ /\ cgi' = "none" /\ answers' = answers + 1
                    /\ ReadyOrMarked(after)
                    /\ kind = "upload" => post.received = post.len
                    /\ Ended(c, n + 1)
                 \/ /\ cgi' = kind /\ post' = after
                    /\ UNCHANGED <<answers, stray>>
                    /\ Response(c, n + 1)
                    /\ kind = "upload" => post.received # post.len /\ c = sendBuff
<1>1. PICK o \in CgiReturns(kind, n) :
        LET b == IF o.writes THEN Put(sendBuff, Data(n + 1)) ELSE sendBuff
            body == flags.body \/ (o.writes /\ ~o.bare)
        IN  IF o.done
              THEN /\ CgiIsDone(n + 1, q, b, body, after, caller)
                   /\ held' = IF n = 0 THEN held ELSE held - 1
              ELSE /\ cgi' = kind
                   /\ held' = IF n = 0 THEN held + 1 ELSE held
                   /\ flags' = [flags EXCEPT !.body = body]
                   /\ post' = after
                   /\ IF caller = "body" THEN NoFlush(q, b) ELSE Flush(q, b, caller # "sent")
                   /\ UNCHANGED <<answers, stray>>
  BY DEF CallCgi
<1> DEFINE b == IF o.writes THEN Put(sendBuff, Data(n + 1)) ELSE sendBuff
           body == flags.body \/ (o.writes /\ ~o.bare)
<1>2. /\ o.writes \in BOOLEAN /\ o.done \in BOOLEAN
      /\ kind = "upload" => o.writes = o.done /\ o.done = (post.received = post.len)
  BY DEF CgiReturns
<1>3. n + 1 \in Nat
  OBVIOUS
<1>4. b \in Packet /\ body \in BOOLEAN /\ Response(b, n + 1) /\ (~o.writes => b = sendBuff)
  <2>1. sendBuff \in Packet /\ body \in BOOLEAN /\ Response(sendBuff, n + 1)
    BY <1>2 DEF TypeOK, Flags, Response
  <2>2. Put(sendBuff, Data(n + 1)) \in Packet /\ Response(Put(sendBuff, Data(n + 1)), n + 1)
    BY <1>3, PutResponse
  <2> QED
    BY <2>1, <2>2, Zenon
<1>5. calls' = n + 1 /\ eaten' = (IF n = 0 THEN 0 ELSE eaten) + post.buffLen
  BY DEF CallCgi
<1>6. CASE o.done
  <2>1. CgiIsDone(n + 1, q, b, body, after, caller)
    BY <1>1, <1>6
  <2> HIDE DEF b, body
  <2>2. PICK c \in Packet : /\ Delivered(q, c) /\ Ended(c, n + 1)
                            /\ caller = "sent" => Flush(q, c, FALSE)
                            /\ cgi' = "none" /\ answers' = answers + 1
                            /\ ReadyOrMarked(after)
    BY <1>3, <1>4, <2>1, DoneWrites
  <2>3. kind = "upload" => post.received = post.len
    BY <1>2, <1>6
  <2> QED
    BY <1>5, <2>2, <2>3
<1>7. CASE ~o.done
  <2>1. /\ cgi' = kind /\ post' = after /\ UNCHANGED <<answers, stray>>
        /\ IF caller = "body" THEN NoFlush(q, b) ELSE Flush(q, b, caller # "sent")
    BY <1>1, <1>7
  <2>2. kind = "upload" => post.received # post.len /\ b = sendBuff
    BY <1>2, <1>4, <1>7
  <2> HIDE DEF b, body
  <2>3. Delivered(q, b) /\ (caller = "sent" => Flush(q, b, FALSE))
    <3>1. (caller # "sent") \in BOOLEAN
      OBVIOUS
    <3>2. CASE caller = "sent"
      <4>1. (caller # "sent") = FALSE /\ caller # "body"
        BY <3>2
      <4>2. Flush(q, b, FALSE)
        BY <2>1, <4>1, Zenon
      <4> QED
        BY <4>2 DEF Delivered
    <3>3. CASE caller # "sent"
      BY <2>1, <3>1, <3>3, Zenon DEF Delivered
    <3> QED
      BY <3>2, <3>3
  <2> QED
    BY <1>4, <1>5, <2>1, <2>2, <2>3
<1> QED
  BY <1>2, <1>6, <1>7

\* Dispatching a request is the first call of a CGI function, or an answer, or nothing at all.
LEMMA ProcessWrites ==
  ASSUME TypeOK, cgi = "none", NEW STATE after, ProcessRequest(after)
  PROVE  \/ /\ cur.kind = "unknown" /\ post' = after
            /\ UNCHANGED <<stray, answers, cgi, calls, eaten, sendBuff, backlog, backlogSize, inflight, wire>>
         \/ /\ cur.kind = "cors"
            /\ cgi' = "none" /\ answers' = answers + 1 /\ ReadyOrMarked(after)
            /\ \E c \in Packet : Delivered(inflight, c) /\ Ended(c, 1)
         \/ /\ cur.kind \in CgiKinds
            /\ CallCgi(cur.kind, 0, inflight, after, "request")
<1>1. CASE /\ cur.kind = "cors"
           /\ CgiIsDone(1, inflight, Put(sendBuff, Data(1)), TRUE, after, "request")
  <2>1. Put(sendBuff, Data(1)) \in Packet /\ Response(Put(sendBuff, Data(1)), 1)
    BY PutResponse
  <2>2. \E c \in Packet : /\ Delivered(inflight, c) /\ Ended(c, 1)
                          /\ cgi' = "none" /\ answers' = answers + 1
                          /\ ReadyOrMarked(after)
    BY <1>1, <2>1, DoneWrites
  <2> QED
    BY <1>1, <2>2
<1> QED
  BY <1>1 DEF ProcessRequest, cgiVars, sendVars

----------------------------------------------------------------------------
\* The size of the backlog.

\* A packet joins the backlog with its length, and only below the limit.
LEMMA DeliveredAccounted ==
  ASSUME TypeOK, BacklogAccounted, NEW STATE q, NEW STATE c, c \in Packet, Delivered(q, c)
  PROVE  BacklogAccounted'
<1>1. CASE UNCHANGED <<backlog, backlogSize>>
  BY <1>1 DEF BacklogAccounted
<1>2. CASE backlogSize + Len(c) <= MaxBacklog /\ ToBacklog(c)
  <2>1. backlog \in Seq(Seq(Item)) /\ c \in Seq(Item) /\ backlogSize = Len(FlattenSeq(backlog))
    BY DEF TypeOK, Packet, BacklogAccounted
  <2>2. FlattenSeq(Append(backlog, c)) = FlattenSeq(backlog) \o c /\ FlattenSeq(backlog) \in Seq(Item)
    BY <2>1, FlattenAppend, FlattenType
  <2>3. ASSUME NEW s \in Seq(Item) PROVE Len(s \o c) = Len(s) + Len(c)
    BY <2>1
  <2>4. Len(FlattenSeq(backlog) \o c) = Len(FlattenSeq(backlog)) + Len(c)
    BY <2>2, <2>3, Zenon
  <2>5. backlogSize' = Len(FlattenSeq(backlog'))
    BY <1>2, <2>1, <2>2, <2>4, Zenon DEF ToBacklog
  <2> QED
    BY <1>2, <2>5, Zenon DEF BacklogAccounted, ToBacklog
<1>3. UNCHANGED <<backlog, backlogSize>> \/ (backlogSize + Len(c) <= MaxBacklog /\ ToBacklog(c))
  BY DEF Delivered, Flush, NoFlush
<1> QED
  BY <1>1, <1>2, <1>3

\* A call of a CGI function, or the dispatch of a request.
LEMMA ProcessAccounted ==
  ASSUME TypeOK, cgi = "none", BacklogAccounted, NEW STATE after, ProcessRequest(after)
  PROVE  BacklogAccounted'
<1>1. CASE UNCHANGED <<backlog, backlogSize>>
  BY <1>1 DEF BacklogAccounted
<1>2. CASE \E c \in Packet : Delivered(inflight, c)
  BY <1>2, DeliveredAccounted
<1>3. CASE cur.kind \in CgiKinds /\ CallCgi(cur.kind, 0, inflight, after, "request")
  BY <1>3, CallWrites, DeliveredAccounted
<1> QED
  BY <1>1, <1>2, <1>3, ProcessWrites

\* The head of the backlog leaves it with its length.
LEMMA HeadAccounted ==
  ASSUME TypeOK, BacklogAccounted, NEW STATE q, BacklogGoesOn(q)
  PROVE  BacklogAccounted'
<1>1. /\ backlog \in Seq(Seq(Item)) /\ backlog # <<>> /\ backlogSize = Len(FlattenSeq(backlog))
      /\ backlogSize <= MaxBacklog
      /\ backlog' = Tail(backlog) /\ backlogSize' = backlogSize - Len(Head(backlog))
  BY DEF TypeOK, Packet, BacklogAccounted, BacklogGoesOn
<1>2. Tail(backlog) \in Seq(Seq(Item)) /\ Head(backlog) \in Seq(Item)
  BY <1>1
<1>3. FlattenSeq(backlog) = Head(backlog) \o FlattenSeq(Tail(backlog)) /\ FlattenSeq(Tail(backlog)) \in Seq(Item)
  BY <1>1, <1>2, FlattenHead, FlattenType
<1>4. ASSUME NEW s \in Seq(Item), NEW t \in Seq(Item)
      PROVE  Len(s \o t) = Len(s) + Len(t)
  OBVIOUS
<1>5. Len(FlattenSeq(backlog)) = Len(Head(backlog)) + Len(FlattenSeq(Tail(backlog)))
  BY <1>2, <1>3, <1>4, Zenon
<1>6. \E m \in Nat, n \in Nat : m = Len(Head(backlog)) /\ n = Len(FlattenSeq(Tail(backlog)))
  BY <1>2, <1>3, LenProperties
<1>7. PICK m \in Nat, n \in Nat : m = Len(Head(backlog)) /\ n = Len(FlattenSeq(Tail(backlog)))
  BY <1>6
<1>8. backlogSize = m + n /\ backlogSize' = backlogSize - m /\ backlogSize <= MaxBacklog /\ MaxBacklog \in Nat
  BY <1>1, <1>5, <1>7, ConnAssumption, Zenon
<1>9. backlogSize' = n /\ backlogSize' <= MaxBacklog
  BY <1>8
<1> QED
  BY <1>1, <1>7, <1>9, Zenon DEF BacklogAccounted

\* A step of any callback.
LEMMA StepAccounted ==
  ASSUME IInv, BacklogAccounted, [Next]_vars
  PROVE  BacklogAccounted'
<1>0. TypeOK
  BY DEF IInv
<1>1. CASE UNCHANGED <<backlog, backlogSize>>
  BY <1>1 DEF BacklogAccounted
<1>2. CASE HeadComplete
  BY <1>0, <1>2, ProcessAccounted DEF HeadComplete, IInv, Control
<1>3. CASE BodyChunk
  <2>1. CASE cgi = "none"
    BY <1>0, <1>3, <2>1, ProcessAccounted DEF BodyChunk
  <2>2. CASE cgi # "none"
    <3>1. CallCgi(cgi, calls, inflight, Emptied, "body") /\ cgi \in CgiKinds /\ calls \in Nat
      BY <1>0, <1>3, <2>2 DEF BodyChunk, TypeOK
    <3> QED
      BY <1>0, <3>1, CallWrites, DeliveredAccounted
  <2> QED
    BY <2>1, <2>2
<1>4. CASE RecvEnd
  <2>1. Delivered(inflight, sendBuff) /\ sendBuff \in Packet
    BY <1>0, <1>4 DEF RecvEnd, Delivered, TypeOK
  <2> QED
    BY <1>0, <2>1, DeliveredAccounted
<1>5. CASE SentCb
  <2>1. CASE BacklogGoesOn(Tail(inflight))
    BY <1>0, <2>1, HeadAccounted
  <2>2. CASE CallCgi(cgi, calls, Tail(inflight), post, "sent") /\ cgi # "none"
    <3>1. cgi \in CgiKinds /\ calls \in Nat
      BY <1>0, <2>2 DEF TypeOK
    <3> QED
      BY <1>0, <2>2, <3>1, CallWrites, DeliveredAccounted
  <2> QED
    BY <1>1, <1>5, <2>1, <2>2 DEF SentCb
<1>6. CASE DisconCb
  <2>1. backlog' = <<>> /\ backlogSize' = 0 /\ MaxBacklog \in Nat /\ Len(<<>>) = 0
    BY <1>6, ConnAssumption DEF DisconCb
  <2>2. FlattenSeq(backlog') = <<>>
    BY <2>1, FlattenEmpty, Zenon
  <2>3. 0 <= MaxBacklog
    BY <2>1
  <2> QED
    BY <2>1, <2>2, <2>3, Zenon DEF BacklogAccounted
<1> QED
  BY <1>1, <1>2, <1>3, <1>4, <1>5, <1>6
  DEF Next, vars, sendVars, MemoryGetsShort, ConnectCb, RecvHead, RecvByte

\* sendBacklogSize is the length of the backlog at any time, and within the limit.
THEOREM ConnBacklogAccounted == Spec => []BacklogAccounted
<1>1. Init => BacklogAccounted
  <2> SUFFICES ASSUME Init PROVE BacklogAccounted
    OBVIOUS
  <2>1. backlog = <<>> /\ backlogSize = 0 /\ 0 <= MaxBacklog /\ Len(<<>>) = 0
    BY ConnAssumption DEF Init
  <2>2. FlattenSeq(backlog) = <<>>
    BY <2>1, FlattenEmpty, Zenon
  <2> QED
    BY <2>1, <2>2, Zenon DEF BacklogAccounted
<1>2. IInv /\ BacklogAccounted /\ [Next]_vars => BacklogAccounted'
  BY StepAccounted
<1> QED
  BY <1>1, <1>2, ConnInvariant, PTL DEF Spec
----------------------------------------------------------------------------
\* The order of what is sent.

\* Only the upload CGI is sent a body that is longer than the post buffer: what the pages of the
\* firmware do.
LargeBodiesStream == \A r \in Requests : r.len > MaxPost => r.kind = "upload"

\* The request read last was not handed to a CGI function yet.
NotYet ==
  /\ cgi = "none"
  /\ recv \in {"head", "body"} \/ (post.len > 0 /\ post.received < post.len)

\* A CGI function that does not stream it gets its body whole, at once; an upload is done with the
\* last byte of its body. So nobody is done with a body that is still to come.
BodyInv ==
  /\ post.len <= 0 => post.received = 0 /\ post.buffLen = 0
  /\ post.len > 0 => client.left = post.len - post.received
  /\ recv = "body" => post.received = post.len \/ post.buffLen = post.buffSize
  /\ cgi \notin {"none", "upload"} /\ post.len > 0 => post.received = post.len
  /\ NotYet /\ cur.kind # "unknown" /\ post.len > 0 => post.buffLen = post.received
  /\ NotYet /\ cur.kind \notin {"unknown", "upload"} /\ post.len > 0 => post.buffSize = post.len

\* x may be sent before y.
Before(x, y) ==
  /\ x.req <= y.req
  /\ x.req = y.req => x.call <= y.call /\ ~x.end

InOrder(s) == \A i, j \in DOMAIN s : i < j => Before(s[i], s[j])

\* Everything in s may be sent before the data of call n, or belongs to this request or one before.
BeforeCall(s, n) == \A i \in DOMAIN s : Before(s[i], Data(n))
Received(s, n) == \A i \in DOMAIN s : s[i].req <= n

\* What the SDK was given and what waits for it, and behind it what the send buffer holds.
Line == wire \o FlattenSeq(backlog)
Written == Line \o sendBuff

OrderInv ==
  /\ cur.num <= client.reqs
  /\ ~short =>
       /\ recv = "idle" => sendBuff = <<>>
       /\ InOrder(Written)
       /\ Received(Written, client.reqs)
       /\ NotYet => \A i \in DOMAIN Written : Written[i].req < cur.num
       /\ cgi # "none" => BeforeCall(Written, calls)

\* One more item that everything in s may be sent before.
LEMMA InOrderAppend ==
  ASSUME NEW STATE s, s \in Seq(Item), NEW STATE x, x \in Item, InOrder(s), \A i \in DOMAIN s : Before(s[i], x)
  PROVE  InOrder(Append(s, x))
<1> DEFINE t == Append(s, x)
<1>1. t \in Seq(Item) /\ Len(t) = Len(s) + 1 /\ t[Len(s) + 1] = x /\ \A i \in 1 .. Len(s) : t[i] = s[i]
  OBVIOUS
<1>2. Len(s) \in Nat /\ DOMAIN s = 1 .. Len(s) /\ DOMAIN t = 1 .. Len(t)
  BY <1>1
<1> HIDE DEF t
<1>3. ASSUME NEW i \in DOMAIN t, NEW j \in DOMAIN t, i < j
      PROVE  Before(t[i], t[j])
  <2>1. i \in DOMAIN s /\ t[i] = s[i]
    BY <1>1, <1>2, <1>3
  <2>2. CASE j = Len(s) + 1
    BY <1>1, <2>1, <2>2
  <2>3. CASE j # Len(s) + 1
    <3>1. j \in DOMAIN s /\ t[j] = s[j]
      BY <1>1, <1>2, <2>3
    <3> QED
      BY <1>3, <2>1, <3>1 DEF InOrder
  <2> QED
    BY <2>2, <2>3
<1>4. InOrder(t)
  BY <1>3 DEF InOrder
<1> QED
  BY <1>4 DEF t

\* What holds of the items of a sequence holds of those of its first part.
LEMMA PartOf ==
  ASSUME NEW STATE s, s \in Seq(Item), NEW STATE t, t \in Seq(Item), NEW STATE m, m \in Nat
  PROVE  /\ InOrder(s \o t) => InOrder(s)
         /\ Received(s \o t, m) => Received(s, m)
         /\ BeforeCall(s \o t, m) => BeforeCall(s, m)
         /\ (\A i \in DOMAIN (s \o t) : (s \o t)[i].req < m) => \A i \in DOMAIN s : s[i].req < m
<1>1. /\ DOMAIN s \subseteq DOMAIN (s \o t)
      /\ \A i \in DOMAIN s : (s \o t)[i] = s[i]
  OBVIOUS
<1> DEFINE u == s \o t
<1>2. DOMAIN s \subseteq DOMAIN u /\ \A i \in DOMAIN s : u[i] = s[i]
  BY <1>1
<1> HIDE DEF u
<1>3. InOrder(u) => InOrder(s)
  BY <1>2 DEF InOrder
<1>4. Received(u, m) => Received(s, m)
  BY <1>2 DEF Received
<1>5. BeforeCall(u, m) => BeforeCall(s, m)
  BY <1>2 DEF BeforeCall
<1>6. (\A i \in DOMAIN u : u[i].req < m) => \A i \in DOMAIN s : s[i].req < m
  BY <1>2
<1> QED
  BY <1>3, <1>4, <1>5, <1>6 DEF u

\* The data of the next call goes behind everything, and so does the terminator.
LEMMA WritesBehind ==
  ASSUME TypeOK, NEW STATE s, s \in Seq(Item), NEW STATE n, n \in Nat, InOrder(s), BeforeCall(s, n)
  PROVE  /\ BeforeCall(s, n + 1) /\ Received(s, cur.num)
         /\ InOrder(Append(s, Data(n + 1))) /\ BeforeCall(Append(s, Data(n + 1)), n + 1)
         /\ InOrder(Append(s, Terminator(n))) /\ Received(Append(s, Terminator(n)), cur.num)
<1>1. /\ n + 1 \in Nat /\ cur.num \in Nat
      /\ Data(n) = [req |-> cur.num, call |-> n, end |-> FALSE]
      /\ Data(n + 1) = [req |-> cur.num, call |-> n + 1, end |-> FALSE]
      /\ Terminator(n) = [req |-> cur.num, call |-> n, end |-> TRUE]
      /\ Data(n + 1) \in Item /\ Terminator(n) \in Item
  <2>1. n + 1 \in Nat /\ cur.num \in Nat
    BY DEF TypeOK
  <2>2. Data(n + 1) \in Item /\ Terminator(n) \in Item
    BY <2>1, ItemTypes
  <2> QED
    BY <2>1, <2>2, Zenon DEF Data, Terminator
<1>2. ASSUME NEW i \in DOMAIN s
      PROVE  /\ Before(s[i], Data(n + 1)) /\ Before(s[i], Terminator(n)) /\ s[i].req <= cur.num
  <2>1. Before(s[i], Data(n)) /\ s[i] \in Item
    BY DEF BeforeCall
  <2> QED
    BY <1>1, <2>1 DEF Before, Item
<1>3. BeforeCall(s, n + 1) /\ Received(s, cur.num)
  BY <1>2 DEF BeforeCall, Received
<1>4. InOrder(Append(s, Data(n + 1))) /\ InOrder(Append(s, Terminator(n)))
  BY <1>1, <1>2, InOrderAppend
<1>5. ASSUME NEW STATE x, x \in Item, NEW i \in DOMAIN Append(s, x)
      PROVE  (i \in DOMAIN s /\ Append(s, x)[i] = s[i]) \/ Append(s, x)[i] = x
  OBVIOUS
<1>6. BeforeCall(Append(s, Data(n + 1)), n + 1)
  <2>1. Before(Data(n + 1), Data(n + 1))
    BY <1>1 DEF Before
  <2> QED
    BY <1>1, <1>2, <1>5, <2>1, Zenon DEF BeforeCall
<1>7. Received(Append(s, Terminator(n)), cur.num)
  <2>1. Terminator(n).req <= cur.num
    BY <1>1
  <2> QED
    BY <1>1, <1>2, <1>5, <2>1, Zenon DEF Received
<1> QED
  BY <1>3, <1>4, <1>6, <1>7

\* Line and Written are sequences of items.
LEMMA WrittenTypes ==
  ASSUME TypeOK
  PROVE  /\ wire \in Seq(Item) /\ FlattenSeq(backlog) \in Seq(Item) /\ sendBuff \in Seq(Item)
         /\ Line \in Seq(Item) /\ Written \in Seq(Item)
<1>1. wire \in Seq(Item) /\ backlog \in Seq(Seq(Item)) /\ sendBuff \in Seq(Item)
  BY DEF TypeOK, Packet
<1>2. FlattenSeq(backlog) \in Seq(Item)
  BY <1>1, FlattenType
<1>3. ASSUME NEW s \in Seq(Item), NEW t \in Seq(Item) PROVE s \o t \in Seq(Item)
  OBVIOUS
<1>4. Line \in Seq(Item) /\ Written \in Seq(Item)
  BY <1>1, <1>2, <1>3, Zenon DEF Line, Written
<1> QED
  BY <1>1, <1>2, <1>4

\* While memory lasts a flush leaves the send buffer behind everything, or drops it: it never
\* overtakes the backlog.
LEMMA DeliveredBehind ==
  ASSUME TypeOK, NEW STATE q, SendReady(q), ~short, NEW STATE c, c \in Packet, Delivered(q, c)
  PROVE  Written' = Line \o c \/ Written' = Line
<1>1. PICK w \in Seq(Item), f \in Seq(Item), b \in Seq(Item) : w = wire /\ f = FlattenSeq(backlog) /\ b = c
  BY WrittenTypes DEF Packet
<1>2. \A s \in Seq(Item) : s \o <<>> = s
  OBVIOUS
<1>3. w \o f \in Seq(Item) /\ w \o b \in Seq(Item) /\ f \o b \in Seq(Item) /\ (w \o f) \o b = w \o (f \o b)
  OBVIOUS
<1>4. Line = w \o f /\ Line \o c = (w \o f) \o b
  BY <1>1, Zenon DEF Line
<1>5. Written' = (wire' \o FlattenSeq(backlog')) \o sendBuff'
  BY Zenon DEF Written, Line
<1>6. CASE UNCHANGED <<backlog, wire>> /\ sendBuff' \in {c, <<>>}
  <2>1. wire' = w /\ FlattenSeq(backlog') = f /\ (sendBuff' = b \/ sendBuff' = <<>>)
    BY <1>1, <1>6, Zenon
  <2>2. Written' = (w \o f) \o b \/ Written' = (w \o f) \o <<>>
    BY <1>5, <2>1, Zenon
  <2> QED
    BY <1>2, <1>3, <1>4, <2>2, Zenon
<1>7. CASE SdkTakes(q) /\ wire' = wire \o c /\ sendBuff' = <<>> /\ UNCHANGED backlog
  <2>1. backlog = <<>>
    BY <1>7, ConnAssumption DEF SendReady, SdkTakes
  <2>2. f = <<>> /\ FlattenSeq(backlog') = <<>>
    BY <1>1, <1>7, <2>1, FlattenEmpty, Zenon
  <2>3. Written' = ((w \o b) \o <<>>) \o <<>>
    BY <1>1, <1>5, <1>7, <2>2, Zenon
  <2>4. Written' = w \o b
    BY <1>2, <1>3, <2>3, Zenon
  <2>5. w \o f = w
    BY <1>2, <2>2, Zenon
  <2> QED
    BY <1>4, <2>4, <2>5, Zenon
<1>8. CASE ToBacklog(c) /\ sendBuff' = <<>> /\ UNCHANGED wire
  <2>1. backlog \in Seq(Seq(Item)) /\ c \in Seq(Item)
    BY DEF TypeOK, Packet
  <2>2. FlattenSeq(backlog') = f \o b
    BY <1>1, <1>8, <2>1, FlattenAppend, Zenon DEF ToBacklog
  <2>3. Written' = (w \o (f \o b)) \o <<>>
    BY <1>1, <1>5, <1>8, <2>2, Zenon
  <2>4. w \o (f \o b) \in Seq(Item)
    BY <1>3
  <2> QED
    BY <1>2, <1>3, <1>4, <2>3, <2>4, Zenon
<1> QED
  BY <1>6, <1>7, <1>8 DEF Delivered, Flush, NoFlush

\* What a call of a CGI function wrote stays in order, behind what was written before.
LEMMA CallInOrder ==
  ASSUME TypeOK, NEW STATE q, SendReady(q), ~short, NEW STATE n, n \in Nat,
         InOrder(Written), BeforeCall(Written, n),
         NEW STATE c, c \in Packet, Delivered(q, c), Ended(c, n + 1)
  PROVE  /\ InOrder(Written') /\ Received(Written', cur.num)
         /\ Response(c, n + 1) => BeforeCall(Written', n + 1)
         /\ \A m \in Nat : cur.num <= m => Received(Written', m)
<1>1. Line \in Seq(Item) /\ Written \in Seq(Item) /\ sendBuff \in Seq(Item) /\ Written = Line \o sendBuff
  BY WrittenTypes DEF Written
<1>2. n + 1 \in Nat /\ cur.num \in Nat
  BY DEF TypeOK
<1>3. Data(n + 1) \in Item /\ Terminator(n + 1) \in Item
  BY <1>2, ItemTypes
<1> DEFINE Fine(s) == s \in Seq(Item) /\ InOrder(s) /\ Received(s, cur.num)
           Open(s) == InOrder(s) /\ BeforeCall(s, n + 1)
<1>4. Open(Written) /\ Open(Append(Written, Data(n + 1)))
  BY <1>1, WritesBehind
<1>5. ASSUME NEW STATE s, s \in Seq(Item), Open(s)
      PROVE  Fine(s) /\ Fine(Append(s, Terminator(n + 1)))
  <2>1. Append(s, Terminator(n + 1)) \in Seq(Item)
    BY <1>3, <1>5
  <2> QED
    BY <1>2, <1>5, <2>1, WritesBehind
<1>6. Open(Line)
  BY <1>1, <1>2, <1>4, PartOf
<1>7. ASSUME NEW STATE b, b \in Packet, NEW STATE x, x \in Item
      PROVE  Line \o Append(b, x) = Append(Line \o b, x) /\ Line \o b \in Seq(Item)
  BY <1>1, <1>7 DEF Packet
<1>8. ASSUME NEW STATE b, b \in Packet, Response(b, n + 1)
      PROVE  Open(Line \o b) /\ Line \o b \in Seq(Item)
  <2>1. CASE b = sendBuff
    BY <1>1, <1>4, <2>1, Zenon
  <2>2. CASE b = Append(sendBuff, Data(n + 1))
    <3>1. sendBuff \in Packet
      BY DEF TypeOK
    <3>2. Line \o b = Append(Written, Data(n + 1))
      BY <1>1, <1>3, <1>7, <2>2, <3>1, Zenon
    <3>3. Line \o b \in Seq(Item)
      BY <1>3, <1>7, <1>8, Zenon
    <3> QED
      BY <1>4, <3>2, <3>3, Zenon
  <2> QED
    BY <1>8, <2>1, <2>2 DEF Response
<1>9. PICK b \in Packet : Response(b, n + 1) /\ (c = b \/ c = Append(b, Terminator(n + 1)))
  BY DEF Ended
<1>10. Open(Line \o b) /\ Line \o b \in Seq(Item)
  BY <1>8, <1>9
<1>11. Fine(Line \o c)
  <2>1. Fine(Line \o b) /\ Fine(Append(Line \o b, Terminator(n + 1)))
    BY <1>5, <1>10
  <2>2. Line \o Append(b, Terminator(n + 1)) = Append(Line \o b, Terminator(n + 1))
    BY <1>3, <1>7
  <2> QED
    BY <1>9, <2>1, <2>2, Zenon
<1>12. Fine(Line)
  BY <1>1, <1>5, <1>6
<1>13. Response(c, n + 1) => Open(Line \o c)
  BY <1>8
<1>14. Written' = Line \o c \/ Written' = Line
  BY DeliveredBehind
<1> HIDE DEF Fine, Open
<1>15. Fine(Written') /\ (Response(c, n + 1) => Open(Written'))
  BY <1>6, <1>11, <1>12, <1>13, <1>14, Zenon
<1>16. ASSUME NEW m \in Nat, cur.num <= m, NEW s \in Seq(Item), Received(s, cur.num)
       PROVE  Received(s, m)
  <2>1. ASSUME NEW i \in DOMAIN s PROVE s[i].req <= m
    <3>1. s[i] \in Item
      BY <2>1
    <3>2. s[i].req \in Nat /\ s[i].req <= cur.num
      BY <1>16, <2>1, <3>1 DEF Received, Item
    <3> QED
      BY <1>2, <1>16, <3>2
  <2> QED
    BY <2>1 DEF Received
<1> QED
  BY <1>15, <1>16, Zenon DEF Fine, Open

\* What a callback that deals with a request knows of it: after is the post state it leaves.
Dealing(q, after) ==
  /\ SendReady(q)
  /\ recv' \in {"loop", "idle"}
  /\ after \in Post /\ after.len = post.len /\ after.received = post.received
  /\ post.len <= 0 => after.buffLen = 0
  /\ UNCHANGED <<cur, short, client>>

\* A request is answered, its body having been received: nobody waits for the body any more, and
\* the answer is behind everything.
LEMMA AnswerKeeps ==
  ASSUME IInv, BodyInv, OrderInv, NEW STATE q, NEW STATE after, Dealing(q, after),
         NEW STATE n, n \in Nat, ~short => BeforeCall(Written, n),
         post.len > 0 => post.received = post.len,
         NEW STATE c, c \in Packet, Delivered(q, c), Ended(c, n + 1),
         recv' = "idle" => Flush(q, c, FALSE),
         cgi' = "none", ReadyOrMarked(after)
  PROVE  BodyInv' /\ OrderInv' /\ ~NotYet'
<1>1. TypeOK /\ post \in Post /\ NextHead.len = -1 /\ NextHead.received = 0 /\ NextHead.buffLen = 0
  BY DEF IInv, TypeOK, NextHead
<1>2. post' = NextHead \/ post' = after
  BY DEF ReadyOrMarked
<1>3. /\ post'.len <= 0 => post'.received = 0 /\ post'.buffLen = 0
      /\ post'.len > 0 => client'.left = post'.len - post'.received /\ post'.received = post'.len
  BY <1>1, <1>2 DEF Dealing, BodyInv, Post
<1>4. ~NotYet'
  <2>1. post'.len \in Int
    BY <1>1, <1>2 DEF Dealing, Post
  <2> QED
    BY <1>3, <2>1 DEF NotYet, Dealing
<1>5. BodyInv'
  BY <1>3, <1>4 DEF BodyInv, Dealing
<1>6. ASSUME ~short'
      PROVE  /\ recv' = "idle" => sendBuff' = <<>>
             /\ InOrder(Written') /\ Received(Written', client'.reqs)
  <2>1. ~short /\ InOrder(Written) /\ BeforeCall(Written, n) /\ SendReady(q) /\ client' = client
        /\ cur.num <= client.reqs
    BY <1>6 DEF Dealing, OrderInv
  <2>2. InOrder(Written') /\ Received(Written', cur.num)
    BY <1>1, <2>1, CallInOrder
  <2>3. client.reqs \in Nat
    BY <1>1 DEF TypeOK
  <2>4. Received(Written', client'.reqs)
    BY <1>1, <2>1, <2>3, CallInOrder
  <2>5. recv' = "idle" => sendBuff' = <<>>
    BY DEF Flush
  <2> QED
    BY <2>2, <2>4, <2>5
<1>7. OrderInv'
  <2>1. cur'.num <= client'.reqs
    BY DEF Dealing, OrderInv
  <2> QED
    BY <1>4, <1>6, <2>1 DEF OrderInv, InOrder, Received
<1> QED
  BY <1>4, <1>5, <1>7

\* A call of a CGI function, by any of the callbacks.
LEMMA CallKeeps ==
  ASSUME IInv, BodyInv, OrderInv, NEW STATE q, NEW STATE after, Dealing(q, after),
         NEW STATE kind, kind \in CgiKinds, NEW STATE n, n \in Nat, NEW caller,
         recv' = "idle" => caller = "sent",
         \/ cgi = kind /\ n = calls
         \/ NotYet /\ cur.kind = kind /\ n = 0 /\ (post.len > 0 => recv = "body"),
         CallCgi(kind, n, q, after, caller)
  PROVE  BodyInv' /\ OrderInv' /\ ~NotYet'
<1>1. TypeOK /\ post \in Post /\ kind # "none" /\ kind # "unknown"
  BY DEF IInv, TypeOK, CgiKinds
<1>2. ~short => BeforeCall(Written, n)
  <2>1. CASE cgi = kind /\ n = calls
    BY <1>1, <2>1 DEF OrderInv
  <2>2. CASE NotYet /\ n = 0 /\ ~short
    <3>1. ASSUME NEW i \in DOMAIN Written PROVE Before(Written[i], Data(n))
      <4>1. Written[i].req < cur.num /\ Written[i] \in Item /\ cur.num \in Nat
        <5>1. Written \in Seq(Item)
          BY <1>1, WrittenTypes
        <5>2. Written[i] \in Item
          BY <5>1
        <5> QED
          BY <1>1, <2>2, <5>2 DEF OrderInv, TypeOK
      <4> QED
        BY <4>1 DEF Before, Data, Item
    <3> QED
      BY <3>1 DEF BeforeCall
  <2> QED
    BY <2>1, <2>2
<1>3. post.len > 0 /\ kind # "upload" => post.received = post.len
  BY <1>1 DEF BodyInv, Post
<1>4. PICK c \in Packet :
        /\ Delivered(q, c)
        /\ caller = "sent" => Flush(q, c, FALSE)
        /\ \/ /\ cgi' = "none" /\ answers' = answers + 1
              /\ ReadyOrMarked(after)
              /\ kind = "upload" => post.received = post.len
              /\ Ended(c, n + 1)
           \/ /\ cgi' = kind /\ post' = after
              /\ UNCHANGED <<answers, stray>>
              /\ Response(c, n + 1)
              /\ kind = "upload" => post.received # post.len /\ c = sendBuff
  BY <1>1, CallWrites
<1>5. calls' = n + 1
  BY <1>1, CallWrites
<1>6. CASE cgi' = "none"
  <2>1. /\ ReadyOrMarked(after) /\ Ended(c, n + 1)
        /\ post.len > 0 => post.received = post.len
    BY <1>1, <1>3, <1>4, <1>6
  <2> QED
    BY <1>2, <1>4, <1>6, <2>1, AnswerKeeps
<1>7. CASE /\ cgi' = kind /\ post' = after
           /\ Response(c, n + 1)
  <2>1. ~NotYet'
    BY <1>1, <1>7 DEF NotYet
  <2>2. BodyInv'
    <3>1. /\ post'.len = post.len /\ post'.received = post.received
          /\ post.len <= 0 => post'.buffLen = 0
          /\ recv' \in {"loop", "idle"} /\ client' = client
      BY <1>7 DEF Dealing
    <3> QED
      BY <1>3, <1>7, <2>1, <3>1 DEF BodyInv
  <2>3. ASSUME ~short'
        PROVE  /\ recv' = "idle" => sendBuff' = <<>>
               /\ InOrder(Written') /\ Received(Written', client'.reqs)
               /\ BeforeCall(Written', n + 1)
    <3>1. ~short /\ InOrder(Written) /\ BeforeCall(Written, n) /\ SendReady(q) /\ client' = client
          /\ cur.num <= client.reqs
      BY <1>2, <2>3 DEF Dealing, OrderInv
    <3>2. Ended(c, n + 1)
      BY <1>7 DEF Ended
    <3>3. InOrder(Written') /\ Received(Written', cur.num) /\ BeforeCall(Written', n + 1)
      BY <1>1, <1>4, <1>7, <3>1, <3>2, CallInOrder
    <3>4. client.reqs \in Nat
      BY <1>1 DEF TypeOK
    <3>5. Received(Written', client'.reqs)
      BY <1>1, <1>4, <3>1, <3>2, <3>4, CallInOrder
    <3>6. recv' = "idle" => sendBuff' = <<>>
      BY <1>4 DEF Flush
    <3> QED
      BY <3>3, <3>5, <3>6
  <2>4. OrderInv'
    <3>1. cur'.num <= client'.reqs /\ cur' = cur /\ calls' = n + 1
      BY <1>5 DEF Dealing, OrderInv
    <3>2. ~short' => BeforeCall(Written, calls)'
      BY <2>3, <3>1 DEF BeforeCall, Data
    <3> QED
      BY <2>1, <2>3, <3>1, <3>2 DEF OrderInv, InOrder, Received
  <2> QED
    BY <2>1, <2>2, <2>4
<1> QED
  BY <1>4, <1>6, <1>7

\* The dispatch of a request, whose body is complete or goes to an upload.
LEMMA ProcessKeeps ==
  ASSUME IInv, BodyInv, OrderInv, NotYet, NEW STATE after, Dealing(inflight, after),
         recv' = "loop", post.len > 0 => recv = "body", ProcessRequest(after)
  PROVE  BodyInv' /\ OrderInv' /\ (NotYet' => cur.kind = "unknown")
<1>1. TypeOK /\ cgi = "none" /\ post \in Post
  BY DEF IInv, TypeOK, NotYet
<1>2. CASE /\ cur.kind = "unknown" /\ post' = after
           /\ UNCHANGED <<stray, answers, cgi, calls, eaten, sendBuff, backlog, backlogSize, inflight, wire>>
  <2>1. BodyInv'
    BY <1>1, <1>2 DEF BodyInv, Dealing
  <2>2. Written' = Written
    BY <1>2 DEF Written, Line
  <2>3. OrderInv'
    BY <1>1, <1>2, <2>2 DEF OrderInv, Dealing, NotYet
  <2> QED
    BY <1>2, <2>1, <2>3
<1>3. CASE /\ cur.kind = "cors"
           /\ cgi' = "none" /\ answers' = answers + 1 /\ ReadyOrMarked(after)
           /\ \E c \in Packet : Delivered(inflight, c) /\ Ended(c, 1)
  <2>1. post.len > 0 => post.received = post.len
    BY <1>1, <1>3 DEF BodyInv, Post
  <2>2. ~short => BeforeCall(Written, 0)
    <3> SUFFICES ASSUME ~short, NEW i \in DOMAIN Written
                 PROVE  Before(Written[i], Data(0))
      BY DEF BeforeCall
    <3>1. Written \in Seq(Item)
      BY <1>1, WrittenTypes
    <3>2. Written[i] \in Item /\ Written[i].req < cur.num /\ cur.num \in Nat
      BY <1>1, <3>1 DEF OrderInv, TypeOK
    <3> QED
      BY <3>2 DEF Before, Data, Item
  <2>3. PICK c \in Packet : Delivered(inflight, c) /\ Ended(c, 0 + 1)
    BY <1>3
  <2> QED
    BY <1>3, <2>1, <2>2, <2>3, AnswerKeeps
<1>4. CASE cur.kind \in CgiKinds /\ CallCgi(cur.kind, 0, inflight, after, "request")
  BY <1>4, CallKeeps
<1> QED
  BY <1>1, <1>2, <1>3, <1>4, ProcessWrites

\* Callbacks that leave the send buffer, the backlog and the SDK alone, or only memory short.
LEMMA WrittenSame ==
  ASSUME UNCHANGED <<sendBuff, backlog, wire>>
  PROVE  Written' = Written
BY DEF Written, Line

\* The post state stays, or its buffer is emptied.
LEMMA DealingAfter ==
  ASSUME IInv, BodyInv, UNCHANGED <<cur, short, client>>, recv' \in {"loop", "idle"}
  PROVE  /\ Dealing(inflight, post) /\ Dealing(inflight, Emptied)
         /\ inflight # <<>> /\ backlog = <<>> => Dealing(Tail(inflight), post)
<1>1. post \in Post
  BY DEF IInv, TypeOK
<1>2. /\ Emptied \in Post /\ Emptied.len = post.len /\ Emptied.received = post.received
      /\ Emptied.buffLen = 0
  BY <1>1 DEF Emptied, Post
<1>3. SendReady(inflight) /\ (inflight # <<>> /\ backlog = <<>> => SendReady(Tail(inflight)))
  BY InflightReady, TailReady
<1>4. post.len <= 0 => post.buffLen = 0
  BY DEF BodyInv
<1> QED
  BY <1>1, <1>2, <1>3, <1>4 DEF Dealing

\* A request head: a request later than everything written so far.
LEMMA RecvHeadKeeps ==
  ASSUME LargeBodiesStream, IInv, BodyInv, OrderInv, NEW r \in Requests, RecvHead(r)
  PROVE  BodyInv' /\ OrderInv'
<1>1. /\ r \in Request /\ r.len \in Nat /\ r.kind # "unknown" /\ r.kind # "none"
      /\ MaxPost \in Nat /\ (r.len > MaxPost => r.kind = "upload")
  BY ConnAssumption DEF LargeBodiesStream, Request, CgiKinds
<1>2. /\ TypeOK /\ post \in Post /\ client.reqs \in Nat /\ post.len <= 0
      /\ recv \in {"idle", "loop"}
  BY DEF IInv, TypeOK, RecvHead, Receiving, MayStart
<1>3. client' = [reqs |-> client.reqs + 1, left |-> r.len, pipe |-> r.keep /\ r.len = 0]
      /\ UNCHANGED <<link, stray, short, answers, cgi, calls, held, eaten,
                     sendBuff, backlog, backlogSize, inflight, wire>>
  BY DEF RecvHead, cgiVars, sendVars
<1>4. Written' = Written /\ Written \in Seq(Item)
  BY <1>2, <1>3, WrittenTypes, WrittenSame
<1>5. ASSUME ~short, NEW i \in DOMAIN Written
      PROVE  Written[i].req < client.reqs + 1 /\ Written[i].req <= client.reqs + 1
  <2>1. Written[i] \in Item
    BY <1>4
  <2>2. Written[i].req \in Nat /\ Written[i].req <= client.reqs
    BY <1>5, <2>1 DEF OrderInv, Received, Item
  <2> QED
    BY <1>2, <2>2
<1>6. CASE post.len < 0
  <2>1. /\ cur'.num = client.reqs + 1
        /\ cur'.kind \in {"unknown", r.kind}
        /\ post' = [len |-> r.len,
                    buffSize |-> IF r.len = 0 THEN post.buffSize
                                 ELSE IF r.len > MaxPost THEN MaxPost ELSE r.len,
                    buffLen |-> IF r.len = 0 THEN post.buffLen ELSE 0,
                    received |-> post.received]
        /\ recv' = IF r.len = 0 THEN "head" ELSE "loop"
    BY <1>6 DEF RecvHead
  <2>2. post.received = 0 /\ post.buffLen = 0 /\ cgi = "none"
    BY <1>2 , <1>6 DEF BodyInv, IInv, HeaderPhaseHasNoCgi
  <2>3. BodyInv'
    BY <1>1, <1>3, <2>1, <2>2 DEF BodyInv
  <2>4. OrderInv'
    <3>1. cur'.num <= client'.reqs
      BY <1>2, <1>3, <2>1
    <3>2. ~short => InOrder(Written) /\ Received(Written, client.reqs + 1)
      BY <1>5 DEF OrderInv, Received
    <3> QED
      BY <1>3, <1>4, <1>5, <2>1, <2>2, <3>1, <3>2 DEF OrderInv
  <2> QED
    BY <2>3, <2>4
<1>7. CASE ~(post.len < 0)
  <2>1. recv' = "loop" /\ UNCHANGED <<cur, flags, post>> /\ post.len = 0
    BY <1>2, <1>7 DEF RecvHead, Post
  <2>2. ~NotYet'
    BY <2>1 DEF NotYet
  <2>3. BodyInv'
    BY <1>3, <2>1, <2>2 DEF BodyInv
  <2>4. OrderInv'
    <3>1. cur'.num <= client'.reqs
      <4>1. cur.num \in Nat /\ cur.num <= client.reqs
        BY <1>2 DEF TypeOK, OrderInv
      <4> QED
        BY <1>2, <1>3, <2>1, <4>1
    <3>2. ~short => InOrder(Written) /\ Received(Written, client.reqs + 1)
      BY <1>5 DEF OrderInv, Received
    <3>3. ~short /\ cgi # "none" => BeforeCall(Written, calls)'
      BY <1>3, <1>4, <2>1 DEF OrderInv, BeforeCall, Data
    <3> QED
      BY <1>3, <1>4, <2>1, <2>2, <3>1, <3>2, <3>3 DEF OrderInv
  <2> QED
    BY <2>3, <2>4
<1> QED
  BY <1>6, <1>7

\* A byte of a body is one less to come.
LEMMA RecvByteKeeps ==
  ASSUME IInv, BodyInv, OrderInv, RecvByte
  PROVE  BodyInv' /\ OrderInv' /\ (NotYet' => NotYet) /\ (post.len > 0 /\ cgi = "none" => NotYet')
<1>1. /\ TypeOK /\ post \in Post /\ client.left \in Nat /\ client.left > 0
      /\ client' = [client EXCEPT !.left = @ - 1]
      /\ UNCHANGED <<link, cur, flags, short, answers, cgi, calls, held, eaten,
                     sendBuff, backlog, backlogSize, inflight, wire>>
      /\ recv \in {"idle", "loop"}
  BY DEF RecvByte, cgiVars, sendVars, IInv, TypeOK, Receiving
<1>2. client'.reqs = client.reqs /\ client'.left = client.left - 1
  BY <1>1 DEF TypeOK
<1>3. CASE post.len > 0
  <2>1. /\ post' = [len |-> post.len, buffSize |-> post.buffSize,
                    buffLen |-> post.buffLen + 1, received |-> post.received + 1]
        /\ recv' = IF post.buffLen + 1 >= post.buffSize \/ post.received + 1 = post.len THEN "body" ELSE "loop"
    BY <1>1, <1>3 DEF RecvByte, Post
  <2>2. client.left = post.len - post.received /\ post.received < post.len /\ post.received + 1 <= post.len
    BY <1>1, <1>3 DEF BodyInv, Post
  <2>3. cgi = "none" => NotYet /\ NotYet'
    BY <1>1, <1>3, <2>1, <2>2 DEF NotYet, Post
  <2>4. post.buffLen < post.buffSize
    BY <1>1, <1>3 DEF IInv, PostBufferInBounds
  <2>5. BodyInv'
    BY <1>1, <1>2, <1>3, <2>1, <2>2, <2>3, <2>4 DEF BodyInv, Post, NotYet
  <2>6. NotYet' = NotYet
    <3>1. CASE cgi = "none"
      BY <2>3, <3>1
    <3>2. CASE cgi # "none"
      BY <1>1, <3>2 DEF NotYet
    <3> QED
      BY <3>1, <3>2
  <2>7. Written' = Written /\ recv' # "idle"
    BY <1>1, <2>1, WrittenSame
  <2>8. OrderInv'
    BY <1>1, <1>2, <2>6, <2>7 DEF OrderInv, BeforeCall, Data
  <2> QED
    BY <2>3, <2>5, <2>6, <2>8
<1>4. CASE ~(post.len > 0)
  <2>1. recv' = "loop" /\ post' = post
    BY <1>1, <1>4 DEF RecvByte
  <2>2. ~NotYet'
    BY <1>4, <2>1 DEF NotYet
  <2>3. BodyInv'
    BY <1>1, <1>4, <2>1, <2>2 DEF BodyInv
  <2> QED
    BY <1>1, <1>2, <1>4, <2>1, <2>2, <2>3, WrittenSame DEF OrderInv, BeforeCall, Data
<1> QED
  BY <1>3, <1>4

\* A request without a body is dispatched.
LEMMA HeadCompleteKeeps ==
  ASSUME IInv, BodyInv, OrderInv, HeadComplete
  PROVE  BodyInv' /\ OrderInv' /\ ~NotYet'
<1>1. recv = "head" /\ recv' = "loop" /\ post.len = 0 /\ cgi = "none" /\ ProcessRequest(post)
      /\ UNCHANGED <<cur, short, client>>
  BY DEF HeadComplete, IInv, Control
<1>2. NotYet /\ Dealing(inflight, post)
  BY <1>1, DealingAfter DEF NotYet
<1>3. BodyInv' /\ OrderInv' /\ (NotYet' => cur.kind = "unknown")
  BY <1>1, <1>2, ProcessKeeps
<1>4. cur.kind = "unknown" => ~NotYet'
  <2>1. cur.kind = "unknown" => post' = post
    BY <1>1 DEF ProcessRequest, CgiKinds
  <2> QED
    BY <1>1, <2>1 DEF NotYet
<1> QED
  BY <1>3, <1>4

\* A part of a body is handed over.
LEMMA BodyChunkKeeps ==
  ASSUME IInv, BodyInv, OrderInv, BodyChunk
  PROVE  BodyInv' /\ OrderInv' /\ (NotYet' => cur.kind = "unknown")
<1>1. recv = "body" /\ recv' = "loop" /\ post.len > 0 /\ UNCHANGED <<cur, short, client>>
  BY DEF BodyChunk, IInv, Control
<1>2. Dealing(inflight, Emptied)
  BY <1>1, DealingAfter
<1>3. CASE cgi = "none"
  BY <1>1, <1>2, <1>3, ProcessKeeps DEF NotYet, BodyChunk
<1>4. CASE cgi # "none"
  <2>1. CallCgi(cgi, calls, inflight, Emptied, "body") /\ cgi \in CgiKinds /\ calls \in Nat
    BY <1>4 DEF BodyChunk, IInv, TypeOK
  <2> QED
    BY <1>1, <1>2, <2>1, CallKeeps
<1> QED
  BY <1>3, <1>4

\* What is left in the send buffer at the end of a segment is sent, or dropped.
LEMMA RecvEndKeeps ==
  ASSUME IInv, BodyInv, OrderInv, RecvEnd
  PROVE  BodyInv' /\ OrderInv' /\ NotYet' = NotYet
<1>1. /\ TypeOK /\ sendBuff \in Packet /\ recv = "loop" /\ recv' = "idle"
      /\ Flush(inflight, sendBuff, FALSE)
      /\ UNCHANGED <<link, post, stray, cur, flags, short, client, answers, cgi, calls, held, eaten>>
  BY DEF RecvEnd, cgiVars, IInv, TypeOK
<1>2. NotYet' = NotYet
  BY <1>1 DEF NotYet
<1>3. BodyInv'
  BY <1>1, <1>2 DEF BodyInv
<1>4. ASSUME ~short
      PROVE  /\ sendBuff' = <<>> /\ InOrder(Written') /\ Received(Written', client.reqs)
             /\ NotYet => \A i \in DOMAIN Written' : Written'[i].req < cur.num
             /\ cgi # "none" => BeforeCall(Written', calls)
  <2>1. Delivered(inflight, sendBuff) /\ SendReady(inflight)
    BY <1>1, InflightReady DEF Delivered
  <2>2. Written' = Written \/ Written' = Line
    BY <1>1, <1>4, <2>1, DeliveredBehind DEF Written
  <2>3. Line \in Seq(Item) /\ sendBuff \in Seq(Item) /\ Written = Line \o sendBuff
        /\ client.reqs \in Nat /\ calls \in Nat /\ cur.num \in Nat
    BY <1>1, WrittenTypes DEF Written, TypeOK
  <2>4. /\ InOrder(Written) /\ Received(Written, client.reqs)
        /\ NotYet => \A i \in DOMAIN Written : Written[i].req < cur.num
        /\ cgi # "none" => BeforeCall(Written, calls)
    BY <1>4 DEF OrderInv
  <2>5. /\ InOrder(Line) /\ Received(Line, client.reqs)
        /\ NotYet => \A i \in DOMAIN Line : Line[i].req < cur.num
        /\ cgi # "none" => BeforeCall(Line, calls)
    BY <2>3, <2>4, PartOf
  <2>6. sendBuff' = <<>>
    BY <1>1 DEF Flush
  <2> QED
    BY <2>2, <2>4, <2>5, <2>6, Zenon
<1>5. OrderInv'
  <2>1. ~short /\ cgi # "none" => BeforeCall(Written, calls)'
    BY <1>1, <1>4 DEF BeforeCall, Data
  <2>2. ~short /\ NotYet => \A i \in DOMAIN Written' : Written'[i].req < cur'.num
    BY <1>1, <1>4
  <2>3. ~short => sendBuff' = <<>> /\ InOrder(Written)' /\ Received(Written, client.reqs)'
    BY <1>1, <1>4 DEF InOrder, Received
  <2> QED
    BY <1>1, <1>2, <2>1, <2>2, <2>3 DEF OrderInv
<1> QED
  BY <1>2, <1>3, <1>5

\* The backlog goes on: while memory lasts the SDK takes its head, and Written stays.
LEMMA BacklogKeeps ==
  ASSUME IInv, inflight # <<>>, ~short, BacklogGoesOn(Tail(inflight)), sendBuff' = sendBuff
  PROVE  Written' = Written
<1>1. /\ backlog \in Seq(Seq(Item)) /\ backlog # <<>> /\ inflight \in Seq(Packet)
      /\ Len(inflight) <= SdkDepth /\ SdkDepth \in Nat
  BY ConnAssumption DEF IInv, TypeOK, Control, Packet, BacklogGoesOn
<1>2. ~SdkMayRefuse(Tail(inflight))
  BY <1>1, TailReady DEF SdkMayRefuse
<1>3. wire' = wire \o Head(backlog) /\ backlog' = Tail(backlog)
  BY <1>2 DEF BacklogGoesOn, HeadSent
<1>4. /\ Tail(backlog) \in Seq(Seq(Item)) /\ Head(backlog) \in Seq(Item)
  BY <1>1
<1>5. FlattenSeq(backlog) = Head(backlog) \o FlattenSeq(Tail(backlog))
  BY <1>1, FlattenHead
<1>6. PICK w \in Seq(Item), h \in Seq(Item), t \in Seq(Item) :
        w = wire /\ h = Head(backlog) /\ t = FlattenSeq(Tail(backlog))
  BY <1>4, FlattenType DEF IInv, TypeOK
<1>7. (w \o h) \o t = w \o (h \o t)
  OBVIOUS
<1>8. Line' = Line
  <2>1. Line = w \o (h \o t) /\ Line' = (w \o h) \o t
    BY <1>3, <1>5, <1>6, Zenon DEF Line
  <2> QED
    BY <1>7, <2>1, Zenon
<1> QED
  BY <1>8, Zenon DEF Written

\* The SDK reports a packet.
LEMMA SentCbKeeps ==
  ASSUME IInv, BodyInv, OrderInv, SentCb
  PROVE  BodyInv' /\ OrderInv' /\ (NotYet' => NotYet)
<1>1. recv = "idle" /\ recv' = "idle" /\ inflight # <<>> /\ UNCHANGED <<cur, short, client>>
  BY DEF SentCb
<1>2. CASE UNCHANGED <<post, cgi, calls, sendBuff>> /\ (~short => Written' = Written)
  <2>1. NotYet' = NotYet
    BY <1>1, <1>2 DEF NotYet
  <2>2. BodyInv'
    BY <1>1, <1>2, <2>1 DEF BodyInv
  <2>3. OrderInv'
    BY <1>1, <1>2, <2>1 DEF OrderInv, BeforeCall, Data
  <2> QED
    BY <2>1, <2>2, <2>3
<1>3. CASE CallCgi(cgi, calls, Tail(inflight), post, "sent") /\ cgi # "none" /\ backlog = <<>>
  <2>1. cgi \in CgiKinds /\ calls \in Nat
    BY <1>3 DEF IInv, TypeOK
  <2>2. Dealing(Tail(inflight), post)
    BY <1>1, <1>3, DealingAfter
  <2>3. BodyInv' /\ OrderInv' /\ ~NotYet'
    BY <1>3, <2>1, <2>2, CallKeeps, Zenon
  <2> QED
    BY <2>3
<1>4. CASE BacklogGoesOn(Tail(inflight)) /\ UNCHANGED <<post, sendBuff, cgiVars>>
  BY <1>1, <1>2, <1>4, BacklogKeeps DEF cgiVars
<1>5. CASE UNCHANGED <<post, sendBuff, backlog, wire, cgiVars>>
  BY <1>2, <1>5, WrittenSame DEF cgiVars
<1> QED
  BY <1>3, <1>4, <1>5 DEF SentCb

\* The connection closes; what the backlog held is lost.
LEMMA DisconCbKeeps ==
  ASSUME IInv, BodyInv, OrderInv, DisconCb
  PROVE  BodyInv' /\ OrderInv' /\ ~NotYet'
<1>1. /\ TypeOK /\ recv = "idle" /\ recv' = "idle" /\ cgi' = "none"
      /\ post' = FreshPost /\ cur'.num = 0 /\ backlog' = <<>>
      /\ UNCHANGED <<short, client, sendBuff, wire>>
      /\ client.reqs \in Nat
  BY DEF DisconCb, IInv, TypeOK
<1>2. post'.len = -1 /\ post'.received = 0 /\ post'.buffLen = 0
  BY <1>1 DEF FreshPost
<1>3. ~NotYet'
  BY <1>1, <1>2 DEF NotYet
<1>4. BodyInv'
  BY <1>1, <1>2, <1>3 DEF BodyInv
<1>5. ASSUME ~short
      PROVE  sendBuff' = <<>> /\ InOrder(Written') /\ Received(Written', client.reqs)
  <2>1. PICK w \in Seq(Item), f \in Seq(Item) : w = wire /\ f = FlattenSeq(backlog)
    BY <1>1, WrittenTypes
  <2>2. sendBuff = <<>> /\ InOrder(Written) /\ Received(Written, client.reqs)
    BY <1>1, <1>5 DEF OrderInv
  <2>3. \A s \in Seq(Item) : s \o <<>> = s
    OBVIOUS
  <2>4. w \o f \in Seq(Item)
    OBVIOUS
  <2>5. Written = w \o f
    BY <2>1, <2>2, <2>3, <2>4, Zenon DEF Written, Line
  <2>6. Written' = w
    <3>1. FlattenSeq(backlog') = <<>> /\ sendBuff' = <<>> /\ wire' = w
      BY <1>1, <2>1, <2>2, FlattenEmpty, Zenon
    <3> QED
      BY <2>3, <3>1, Zenon DEF Written, Line
  <2>7. InOrder(w) /\ Received(w, client.reqs)
    BY <1>1, <2>2, <2>5, PartOf
  <2> QED
    BY <1>1, <2>2, <2>6, <2>7, Zenon
<1>6. OrderInv'
  BY <1>1, <1>3, <1>5 DEF OrderInv, InOrder, Received
<1> QED
  BY <1>3, <1>4, <1>6

\* Every step keeps the order.
LEMMA StepKeeps ==
  ASSUME LargeBodiesStream, IInv, BodyInv, OrderInv, [Next]_vars
  PROVE  BodyInv' /\ OrderInv'
<1>1. CASE MemoryGetsShort
  <2>1. UNCHANGED <<recv, post, cur, client, cgi, calls, sendBuff, backlog, wire>> /\ short'
    BY <1>1 DEF MemoryGetsShort, cgiVars, sendVars
  <2> QED
    BY <2>1 DEF BodyInv, OrderInv, NotYet
<1>2. CASE ConnectCb \/ UNCHANGED vars
  <2>1. UNCHANGED <<recv, post, cur, client, short, cgi, calls, sendBuff, backlog, wire>>
    BY <1>2 DEF ConnectCb, vars, cgiVars, sendVars
  <2>2. Written' = Written /\ NotYet' = NotYet
    BY <2>1, WrittenSame DEF NotYet
  <2> QED
    BY <2>1, <2>2 DEF BodyInv, OrderInv, BeforeCall, Data
<1> QED
  BY <1>1, <1>2, RecvHeadKeeps, HeadCompleteKeeps, RecvByteKeeps, BodyChunkKeeps, RecvEndKeeps, SentCbKeeps,
     DisconCbKeeps DEF Next

\* Initially nothing is written.
LEMMA InitOrder == Init => BodyInv /\ OrderInv
<1> SUFFICES ASSUME Init PROVE BodyInv /\ OrderInv
  OBVIOUS
<1>1. /\ recv = "idle" /\ post = FreshPost /\ cgi = "none" /\ sendBuff = <<>> /\ backlog = <<>> /\ wire = <<>>
      /\ cur.num = 0 /\ client.reqs = 0
  BY DEF Init
<1>2. ~NotYet /\ BodyInv
  BY <1>1 DEF NotYet, BodyInv, FreshPost
<1>3. Written = <<>>
  <2>1. \A s \in Seq(Item) : s \o <<>> = s
    OBVIOUS
  <2>2. <<>> \in Seq(Item)
    BY EmptySeq
  <2> QED
    BY <1>1, <2>1, <2>2, FlattenEmpty, Zenon DEF Written, Line
<1>4. InOrder(Written) /\ Received(Written, client.reqs)
  <2>1. \A i \in DOMAIN <<>> : FALSE
    OBVIOUS
  <2> QED
    BY <1>3, <2>1, Zenon DEF InOrder, Received
<1> QED
  BY <1>1, <1>2, <1>4 DEF OrderInv

\* The SDK is given the responses in the order of the requests, and each in the order in which it
\* was written, whatever the sizes, the requests and their pipelining.
THEOREM ConnResponsesInOrder ==
  ASSUME LargeBodiesStream
  PROVE  Spec => []ResponsesInOrder
<1>1. IInv /\ BodyInv /\ OrderInv /\ [Next]_vars => BodyInv' /\ OrderInv'
  BY StepKeeps
<1>2. IInv /\ OrderInv => ResponsesInOrder
  <2> SUFFICES ASSUME IInv, OrderInv, ~short
               PROVE  InOrder(wire)
    BY DEF ResponsesInOrder, InOrder, Before
  <2>1. PICK w \in Seq(Item), f \in Seq(Item), b \in Seq(Item) : w = wire /\ f = FlattenSeq(backlog) /\ b = sendBuff
    BY WrittenTypes DEF IInv
  <2>2. InOrder(Written) /\ Written = (w \o f) \o b
    BY <2>1, Zenon DEF OrderInv, Written, Line
  <2>3. w \o f \in Seq(Item)
    OBVIOUS
  <2>4. InOrder(w \o f)
    BY <2>2, <2>3, PartOf
  <2> QED
    BY <2>1, <2>4, PartOf
<1> QED
  BY <1>1, <1>2, InitOrder, ConnInvariant, PTL DEF Spec

----------------------------------------------------------------------------
\* A client that waits for the response to a request before it makes the next one.

\* A request is being answered.
Busy == cgi # "none" \/ NotYet

\* The requests are answered one by one: while one is, no other has begun; and nothing is sent
\* before an upload is complete, so that only the parts of its body call it.
WaitInv ==
  /\ ~stray
  /\ post.len >= 0 => cur.kind # "unknown"
  /\ client.reqs = 0 => client.left = 0 /\ answers = 0
  /\ link # "down" => answers = IF Busy THEN client.reqs - 1 ELSE client.reqs
  /\ link # "down" /\ post.len <= 0 => client.left = 0
  /\ link = "down" => answers \in {client.reqs - 1, client.reqs} /\ post.len < 0 /\ cgi = "none"
  /\ post.len >= 0 /\ ~Busy => flags.discon
  /\ cgi = "upload" \/ NotYet => sendBuff = <<>> /\ backlog = <<>> /\ inflight = <<>>
  /\ cgi = "upload" => eaten + post.buffLen = post.received

\* The body of a request that does not go to the upload CGI is complete when it is handed over.
LEMMA WholeBody ==
  ASSUME IInv, BodyInv, NEW STATE kind, kind \notin {"upload", "none", "unknown"},
         cgi = kind \/ (NotYet /\ cur.kind = kind /\ (post.len > 0 => recv = "body"))
  PROVE  post.len > 0 => post.received = post.len
BY DEF BodyInv, IInv, TypeOK, Post

\* A request is answered.
LEMMA AnswerWaits ==
  ASSUME IInv, BodyInv, WaitInv, Busy, NEW STATE q, NEW STATE after, Dealing(q, after),
         post.len >= 0, post.len > 0 => post.received = post.len,
         cgi' = "none", ~NotYet', answers' = answers + 1, ReadyOrMarked(after), UNCHANGED link
  PROVE  WaitInv'
<1>1. /\ post \in Post /\ client.reqs \in Nat /\ client.left \in Nat /\ answers \in Nat
      /\ answers' \in Nat
  BY DEF IInv, TypeOK
<1>2. link # "down" /\ answers = client.reqs - 1 /\ client' = client /\ cur' = cur
  BY <1>1 DEF WaitInv, Busy, Dealing, Post
<1>3. client.left = 0
  BY <1>1, <1>2 DEF WaitInv, BodyInv, Post
<1>4. ~Busy'
  BY DEF Busy
<1>5. ~stray' /\ (post'.len >= 0 => flags'.discon)
  BY DEF ReadyOrMarked, NextHead, WaitInv
<1>6. post'.len >= 0 => cur'.kind # "unknown"
  BY <1>2 DEF WaitInv
<1> QED
  BY <1>1, <1>2, <1>3, <1>4, <1>5, <1>6 DEF WaitInv

\* A CGI function is called: it is done, or it is an upload that waits for the rest of its body.
LEMMA CallWaits ==
  ASSUME IInv, BodyInv, OrderInv, WaitInv, NEW STATE q, NEW STATE after, Dealing(q, after),
         NEW STATE kind, kind \in CgiKinds, NEW STATE n, n \in Nat, NEW caller,
         recv' = "idle" => caller = "sent",
         \/ cgi = kind /\ n = calls
         \/ NotYet /\ cur.kind = kind /\ n = 0 /\ (post.len > 0 => recv = "body"),
         post.len >= 0, UNCHANGED link,
         kind = "upload" => q = inflight /\ (post.len > 0 => after.buffLen = 0),
         CallCgi(kind, n, q, after, caller)
  PROVE  WaitInv'
<1>1. TypeOK /\ post \in Post /\ kind # "none" /\ kind # "unknown"
  BY DEF IInv, TypeOK, CgiKinds
<1>2. Busy /\ ~NotYet'
  <2>1. ~NotYet'
    BY CallKeeps
  <2> QED
    BY <1>1, <2>1 DEF Busy
<1>3. PICK c \in Packet :
        /\ Delivered(q, c)
        /\ \/ /\ cgi' = "none" /\ answers' = answers + 1
              /\ ReadyOrMarked(after)
              /\ kind = "upload" => post.received = post.len
           \/ /\ cgi' = kind /\ post' = after
              /\ UNCHANGED <<answers, stray>>
              /\ kind = "upload" => post.received # post.len /\ c = sendBuff
  <2>1. \E c \in Packet :
          /\ Delivered(q, c)
          /\ caller = "sent" => Flush(q, c, FALSE)
          /\ \/ /\ cgi' = "none" /\ answers' = answers + 1
                /\ ReadyOrMarked(after)
                /\ kind = "upload" => post.received = post.len
                /\ Ended(c, n + 1)
             \/ /\ cgi' = kind /\ post' = after
                /\ UNCHANGED <<answers, stray>>
                /\ Response(c, n + 1)
                /\ kind = "upload" => post.received # post.len /\ c = sendBuff
    BY <1>1, CallWrites
  <2> QED
    BY <2>1, Zenon
<1>4. eaten' = (IF n = 0 THEN 0 ELSE eaten) + post.buffLen
  BY <1>1, CallWrites
<1>5. CASE cgi' = "none"
  <2>1. post.len > 0 => post.received = post.len
    BY <1>1, <1>3, <1>5, WholeBody
  <2> QED
    BY <1>1, <1>2, <1>3, <1>5, <2>1, AnswerWaits
<1>6. CASE /\ cgi' = kind /\ post' = after
           /\ UNCHANGED <<answers, stray>>
           /\ kind = "upload" => post.received # post.len /\ c = sendBuff
  <2>1. Busy' /\ client' = client /\ cur' = cur /\ post'.len = post.len
    BY <1>1, <1>6 DEF Busy, Dealing
  <2>2. link # "down"
    BY <1>1 DEF WaitInv, Post
  <2>3. ASSUME kind = "upload"
        PROVE  /\ sendBuff' = <<>> /\ backlog' = <<>> /\ inflight' = <<>>
               /\ eaten' + post'.buffLen = post'.received
    <3>1. sendBuff = <<>> /\ backlog = <<>> /\ inflight = <<>> /\ q = <<>> /\ c = <<>>
      BY <1>2, <1>6, <2>3 DEF WaitInv, Busy
    <3>2. sendBuff' = <<>> /\ backlog' = <<>> /\ inflight' = <<>>
      BY <1>3, <3>1 DEF Delivered, Flush, NoFlush
    <3>3. post.len > 0
      BY <1>1, <1>6, <2>3 DEF BodyInv, Post
    <3>4. after.buffLen = 0 /\ after.received = post.received
      BY <2>3, <3>3 DEF Dealing
    <3>5. eaten' = post.received
      <4>1. CASE cgi = "upload" /\ n = calls
        <5>1. n # 0 /\ eaten + post.buffLen = post.received
          BY <4>1, <1>1 DEF IInv, Control, WaitInv, TypeOK
        <5> QED
          BY <1>4, <5>1
      <4>2. CASE NotYet /\ cur.kind = "upload" /\ n = 0
        <5>1. post.buffLen = post.received /\ post.buffLen \in Nat
          BY <1>1, <3>3, <4>2 DEF BodyInv, Post
        <5> QED
          BY <1>4, <4>2, <5>1
      <4> QED
        BY <2>3, <4>1, <4>2
    <3>6. post.received \in Nat
      BY <1>1 DEF Post
    <3> QED
      BY <1>6, <3>2, <3>4, <3>5, <3>6
  <2>4. answers = client.reqs - 1
    BY <1>2, <2>2 DEF WaitInv
  <2> QED
    BY <1>1, <1>2, <1>6, <2>1, <2>2, <2>3, <2>4 DEF WaitInv
<1> QED
  BY <1>3, <1>5, <1>6

\* A request is dispatched, after its body or the first part of it.
LEMMA ProcessWaits ==
  ASSUME IInv, BodyInv, OrderInv, WaitInv, NotYet, NEW STATE after, Dealing(inflight, after),
         recv' = "loop", post.len >= 0, post.len > 0 => recv = "body" /\ after.buffLen = 0,
         UNCHANGED link, ProcessRequest(after)
  PROVE  WaitInv'
<1>1. TypeOK /\ cgi = "none" /\ cur.kind # "unknown" /\ post \in Post
  BY DEF IInv, TypeOK, NotYet, WaitInv
<1>2. ~NotYet'
  BY <1>1, ProcessKeeps
<1>3. CASE /\ cur.kind = "cors"
           /\ cgi' = "none" /\ answers' = answers + 1 /\ ReadyOrMarked(after)
  <2>1. post.len > 0 => post.received = post.len
    BY <1>3, WholeBody
  <2> QED
    BY <1>2, <1>3, <2>1, AnswerWaits DEF Busy
<1>4. CASE cur.kind \in CgiKinds /\ CallCgi(cur.kind, 0, inflight, after, "request")
  BY <1>4, CallWaits
<1> QED
  BY <1>1, <1>3, <1>4, ProcessWrites

\* The next request begins when nothing of the last one is left.
LEMMA RecvHeadWaits ==
  ASSUME Pipelined = {}, IInv, BodyInv, WaitInv, NEW r \in Requests, RecvHead(r)
  PROVE  WaitInv'
<1>1. /\ r \in Request /\ r.len \in Nat /\ r.kind # "unknown"
      /\ TypeOK /\ post \in Post /\ client.reqs \in Nat /\ answers \in Nat /\ link = "up"
  BY ConnAssumption DEF Request, CgiKinds, IInv, TypeOK, RecvHead, Receiving
<1>2. /\ Quiet /\ client.left = 0 /\ post.len <= 0 /\ recv \in {"idle", "loop"}
  BY DEF RecvHead, MayStart, Receiving
<1>3. ~Busy
  BY <1>1, <1>2 DEF Busy, NotYet, Quiet, Post
<1>4. post.len < 0
  BY <1>1, <1>2, <1>3 DEF WaitInv, Quiet, Post
<1>5. /\ client' = [reqs |-> client.reqs + 1, left |-> r.len, pipe |-> r.keep /\ r.len = 0]
      /\ cur' = [num |-> client.reqs + 1, kind |-> IF stray THEN "unknown" ELSE r.kind]
      /\ post' = [len |-> r.len,
                  buffSize |-> IF r.len = 0 THEN post.buffSize
                               ELSE IF r.len > MaxPost THEN MaxPost ELSE r.len,
                  buffLen |-> IF r.len = 0 THEN post.buffLen ELSE 0,
                  received |-> post.received]
      /\ recv' = IF r.len = 0 THEN "head" ELSE "loop"
      /\ UNCHANGED <<link, stray, short, answers, cgi, calls, held, eaten,
                     sendBuff, backlog, backlogSize, inflight, wire>>
  BY <1>4 DEF RecvHead, cgiVars, sendVars
<1>6. post.received = 0 /\ cgi = "none"
  BY <1>1, <1>2, <1>4 DEF BodyInv, Quiet
<1>7. Busy'
  BY <1>1, <1>5, <1>6 DEF Busy, NotYet
<1>8. answers = client.reqs /\ ~stray
  BY <1>1, <1>3 DEF WaitInv
<1> QED
  BY <1>1, <1>2, <1>5, <1>6, <1>7, <1>8 DEF WaitInv, Quiet

\* A byte of a body, which belongs to the request that is being answered.
LEMMA RecvByteWaits ==
  ASSUME IInv, BodyInv, OrderInv, WaitInv, RecvByte
  PROVE  WaitInv'
<1>1. /\ TypeOK /\ post \in Post /\ client.left \in Nat /\ client.left > 0 /\ link = "up"
      /\ client' = [client EXCEPT !.left = @ - 1]
      /\ UNCHANGED <<link, cur, flags, short, answers, cgi, calls, held, eaten,
                     sendBuff, backlog, backlogSize, inflight, wire>>
  BY DEF RecvByte, cgiVars, sendVars, IInv, TypeOK, Receiving
<1>2. client'.reqs = client.reqs /\ client'.left = client.left - 1
  BY <1>1 DEF TypeOK
<1>3. post.len > 0
  BY <1>1 DEF WaitInv, Post
<1>4. /\ post' = [len |-> post.len, buffSize |-> post.buffSize,
                  buffLen |-> post.buffLen + 1, received |-> post.received + 1]
      /\ stray' = stray
  BY <1>1, <1>3 DEF RecvByte, Post
<1>5. client.left = post.len - post.received
  BY <1>3 DEF BodyInv
<1>6. Busy /\ Busy' /\ (NotYet' => NotYet)
  <2>1. (NotYet' => NotYet) /\ (cgi = "none" => NotYet')
    BY <1>3, RecvByteKeeps
  <2> QED
    BY <1>1, <2>1 DEF Busy
<1>7. cgi = "upload" => eaten + post'.buffLen = post'.received
  <2>1. eaten \in Nat /\ post.buffLen \in Nat /\ post.received \in Nat
    BY <1>1 DEF TypeOK, Post
  <2> QED
    BY <1>4, <2>1 DEF WaitInv
<1>8. client.reqs # 0
  BY <1>1 DEF WaitInv
<1> QED
  BY <1>1, <1>2, <1>3, <1>4, <1>6, <1>7, <1>8 DEF WaitInv, Post

\* The end of a segment.
LEMMA RecvEndWaits ==
  ASSUME IInv, BodyInv, OrderInv, WaitInv, RecvEnd
  PROVE  WaitInv'
<1>1. /\ Flush(inflight, sendBuff, FALSE)
      /\ UNCHANGED <<link, post, stray, cur, flags, short, client, answers, cgi, calls, held, eaten>>
  BY DEF RecvEnd, cgiVars
<1>2. NotYet' = NotYet
  BY RecvEndKeeps
<1>3. Busy' = Busy
  BY <1>1, <1>2 DEF Busy
<1>4. sendBuff = <<>> => sendBuff' = <<>> /\ backlog' = backlog /\ inflight' = inflight
  BY <1>1 DEF Flush
<1> QED
  BY <1>1, <1>2, <1>3, <1>4 DEF WaitInv

\* The SDK reports a packet: not while a body is awaited.
LEMMA SentCbWaits ==
  ASSUME IInv, BodyInv, OrderInv, WaitInv, SentCb
  PROVE  WaitInv'
<1>1. /\ recv = "idle" /\ recv' = "idle" /\ link # "down" /\ inflight # <<>>
      /\ UNCHANGED <<cur, short, client>>
  BY DEF SentCb
<1>2. cgi # "upload" /\ ~NotYet
  BY <1>1 DEF WaitInv
<1>3. CASE UNCHANGED <<post, cgi, stray, flags, answers>> /\ link' # "down"
  <2>1. ~NotYet' /\ cgi' # "upload"
    BY <1>1, <1>2, <1>3 DEF NotYet
  <2>2. Busy' = Busy
    BY <1>2, <1>3, <2>1 DEF Busy
  <2> QED
    BY <1>1, <1>3, <2>1, <2>2 DEF WaitInv
<1>4. CASE CallCgi(cgi, calls, Tail(inflight), post, "sent") /\ cgi # "none" /\ backlog = <<>> /\ UNCHANGED link
  <2>1. cgi \in CgiKinds /\ calls \in Nat /\ post.len >= 0
    BY <1>4 DEF IInv, TypeOK, HeaderPhaseHasNoCgi, Post
  <2>2. Dealing(Tail(inflight), post)
    BY <1>1, <1>4, DealingAfter
  <2> QED
    BY <1>2, <1>4, <2>1, <2>2, CallWaits, Zenon
<1>5. (SentCb /\ link # "down" /\ ~(CallCgi(cgi, calls, Tail(inflight), post, "sent") /\ cgi # "none" /\ backlog = <<>> /\ UNCHANGED link))
      => UNCHANGED <<post, cgi, stray, flags, answers>> /\ link' # "down"
  BY DEF SentCb, cgiVars
<1> QED
  BY <1>1, <1>3, <1>4, <1>5

\* Every step keeps the requests apart.
LEMMA StepWaits ==
  ASSUME Pipelined = {}, IInv, BodyInv, OrderInv, WaitInv, [Next]_vars
  PROVE  WaitInv'
<1>1. CASE MemoryGetsShort \/ UNCHANGED vars
  <2>1. UNCHANGED <<link, recv, post, stray, cur, flags, client, answers, cgi, calls, eaten, sendBuff, backlog, inflight>>
    BY <1>1 DEF MemoryGetsShort, vars, cgiVars, sendVars
  <2>2. NotYet' = NotYet /\ Busy' = Busy
    BY <2>1 DEF NotYet, Busy
  <2> QED
    BY <2>1, <2>2 DEF WaitInv
<1>2. CASE ConnectCb
  <2>1. /\ link = "down" /\ link' = "up" /\ client.reqs = 0
        /\ UNCHANGED <<recv, post, stray, cur, flags, client, answers, cgi, calls, eaten, sendBuff, backlog, inflight>>
    BY <1>2 DEF ConnectCb, cgiVars, sendVars
  <2>2. post.len < 0 /\ cgi = "none" /\ answers = 0 /\ client.left = 0 /\ post.len \in Int
    BY <2>1 DEF WaitInv, IInv, TypeOK, Post
  <2>3. ~NotYet
    BY <2>2 DEF NotYet, IInv, Control
  <2>4. ~NotYet' /\ ~Busy'
    BY <2>1, <2>2, <2>3 DEF NotYet, Busy
  <2> QED
    BY <2>1, <2>2, <2>4 DEF WaitInv
<1>3. CASE HeadComplete
  <2>1. /\ recv = "head" /\ recv' = "loop" /\ post.len = 0 /\ cgi = "none" /\ ProcessRequest(post)
        /\ UNCHANGED <<cur, short, client, link>>
    BY <1>3 DEF HeadComplete, IInv, Control
  <2>2. NotYet /\ Dealing(inflight, post)
    BY <2>1, DealingAfter DEF NotYet
  <2> QED
    BY <2>1, <2>2, ProcessWaits
<1>4. CASE BodyChunk
  <2>1. recv = "body" /\ recv' = "loop" /\ post.len > 0 /\ UNCHANGED <<cur, short, client, link>>
    BY <1>4 DEF BodyChunk, IInv, Control
  <2>2. Dealing(inflight, Emptied) /\ Emptied.buffLen = 0 /\ post.len >= 0
    BY <2>1, DealingAfter DEF Emptied, IInv, TypeOK, Post
  <2>3. CASE cgi = "none"
    BY <1>4, <2>1, <2>2, <2>3, ProcessWaits DEF NotYet, BodyChunk
  <2>4. CASE cgi # "none"
    <3>1. CallCgi(cgi, calls, inflight, Emptied, "body") /\ cgi \in CgiKinds /\ calls \in Nat
      BY <1>4, <2>4 DEF BodyChunk, IInv, TypeOK
    <3> QED
      BY <2>1, <2>2, <3>1, CallWaits
  <2> QED
    BY <2>3, <2>4
<1>5. CASE DisconCb
  <2>1. /\ link # "down" /\ link' = "down" /\ cgi' = "none" /\ post' = FreshPost /\ stray' = FALSE
        /\ UNCHANGED <<client, answers, recv>>
    BY <1>5 DEF DisconCb
  <2>2. ~NotYet'
    BY <1>5, DisconCbKeeps
  <2> QED
    BY <2>1, <2>2 DEF WaitInv, FreshPost, Busy
<1> QED
  BY <1>1, <1>2, <1>3, <1>4, <1>5, RecvHeadWaits, RecvByteWaits, RecvEndWaits, SentCbWaits DEF Next

\* The requests of a client that waits are answered once each, in their order.
LEMMA ConnWaits ==
  ASSUME LargeBodiesStream, Pipelined = {}
  PROVE  Spec => [](IInv /\ WaitInv)
<1>1. IInv /\ BodyInv /\ OrderInv /\ [Next]_vars => BodyInv' /\ OrderInv'
  BY StepKeeps
<1>2. IInv /\ BodyInv /\ OrderInv /\ WaitInv /\ [Next]_vars => WaitInv'
  BY StepWaits
<1>3. Init => WaitInv
  <2> SUFFICES ASSUME Init PROVE WaitInv
    OBVIOUS
  <2>1. ~NotYet /\ ~Busy
    BY DEF Init, NotYet, Busy, FreshPost
  <2> QED
    BY <2>1 DEF Init, WaitInv, FreshPost, Busy
<1> QED
  BY <1>1, <1>2, <1>3, InitOrder, ConnInvariant, PTL DEF Spec

\* httpdCgiIsDone runs once for each request, if the client waits for the responses and
\* sends large bodies to the upload CGI only.
THEOREM ConnOneAnswer ==
  ASSUME LargeBodiesStream, Pipelined = {}
  PROVE  Spec => []OneAnswerPerRequest
<1>1. IInv /\ WaitInv => OneAnswerPerRequest
  BY DEF WaitInv, OneAnswerPerRequest
<1> QED
  BY <1>1, ConnWaits, PTL

\* Every byte of the body reaches an upload exactly once, under the same conditions.
THEOREM ConnBodyEatenOnce ==
  ASSUME LargeBodiesStream, Pipelined = {}
  PROVE  Spec => []BodyEatenOnce
<1>1. IInv /\ WaitInv => BodyEatenOnce
  BY DEF WaitInv, BodyEatenOnce
<1> QED
  BY <1>1, ConnWaits, PTL
=============================================================================
