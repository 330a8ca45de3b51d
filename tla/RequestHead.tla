------------------------------- MODULE RequestHead -------------------------------
(***************************************************************************)
(* The head of a request (httpdRecvCb, httpdParseHeader, httpdGetHeader    *)
(* and httpdProcessRequest of libesphttpd/core/httpd.c): bytes are         *)
(* collected until the empty line, cut into lines in place, and the walk   *)
(* through the route table finds the function that answers. A cell of the  *)
(* head stands for a run of bytes: a word, a separator, CR, LF or NUL.     *)
(***************************************************************************)
EXTENDS Integers, SequencesExt

CONSTANTS
  MaxHead,      \* MAX_HEAD_LEN
  CorsLen,      \* MAX_CORS_TOKEN_LEN, what lies behind the head
  Routes,       \* builtInUrls: sequence of [url, star, kind]
  Urls,         \* paths that clients ask for
  MaxHeaders,   \* bound of the model: header lines of a first request, one more than of others
  MaxRequests   \* bound of the model: requests on the connection

VARIABLES
  asked,    \* the request the client sends
  at,       \* its cells that were sent
  head,     \* priv->head, as long as headPos
  conn,     \* requestType, url, getArgs, hostName and post->multipartBoundary (positions in
            \* head, 0 is NULL), HFL_CHUNKED, post->len, post->received, corsToken
  status,   \* "head" while post->len < 0, "body" while it is not 0, then "processed";
            \* "overrun" when the head runs over what lies behind it
  by,       \* what answered: a route's index, "cors", "404", or "none"
  count     \* requests so far

headVars == <<asked, at, head, conn, status, by, count>>

CR == "CR"
LF == "LF"
NUL == "NUL"
SP == "space"
Question == "?"

HeadConstants ==
  /\ MaxHead \in Nat \ {0} /\ CorsLen \in Nat \ {0} /\ MaxHeaders \in Nat \ {0}
  /\ \A n \in DOMAIN Routes : Routes[n].kind \in {"portal", "auth", "page"}
----------------------------------------------------------------------------
(***************************************************************************)
(* What clients send. HEAD stands for the methods the server does not      *)
(* know.                                                                   *)
(***************************************************************************)

Close == <<"Connection:", "close">>
Length(n) == <<"Content-Length:", n>>
Multipart == <<"Content-Type:", "multipart/form-data;", "boundar", "y=", "token">>
CorsHeader == <<"Access-Control-Request-Headers:", "token">>
Host(name) == <<"Host:", name>>
Authorization(entry) == <<"Authorization:", entry>>
Common == {Close} \cup {Host(n) : n \in {"other", "own", "ip"}}
                  \cup {Authorization(e) : e \in {"good", "bad"}}

HeadersOf(method, max) ==
  LET set == Common \cup (IF method = "POST " THEN {Length(n) : n \in {"0", "1", "2"}} \cup {Multipart}
                                             ELSE {})
                    \cup (IF method = "OPTIONS " THEN {CorsHeader} ELSE {})
  IN  {h \in BoundedSeq(set, max) : \A j, k \in DOMAIN h : j # k => h[j][1] # h[k][1]}

\* A request with n headers at most, how its client ends a line, and whether it comes over the access
\* point, which matters only when it names a host.
Requests(n) ==
  UNION {{r \in [method : {m}, url : Urls, args : IF m = "GET " THEN {<<>>, <<"q">>} ELSE {<<>>},
                 version : {"HTTP/1.0", "HTTP/1.1"}, headers : HeadersOf(m, n),
                 eol : {<<LF>>, <<CR, LF>>}, ap : BOOLEAN]
             : r.ap => \E k \in DOMAIN r.headers : r.headers[k][1] = "Host:"}
         : m \in {"GET ", "POST ", "OPTIONS ", "HEAD "}}

CellsOf(r) ==
  <<r.method>> \o r.url \o (IF r.args = <<>> THEN <<>> ELSE <<Question>> \o r.args)
    \o <<SP, r.version>> \o r.eol
    \o FlattenSeq([n \in DOMAIN r.headers |-> r.headers[n] \o r.eol]) \o r.eol

\* What a head occupies: line feeds get their carriage return.
Fits(r) ==
  LET feeds == Len(r.headers) + 2
  IN  Len(CellsOf(r)) + (IF r.eol = <<LF>> THEN feeds ELSE 0) <= MaxHead
----------------------------------------------------------------------------
(***************************************************************************)
(* Strings in the head.                                                    *)
(***************************************************************************)

\* Where the string at p ends.
EndOf(h, p) == Min({q \in p .. Len(h) : h[q] = NUL} \cup {Len(h) + 1})
StringAt(h, p) == SubSeq(h, p, EndOf(h, p) - 1)

\* strstr, from p; 0 is NULL.
Find(h, p, pattern) ==
  LET n == Len(pattern)
      found == {q \in p .. EndOf(h, p) - n : SubSeq(h, q, q + n - 1) = pattern}
  IN  IF found = {} THEN 0 ELSE Min(found)

\* httpdGetHeader; <<>> when there is none.
GetHeader(h, name) ==
  LET text(p) == Min({q \in p .. Len(h) : h[q] \notin {CR, LF, SP}} \cup {Len(h) + 1})
      find[p \in 1 .. Len(h) + 2] ==
        IF p > Len(h) THEN <<>>
        ELSE LET s == text(p)
             IN  IF s <= Len(h) /\ h[s] = name
                 THEN SubSeq(h, s + 1,
                             Min({q \in s .. Len(h) : h[q] \in {NUL, CR, LF}} \cup {Len(h) + 1}) - 1)
                 ELSE find[EndOf(h, s) + 1]
  IN  find[Min({EndOf(h, EndOf(h, 1) + 1) + 1, Len(h) + 2})]
----------------------------------------------------------------------------
(***************************************************************************)
(* httpdParseHeader, on st: the head that is cut up and the connection.    *)
(***************************************************************************)

Methods == {"GET ", "POST ", "PUT ", "OPTIONS "}

\* The request line at p: url, version and arguments.
RequestLine(st, p) ==
  LET url == p + 1
      space == Find(st.head, url, <<SP>>)
      cut == [st.head EXCEPT ![space] = NUL]
      mark == Find(cut, url, <<Question>>)
  IN  [head |-> IF mark = 0 THEN cut ELSE [cut EXCEPT ![mark] = NUL],
       conn |-> [st.conn EXCEPT
                   !.type = st.head[p], !.url = url,
                   !.args = IF mark = 0 THEN 0 ELSE mark + 1,
                   !.chunked = @ \/ StringAt(cut, space + 1) = <<"HTTP/1.1">>]]

\* atoi. A length below 0 is not modelled, nor is a failing malloc of the post buffer.
Atoi == ("0" :> 0) @@ ("1" :> 1) @@ ("2" :> 2)

\* The boundary of a form in parts: the two characters before it make room for dashes.
ContentType(st, p) ==
  LET b == Find(st.head, p, <<"y=">>)
  IN  [head |-> [st.head EXCEPT ![b] = "--"], conn |-> [st.conn EXCEPT !.boundary = b]]

ParseHeader(st, p) ==
  LET word == st.head[p]
      line == [st EXCEPT !.head[Find(st.head, p, <<CR, LF>>)] = NUL]
      value == StringAt(line.head, p + 1)
  IN  CASE word \in Methods -> RequestLine(line, p)
        [] word = "Host:" -> [line EXCEPT !.conn.host = p + 1]
        [] word = "Connection:" /\ value = <<"close">> -> [line EXCEPT !.conn.chunked = FALSE]
        [] word = "Content-Length:" -> [line EXCEPT !.conn.len = Atoi[value[1]]]
        [] word = "Content-Type:" -> ContentType(line, p)
        [] word = "Access-Control-Request-Headers:" -> [line EXCEPT !.conn.cors = value]
        [] OTHER -> line

\* Where the lines begin: the loop of httpdRecvCb, which stops before the empty line.
LineStarts(h) ==
  LET from[p \in 1 .. Len(h) + 2] ==
        LET e == Find(h, p, <<CR, LF>>)
        IN  IF p > Len(h) - 4 \/ e = 0 THEN <<>> ELSE <<p>> \o from[e + 2]
  IN  from[1]

Parse(h, c) ==
  FoldLeft(ParseHeader, [head |-> h, conn |-> [c EXCEPT !.len = 0, !.url = 0]], LineStarts(h))
----------------------------------------------------------------------------
(***************************************************************************)
(* httpdProcessRequest.                                                    *)
(***************************************************************************)

\* The functions of a route that return HTTPD_CGI_NOTFOUND or HTTPD_CGI_AUTHENTICATED: the portal's
\* redirection for who is not meant (cgiRedirectApClientToHostname), authBasic for who may enter.
PassesOn(kind, h, c) ==
  \/ kind = "portal"
     /\ (~asked.ap \/ c.host = 0 \/ StringAt(h, c.host) \in {<<"own">>, <<"ip">>})
  \/ kind = "auth" /\ GetHeader(h, "Authorization:") = <<"good">>

Matches(route, url) == route.url = url \/ (route.star /\ IsPrefix(route.url, url))

\* Mutant of Walk: the next turn begins behind the next route.
WalkSkips(h, c) ==
  LET from[n \in 1 .. Len(Routes) + 2] ==
        IF n > Len(Routes) THEN "404"
        ELSE IF ~Matches(Routes[n], StringAt(h, c.url)) THEN from[n + 1]
        ELSE IF PassesOn(Routes[n].kind, h, c) THEN from[n + 2] ELSE ToString(n)
  IN  from[1]

\* The walk through the routes, which goes on behind a function that passes on.
Walk(h, c) ==
  LET from[n \in 1 .. Len(Routes) + 1] ==
        IF n > Len(Routes) THEN "404"
        ELSE IF Matches(Routes[n], StringAt(h, c.url)) /\ ~PassesOn(Routes[n].kind, h, c)
        THEN ToString(n) ELSE from[n + 1]
  IN  from[1]

\* A request without a url, whose method is unknown, is dropped.
Process(h, c) ==
  /\ status' = "processed"
  /\ by' = (IF c.url = 0 THEN "none" ELSE IF c.type = "OPTIONS " THEN "cors" ELSE Walk(h, c))
----------------------------------------------------------------------------
NoConn == [type |-> "", url |-> 0, args |-> 0, chunked |-> FALSE, len |-> -1, received |-> 0,
           host |-> 0, boundary |-> 0, cors |-> <<>>]

Start ==
  /\ at = 0 /\ head = <<>> /\ conn = NoConn
  /\ status = "head" /\ by = "none" /\ count = 1

Init == Start /\ asked \in Requests(MaxHeaders)

\* A line feed without its carriage return gets one.
Faked(h, x) == IF x = LF /\ h # <<>> /\ Last(h) # CR THEN Append(h, CR) ELSE h

\* The head with one more cell; the test for a full head is one for equality.
Collected(h, x) == IF Len(h) # MaxHead THEN Append(h, x) ELSE h

\* httpdRecvCb, a byte of the head.
RecvHead ==
  /\ status = "head" /\ at < Len(CellsOf(asked))
  /\ at' = at + 1
  /\ LET x == CellsOf(asked)[at + 1]
         h == Collected(Faked(head, x), x)
         st == Parse(h, conn)
     IN  IF Len(h) > MaxHead + CorsLen
         THEN status' = "overrun" /\ head' = h /\ UNCHANGED <<conn, by>>
         ELSE IF x # LF \/ Find(h, 1, <<CR, LF, CR, LF>>) = 0
         THEN head' = h /\ UNCHANGED <<conn, status, by>>
         ELSE /\ head' = st.head /\ conn' = st.conn
              /\ IF st.conn.len = 0 THEN Process(st.head, st.conn)
                 ELSE status' = "body" /\ UNCHANGED by
  /\ UNCHANGED <<asked, count>>

\* httpdRecvCb, a byte of the body: hostName is lost, and with the last one the request is processed.
\* (Bodies longer than the post buffer are HttpdConn's.)
RecvBody ==
  /\ status = "body"
  /\ conn' = [conn EXCEPT !.host = 0, !.received = @ + 1]
  /\ IF conn'.received = conn.len THEN Process(head, conn') ELSE UNCHANGED <<status, by>>
  /\ UNCHANGED <<asked, at, head, count>>

\* A further call of httpdRecvCb clears corsToken, the first byte behind the head.
NextSegment ==
  /\ status = "head" /\ at \in 1 .. Len(CellsOf(asked)) - 1
  /\ conn' = [conn EXCEPT !.cors = <<>>]
  /\ head' = (IF Len(head) > MaxHead THEN [head EXCEPT ![MaxHead + 1] = NUL] ELSE head)
  /\ UNCHANGED <<asked, at, status, by, count>>

\* Mutant of Cleaned: the head is not emptied.
CleanedKeepsHead ==
  conn' = [conn EXCEPT !.len = -1, !.received = 0, !.chunked = FALSE, !.host = 0] /\ UNCHANGED head

\* httpdCgiIsDone: what it cleans up for the next request.
Cleaned ==
  conn' = [conn EXCEPT !.len = -1, !.received = 0, !.chunked = FALSE, !.host = 0] /\ head' = <<>>

\* httpdCgiIsDone, and the client's next request on the connection.
NextRequest ==
  /\ status = "processed" /\ by # "none" /\ conn.chunked /\ count < MaxRequests
  /\ Cleaned
  /\ asked' \in Requests(MaxHeaders - 1)
  /\ at' = 0 /\ status' = "head" /\ by' = "none" /\ count' = count + 1

Next == RecvHead \/ RecvBody \/ NextSegment \/ NextRequest

Spec == Init /\ [][Next]_headVars
----------------------------------------------------------------------------
\* The value of a header of the request; <<>> when it has none.
ValueOf(r, name) ==
  LET same == {n \in DOMAIN r.headers : r.headers[n][1] = name}
  IN  IF same = {} THEN <<>> ELSE Tail(r.headers[Min(same)])

BodyLen(r) ==
  LET value == ValueOf(r, "Content-Length:") IN IF value = <<>> THEN 0 ELSE Atoi[value[1]]

\* Who has to answer a request: the first route of its url that is not meant for others only. The
\* portal's is for the clients of the access point that name another host, whatever they send; a
\* request of a method the server does not know is somebody's, too.
Responsible(r) ==
  LET stops(kind) ==
        CASE kind = "portal" -> r.ap /\ ValueOf(r, "Host:") = <<"other">>
          [] kind = "auth" -> ValueOf(r, "Authorization:") # <<"good">>
          [] OTHER -> TRUE
      able == {n \in DOMAIN Routes : Matches(Routes[n], r.url) /\ stops(Routes[n].kind)}
  IN  IF r.method = "OPTIONS " THEN "cors"
      ELSE IF able = {} THEN "404" ELSE ToString(Min(able))

\* Two kinds of request that the code treats otherwise than its comments say.
UnknownMethod(r) == r.method = "HEAD "
LosesHost(r) == r.ap /\ ValueOf(r, "Host:") = <<"other">> /\ BodyLen(r) > 0

\* What is read of a request, once it is processed. The value of a Content-Type has dashes in it.
ReadAsMeant(r) ==
  /\ conn.type = r.method
  /\ StringAt(head, conn.url) = r.url
  /\ (IF conn.args = 0 THEN <<>> ELSE StringAt(head, conn.args)) = r.args
  /\ conn.chunked = (r.version = "HTTP/1.1" /\ ValueOf(r, "Connection:") = <<>>)
  /\ conn.len = BodyLen(r) /\ conn.received = BodyLen(r)
  /\ ValueOf(r, "Access-Control-Request-Headers:") \in {<<>>, conn.cors}
  /\ Multipart \in ToSet(r.headers) => StringAt(head, conn.boundary) = <<"--", "token">>
  /\ \A h \in ToSet(r.headers) \ {Multipart} : GetHeader(head, h[1]) = Tail(h)

\* A head that fits is complete with its empty line, however its lines end and whatever request
\* came before it; a request of a method the server knows is read as it was meant, and answered by
\* who has to (httpdRecvCb, httpdParseHeader, httpdProcessRequest). Who answers is left open where
\* the host is lost, which PortalRedirects is about. Of a request of another method
\* nothing more is said: the code never answers it, though it says of that "Shouldn't happen".
HeadReadRight ==
  Fits(asked) =>
    /\ at = Len(CellsOf(asked)) => status \in {"body", "processed"}
    /\ status = "processed" /\ ~UnknownMethod(asked) =>
         /\ ReadAsMeant(asked)
         /\ by = Responsible(asked) \/ LosesHost(asked)

\* A client of the access point that names another host is redirected, whatever it asks for ("redirects
\* to a fixed url of http://[hostname]/ if hostname field of request isn't already that hostname").
\* (Violated: the first byte of a body makes httpdRecvCb forget the host.)
PortalRedirects ==
  Fits(asked) /\ status = "processed" /\ ~UnknownMethod(asked) => by = Responsible(asked)
=============================================================================
