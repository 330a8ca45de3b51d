------------------------------ MODULE MCStreams ------------------------------
(***************************************************************************)
(* Model checking the functions that take what they work on piece by       *)
(* piece, or out of a text: pages with tokens, uploads, websocket frames,  *)
(* chunks of a response, files, compressed files, heads of requests,       *)
(* arguments, passwords, questions for names; and the list of websockets.  *)
(* One of them serves; the state of the others is at rest.                 *)
(***************************************************************************)
EXTENDS Template, Upload, ChunkFraming, WebSocket, StaticFile

CONSTANTS
  ByteLen, InputSize, MaxTokens,                                   \* of Heatshrink
  MaxHead, MaxHeaders, MaxHeads,                                   \* of RequestHead
  MaxArgs, MaxValue,                                               \* of QueryArgs
  MaxName,                                                         \* of BasicAuth
  MaxLabels, MaxQuestions                                          \* of CaptDns

VARIABLES
  service,   \* the function that serves
  params, tokens, fed, hState, buffer, inputIndex, bits, outputIndex, outputCount, window, headIndex,
  room, polled, hOut,
  asked, at, head, conn, status, by, count,
  in, value   \* what a function without a state is asked, and its answer, once it is called

\* References as short as the decoder can read, as long as a byte and a bit, and so long that indexes
\* and counts have two parts.
DecoderParams == {<<1, 1>>, <<2, 1>>, <<4, 4>>}
H == INSTANCE Heatshrink WITH
       state <- hState, out <- hOut, Params <- DecoderParams, Literals <- {1, 6}, Rooms <- {1, 3}

\* Routes like those of user/routes.c, with the one for passwords that it leaves out.
RouteTable ==
  <<[url |-> <<>>, star |-> TRUE, kind |-> "portal"],
    [url |-> <<"/">>, star |-> FALSE, kind |-> "page"],
    [url |-> <<"/", "wifi">>, star |-> TRUE, kind |-> "auth"],
    [url |-> <<"/", "wifi">>, star |-> FALSE, kind |-> "page"]>>

R == INSTANCE RequestHead WITH
       CorsLen <- 2, Routes <- RouteTable, Urls <- {<<"/">>, <<"/", "wifi">>, <<"/", "other">>},
       MaxRequests <- MaxHeads
Q == INSTANCE QueryArgs
A == INSTANCE BasicAuth WITH
       NameBytes <- {97, 255, 1},
       Users <- {<<<<97>>, <<>>>>, <<<<97, 1>>, <<255>>>>, <<<<>>, <<97, 255>>>>}
D == INSTANCE CaptDns WITH Labels <- {<<97>>, <<98, 97>>}, ApAddress <- 4

\* Files, and paths: the root, a file, which may also be a directory, that directory, a file with an
\* extension, and one that is not there.
StreamsFileNames ==
  {<<"index", ".", "html">>, <<"index", ".", "tpl">>, <<"wifi">>, <<"wifi", "/", "index", ".", "htm">>}
StreamsPaths ==
  {<<"/">>, <<"/", "wifi">>, <<"/", "wifi", "/">>, <<"/", "index", ".", "tpl">>, <<"/", "wifi", ".", "js">>}

ASSUME StreamsAssumption ==
  /\ R!HeadConstants /\ H!HeatshrinkConstants

decoderVars == <<params, tokens, fed, hState, buffer, inputIndex, bits, outputIndex, outputCount,
                 window, headIndex, room, polled, hOut>>
headVars == <<asked, at, head, conn, status, by, count>>
valueVars == <<in, value>>
streamVars == <<service, vars, uploadVars, socketVars, chunkVars, fileVars,
                decoderVars, listVars, headVars, valueVars>>

AtRest(s) == service # s
SomeUpload == [kind |-> "bin", type |-> "FW", tagOk |-> TRUE, len1 |-> 0, len2 |-> 0,
               user1 |-> TRUE, total |-> 1]
SomeImage == <<[name |-> <<"wifi">>, compressed |-> FALSE, symbols |-> <<>>]>>
SomeRequest == [method |-> "HEAD ", url |-> <<"/">>, args |-> <<>>, version |-> "HTTP/1.0",
                headers |-> <<>>, eol |-> <<"LF">>, ap |-> FALSE]

Stateless == {"args", "auth", "dns"}
InputsOf(s) == CASE s = "args" -> Q!Inputs [] s = "auth" -> A!Inputs [] s = "dns" -> D!Inputs
ResultOf(s, asks) ==
  CASE s = "args" -> Q!Result(asks) [] s = "auth" -> A!Authenticated(asks) [] s = "dns" -> D!Result(asks)

StreamsInit ==
  /\ service \in {"template", "upload", "websocket", "chunks", "file", "decoder", "list", "head"}
                   \cup Stateless
  /\ Start /\ UploadStart /\ SocketStart /\ ChunkInit /\ FileStart /\ R!Start /\ ListInit
  /\ IF AtRest("template") THEN file = <<>> ELSE file \in BoundedSeq(Chars, MaxLen)
  /\ IF AtRest("upload") THEN upload = SomeUpload ELSE upload \in Uploads
  /\ IF AtRest("websocket") THEN frames = <<>> ELSE frames \in BoundedSeq(Frames, MaxFrames)
  /\ IF AtRest("file") THEN image = SomeImage /\ wanted = <<"/">>
     ELSE image \in Images /\ wanted \in Paths
  /\ IF AtRest("decoder") THEN params = <<1, 1>> /\ tokens = <<>>
     ELSE params \in DecoderParams /\ tokens \in H!Files(params)
  /\ H!Start
  /\ IF AtRest("head") THEN asked = SomeRequest ELSE asked \in R!Requests(MaxHeaders)
  /\ IF service \notin Stateless THEN in = <<>> ELSE in \in InputsOf(service)
  /\ value = <<>>

Others(s) ==
  /\ service = s /\ UNCHANGED service
  /\ s # "template" => UNCHANGED vars
  /\ s # "upload" => UNCHANGED uploadVars
  /\ s # "websocket" => UNCHANGED socketVars
  /\ s # "chunks" => UNCHANGED chunkVars
  /\ s # "file" => UNCHANGED fileVars
  /\ s # "decoder" => UNCHANGED decoderVars
  /\ s # "list" => UNCHANGED listVars
  /\ s # "head" => UNCHANGED headVars
  /\ s \notin Stateless => UNCHANGED valueVars

Templates == Others("template")
Uploading == Others("upload")
Websocket == Others("websocket")
Chunks == Others("chunks")
Serving == Others("file")
Decoding == Others("decoder")
Listing == Others("list")
Heads == Others("head")

\* A call of a function without a state.
Called(s) == Others(s) /\ value = <<>> /\ value' = <<ResultOf(s, in)>> /\ UNCHANGED in

StreamsNext ==
  \/ Templates /\ Next
  \/ Uploading /\ UploadNext
  \/ Websocket /\ SocketNext
  \/ Chunks /\ ChunkNext
  \/ Serving /\ FileNext
  \/ Decoding /\ H!Next
  \/ Listing /\ ListNext
  \/ Heads /\ R!Next
  \/ \E s \in Stateless : Called(s)

\* A call of the upload goes on, and ends.
StreamsSpec ==
  /\ StreamsInit /\ [][StreamsNext]_streamVars
  /\ WF_streamVars(Uploading /\ Turn)
  /\ WF_streamVars(Uploading /\ Return)
----------------------------------------------------------------------------
\* A compressed file is decoded as it was meant, however its bytes come in and go out.
DecoderIsRight == H!DecoderIsRight

\* A head is read as its client meant it, and answered by who has to (HeadReadRight), also if it is
\* for the portal and has a body (PortalRedirects).
HeadReadRight == R!HeadReadRight
PortalRedirects == R!PortalRedirects

\* A CGI gets the argument that its user entered, however it is escaped and whatever other names
\* and values look like (httpdFindArg); who is on the list gets in, and nobody else (authBasic); and
\* every question for an address is answered under its own name (captdnsRecv). Left open is
\* where the code does not keep what its comments promise: the zero behind a value that fills the
\* buffer (Decoded), and the reply to a query with an additional record (TakenForReply).
TextsDecoded ==
  value # <<>> =>
    /\ service = "args" => Q!Decoded(in, value[1])
    /\ service = "auth" => value[1] = A!Allowed(in)
    /\ service = "dns" => value[1] = D!Meant(in) \/ D!TakenForReply(in)
=============================================================================
