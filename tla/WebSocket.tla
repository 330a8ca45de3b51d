------------------------------ MODULE WebSocket ------------------------------
(***************************************************************************)
(* Receiving websocket frames (cgiWebSocketRecv of                         *)
(* libesphttpd/util/cgiwebsocket.c). The bytes of a connection come in     *)
(* segments that know nothing of frames; the function parses heads byte by *)
(* byte and takes as much payload at a time as the segment has.            *)
(*                                                                         *)
(* A byte is the frame it belongs to and a value: a byte of the length, or *)
(* its place in the mask or in the payload. A call is Segment, the turns   *)
(* of the loop, and SegmentDone. What comes out is a sequence of pieces:   *)
(* bytes handed to the application, pong heads and the bytes echoed behind *)
(* them; and close frames, which are counted.                              *)
(***************************************************************************)
EXTENDS Integers, SequencesExt, WebsocketList

CONSTANTS
  SmallLen,     \* 125, the longest payload without an extended length
  MaxPayload,   \* bound of the model: length of a payload
  MaxFrames     \* bound of the model: frames

\* Lengths fit into the small field of a head, and into a byte of the extended one.
ASSUME SocketAssumption ==
  /\ SmallLen \in 0 .. 125
  /\ MaxPayload \in 0 .. 255
  /\ MaxFrames \in Nat

VARIABLES
  frames,      \* what the client sends
  got,         \* bytes received
  looked,      \* bytes looked at: i, over all segments
  receiving,   \* the function is in its loop
  due,         \* a head was completed in this turn of the loop
  wsStatus,    \* ws->priv->wsStatus
  flags,       \* fr.flags, its opcode
  len8,        \* fr.len8: the small length, or 126, 127, and the mask bit
  frLen,       \* fr.len
  mask,        \* fr.mask
  maskCtr,     \* ws->priv->maskCtr
  frameCont,   \* ws->priv->frameCont
  closedHere,  \* ws->priv->closedHere
  result,      \* HTTPD_CGI_MORE, or HTTPD_CGI_DONE: the websocket was freed
  out,         \* what came out
  closes       \* close frames sent

frVars == <<flags, len8, frLen, mask>>
privVars == <<wsStatus, maskCtr, frameCont, closedHere>>
socketVars == <<frames, got, looked, receiving, due, frVars, privVars, result, out, closes>>

ST_FLAGS == 0
ST_LEN0 == 1
ST_LEN1 == 2
ST_LEN2 == 3
ST_LEN8 == 9
ST_MASK1 == 10
ST_MASK4 == 13
ST_PAYLOAD == 14

\* "DATA" stands for continuation, text and binary frames, "PONG" for all the opcodes
\* the function does not know.
Opcodes == {"DATA", "PING", "PONG", "CLOSE"}

\* Frames of a client; ext is the number of bytes of the extended length, which a client uses for
\* longer payloads only. Data may lack
\* its mask, which a client must not do; the code asks for the mask of data only, and
\* control frames have theirs here.
Frames ==
  {f \in [op : Opcodes, masked : BOOLEAN, ext : {0, 2, 8}, len : 0 .. MaxPayload] :
     /\ (f.ext = 0) = (f.len <= SmallLen)
     /\ f.op # "DATA" => f.masked}

\* The bytes of frame k.
Encoded(k) ==
  LET f == frames[k]
      byte(v) == [frame |-> k, v |-> v]
  IN  <<byte(0), byte(0)>>
        \o [n \in 1 .. f.ext |-> byte(IF n = f.ext THEN f.len ELSE 0)]
        \o [n \in 1 .. (IF f.masked THEN 4 ELSE 0) |-> byte(n)]
        \o [n \in 1 .. f.len |-> byte(n)]

Stream == FlattenSeq([k \in 1 .. Len(frames) |-> Encoded(k)])

Piece(type, k, v, m) == [type |-> type, frame |-> k, v |-> v, mask |-> m]

SocketTypeOK ==
  /\ got \in 0 .. Len(Stream) /\ looked \in 0 .. got
  /\ receiving \in BOOLEAN /\ due \in BOOLEAN
  /\ wsStatus \in ST_FLAGS .. ST_PAYLOAD
  /\ flags \in Opcodes
  /\ len8 \in [len : 0 .. 127, masked : BOOLEAN]
  /\ frLen \in 0 .. MaxPayload
  /\ mask \in [0 .. 3 -> 0 .. 255]
  /\ maskCtr \in 0 .. 255
  /\ frameCont \in BOOLEAN /\ closedHere \in BOOLEAN
  /\ result \in {"MORE", "DONE"}
  /\ out \in Seq([type : {"data", "pong", "echo"}, frame : 1 .. Len(frames), v : 0 .. MaxPayload,
                  mask : 0 .. 255])
  /\ closes \in 0 .. 2

SocketStart ==
  /\ got = 0 /\ looked = 0 /\ receiving = FALSE /\ due = FALSE
  /\ wsStatus = ST_FLAGS
  /\ flags = "DATA"
  /\ len8 = [len |-> 0, masked |-> FALSE] /\ frLen = 0
  /\ mask = [n \in 0 .. 3 |-> 0]
  /\ maskCtr = 0 /\ frameCont = FALSE /\ closedHere = FALSE
  /\ result = "MORE"
  /\ out = <<>> /\ closes = 0

SocketInit == frames \in BoundedSeq(Frames, MaxFrames) /\ SocketStart
----------------------------------------------------------------------------
\* A segment of any length.
Segment ==
  /\ ~receiving /\ result = "MORE"
  /\ \E n \in got + 1 .. Len(Stream) : got' = n
  /\ receiving' = TRUE
  /\ UNCHANGED <<frames, looked, due, frVars, privVars, result, out, closes>>

\* The application closes the websocket, which stays open until the client answers.
CloseHere ==
  /\ ~receiving /\ result = "MORE" /\ ~closedHere
  /\ closedHere' = TRUE
  /\ closes' = closes + 1
  /\ UNCHANGED <<frames, got, looked, receiving, due, frVars, wsStatus, maskCtr, frameCont, result, out>>

Byte == Stream[looked + 1]
HeadTurn(s) == receiving /\ result = "MORE" /\ ~due /\ looked < got /\ wsStatus \in s

AfterLength == IF len8'.masked THEN ST_MASK1 ELSE ST_PAYLOAD

\* A byte of a head was taken; payload is due when it was the last one.
HeadByte ==
  /\ looked' = looked + 1
  /\ due' = (wsStatus' = ST_PAYLOAD)
  /\ UNCHANGED <<frames, got, receiving, closedHere, result, out, closes>>

\* Mutant of Flags: the mask goes on where it was.
FlagsKeepMask ==
  /\ HeadTurn({ST_FLAGS})
  /\ flags' = frames[Byte.frame].op
  /\ frameCont' = FALSE
  /\ wsStatus' = ST_LEN0
  /\ HeadByte
  /\ UNCHANGED <<len8, frLen, mask, maskCtr>>

\* A frame begins.
Flags ==
  /\ HeadTurn({ST_FLAGS})
  /\ flags' = frames[Byte.frame].op
  /\ maskCtr' = 0 /\ frameCont' = FALSE
  /\ wsStatus' = ST_LEN0
  /\ HeadByte
  /\ UNCHANGED <<len8, frLen, mask>>

\* The small length, or how many bytes of length follow.
Length0 ==
  /\ HeadTurn({ST_LEN0})
  /\ LET f == frames[Byte.frame]
     IN  len8' = [len |-> IF f.ext = 2 THEN 126 ELSE IF f.ext = 8 THEN 127 ELSE f.len,
                  masked |-> f.masked]
  /\ frLen' = IF len8'.len >= 126 THEN 0 ELSE len8'.len
  /\ wsStatus' = IF len8'.len >= 126 THEN ST_LEN1 ELSE AfterLength
  /\ HeadByte
  /\ UNCHANGED <<flags, mask, maskCtr, frameCont>>

\* A byte of the extended length.
Length ==
  /\ HeadTurn(ST_LEN1 .. ST_LEN8)
  /\ frLen' = frLen * 256 + Byte.v
  /\ len8' = len8
  /\ wsStatus' = IF (len8.len = 126 /\ wsStatus = ST_LEN2) \/ wsStatus = ST_LEN8
                   THEN AfterLength ELSE wsStatus + 1
  /\ HeadByte
  /\ UNCHANGED <<flags, mask, maskCtr, frameCont>>

\* A byte of the mask.
Mask ==
  /\ HeadTurn(ST_MASK1 .. ST_MASK4)
  /\ mask' = [mask EXCEPT ![wsStatus - ST_MASK1] = Byte.v]
  /\ wsStatus' = wsStatus + 1
  /\ HeadByte
  /\ UNCHANGED <<flags, len8, frLen, maskCtr, frameCont>>

\* The payload of this frame in this segment, perhaps nothing.
Taken == IF got - looked > frLen THEN frLen ELSE got - looked
Unmasked(type) ==
  [n \in 1 .. Taken |-> LET b == Stream[looked + n]
                       IN  Piece(type, b.frame, b.v, mask[(maskCtr + n - 1) % 4])]

PayloadTurn == receiving /\ result = "MORE" /\ (due \/ (looked < got /\ wsStatus = ST_PAYLOAD))

\* On to the next frame, or to the next segment of this one.
PayloadTaken ==
  /\ looked' = looked + Taken
  /\ maskCtr' = (maskCtr + Taken) % 256
  /\ frLen' = frLen - Taken
  /\ wsStatus' = IF frLen = Taken THEN ST_FLAGS ELSE wsStatus
  /\ frameCont' = (frameCont \/ frLen # Taken)
  /\ due' = FALSE
  /\ UNCHANGED <<frames, got, receiving, flags, len8, mask, closedHere, result, closes>>

\* The end of the websocket: it is freed, the rest of the segment is lost.
GiveUp ==
  /\ result' = "DONE" /\ receiving' = FALSE /\ due' = FALSE
  /\ UNCHANGED <<frames, got, looked, frVars, wsStatus, maskCtr, frameCont, out>>

\* A ping is echoed behind one pong head.
Ping ==
  /\ PayloadTurn /\ flags = "PING" /\ frLen <= SmallLen
  /\ out' = (IF frameCont THEN out ELSE Append(out, Piece("pong", Stream[looked].frame, frLen, 0)))
              \o Unmasked("echo")
  /\ PayloadTaken

\* A ping that is too long ends the websocket.
PingTooLong ==
  /\ PayloadTurn /\ flags = "PING" /\ frLen > SmallLen
  /\ IF frameCont THEN UNCHANGED <<closes, closedHere>>
     ELSE closes' = closes + 1 /\ closedHere' = TRUE
  /\ GiveUp

\* Data are handed to the application.
Receive ==
  /\ PayloadTurn /\ flags = "DATA" /\ len8.masked
  /\ out' = out \o Unmasked("data")
  /\ PayloadTaken

\* Data without a mask end the websocket.
ReceiveUnmasked ==
  /\ PayloadTurn /\ flags = "DATA" /\ ~len8.masked
  /\ closes' = closes + 1
  /\ closedHere' = TRUE
  /\ GiveUp

\* Mutant of Close: the answer to a close frame is answered again.
CloseAnswered ==
  /\ PayloadTurn /\ flags = "CLOSE"
  /\ closes' = closes + 1
  /\ closedHere' = TRUE
  /\ GiveUp

\* The client closes, or answers that the application did.
Close ==
  /\ PayloadTurn /\ flags = "CLOSE"
  /\ closes' = IF closedHere THEN closes ELSE closes + 1
  /\ closedHere' = TRUE
  /\ GiveUp

\* Other frames are passed over.
Unknown ==
  /\ PayloadTurn /\ flags = "PONG"
  /\ out' = out
  /\ PayloadTaken

\* The segment is done.
SegmentDone ==
  /\ receiving /\ ~due /\ looked = got
  /\ receiving' = FALSE
  /\ UNCHANGED <<frames, got, looked, due, frVars, privVars, result, out, closes>>

SocketTurn ==
  \/ Flags \/ Length0 \/ Length \/ Mask
  \/ Ping \/ PingTooLong \/ Receive \/ ReceiveUnmasked \/ Close \/ Unknown

SocketNext == Segment \/ CloseHere \/ SocketTurn \/ SegmentDone

SocketSpec == SocketInit /\ [][SocketNext]_socketVars
----------------------------------------------------------------------------
(***************************************************************************)
(* What the frames mean.                                                   *)
(***************************************************************************)

\* A frame that ends the websocket.
Ends(f) ==
  \/ f.op = "CLOSE"
  \/ f.op = "DATA" /\ ~f.masked
  \/ f.op = "PING" /\ f.len > SmallLen

\* What comes of frame k, but for close frames: its payload, each byte under the byte of the
\* mask that it was sent under.
Meaning(k) ==
  LET f == frames[k]
      payload(type) == [n \in 1 .. f.len |-> Piece(type, k, n, ((n - 1) % 4) + 1)]
  IN  IF \E j \in 1 .. k : Ends(frames[j]) THEN <<>>
      ELSE IF f.op = "DATA" THEN payload("data")
      ELSE IF f.op = "PING" THEN <<Piece("pong", k, f.len, 0)>> \o payload("echo")
      ELSE <<>>

All == FlattenSeq([k \in 1 .. Len(frames) |-> Meaning(k)])

\* The application gets the payloads and the client its pongs, whole, in order and rightly
\* unmasked, however the frames are cut into segments.
SegmentsDoNotMatter ==
  /\ IsPrefix(out, All)
  /\ (~receiving /\ looked = Len(Stream)) \/ result = "DONE" => out = All

\* The client gets one close frame at most: its own is answered unless it was the answer.
\* (A client that breaks the protocol after a close of the application gets another.)
ClosedOnce ==
  /\ closes <= 1 \/ \E k \in 1 .. Len(frames) : Ends(frames[k]) /\ frames[k].op # "CLOSE"
  /\ result = "DONE" => closes > 0

\* Frames mean the same however they are cut into segments, and a websocket is closed with one
\* close frame; the open ones are on the list.
WebsocketsRight == SegmentsDoNotMatter /\ ClosedOnce /\ ListIsRight
=============================================================================
