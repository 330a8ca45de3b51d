----------------------------- MODULE ChunkFraming -----------------------------
(***************************************************************************)
(* The send buffer of a chunked response (httpdSend, httpdFlushSendBuffer  *)
(* and httpdCgiIsDone of libesphttpd/core/httpd.c). In a call a CGI        *)
(* function adds pieces to the buffer; the first piece of the body opens a *)
(* chunk, whose header is filled in when the buffer is flushed. Both the   *)
(* end of the chunk and the terminator go into the same buffer.            *)
(*                                                                         *)
(* A cell is a byte of the buffer. The four digits of a length are kept in *)
(* the first cell of a chunk header. What the SDK does with the buffers is *)
(* HttpdConn's; here all of them arrive, in order.                         *)
(***************************************************************************)
EXTENDS Integers, SequencesExt

CONSTANTS
  BuffLen,     \* MAX_SENDBUFF_LEN
  HeadLen,     \* bound of the model: bytes of the response's head
  MaxPiece,    \* bound of the model: bytes of a piece
  MaxCalls     \* bound of the model: calls of the CGI function

\* What is assumed of the constants.
ASSUME ChunkAssumption ==
  /\ BuffLen \in Nat /\ HeadLen \in Nat /\ MaxPiece \in Nat \ {0} /\ MaxCalls \in Nat
  /\ HeadLen <= BuffLen

VARIABLES
  cgi,         \* "none" before the first call, "running", "waiting", "done"
  sendingBody, \* HFL_SENDINGBODY
  sendBuff,    \* priv->sendBuff as far as it is filled
  chunkHdr,    \* priv->chunkHdr: cells in front of the open chunk, -1 without one
  accepted,    \* history: the body as httpdSend accepted it
  wire,        \* what was flushed
  calls,       \* calls of the CGI function so far
  tight        \* history: a flush found no room for what it had to add

chunkVars == <<cgi, sendingBody, sendBuff, chunkHdr, accepted, wire, calls, tight>>

HeaderCells == 6
CrLf == <<"nl", "nl">>
Terminator == <<"0", "nl", "nl", "nl", "nl">>

Cell(n) == [type |-> "data", n |-> n]
Mark(c) == [type |-> c, n |-> 0]
Marks(s) == [k \in 1 .. Len(s) |-> Mark(s[k])]
Header(n) == <<[type |-> "size", n |-> n]>> \o Marks(<<"digit", "digit", "digit", "nl", "nl">>)

ChunkTypeOK ==
  /\ cgi \in {"none", "running", "waiting", "done"}
  /\ sendingBody \in BOOLEAN /\ tight \in BOOLEAN
  /\ Len(sendBuff) <= BuffLen
  /\ chunkHdr \in -1 .. Len(sendBuff)
  /\ calls \in 0 .. MaxCalls

ChunkInit ==
  /\ cgi = "none" /\ sendingBody = FALSE
  /\ sendBuff = <<>> /\ chunkHdr = -1
  /\ accepted = <<>> /\ wire = <<>>
  /\ calls = 0 /\ tight = FALSE
----------------------------------------------------------------------------
\* A callback of the SDK allocates the buffer and calls the CGI function; the first call sends the
\* head of the response.
ChunkCall ==
  /\ cgi \in {"none", "waiting"} /\ calls < MaxCalls
  /\ calls' = calls + 1
  /\ cgi' = "running"
  /\ sendBuff' = IF cgi = "none" THEN [k \in 1 .. HeadLen |-> Mark("head")] ELSE <<>>
  /\ sendingBody' = TRUE
  /\ UNCHANGED <<chunkHdr, accepted, wire, tight>>

\* The next bytes of the body; every byte is different.
BodyBytes(n) == [k \in 1 .. n |-> Cell(Len(accepted) + k)]

\* Mutant of Opens: only as much room is asked for as the piece needs.
OpensTight(n) == chunkHdr = -1 /\ Len(sendBuff) + n <= BuffLen

\* There is no chunk yet, and room for one with this piece.
Opens(n) == chunkHdr = -1 /\ Len(sendBuff) + n + HeaderCells <= BuffLen

\* httpdSend: without a chunk one is opened, or the piece refused; then the piece is accepted, when
\* there is room for it.
Send(n) ==
  /\ cgi = "running"
  /\ Opens(n) \/ chunkHdr # -1
  /\ LET opened == IF chunkHdr = -1 THEN sendBuff \o Header(0) ELSE sendBuff
     IN  /\ chunkHdr' = IF chunkHdr = -1 THEN Len(sendBuff) ELSE chunkHdr
         /\ IF Len(opened) + n <= BuffLen
            THEN sendBuff' = opened \o BodyBytes(n) /\ accepted' = accepted \o BodyBytes(n)
            ELSE sendBuff' = opened /\ accepted' = accepted
  /\ UNCHANGED <<cgi, sendingBody, wire, calls, tight>>

\* Mutant of Finished: the line end is taken for data.
FinishedLong(b) ==
  LET full == IF Len(b) + 2 <= BuffLen THEN b \o Marks(CrLf) ELSE b
      len == Len(full) - chunkHdr - 6
  IN  SubSeq(full, 1, chunkHdr) \o Header(len) \o SubSeq(full, chunkHdr + HeaderCells + 1, Len(full))

\* The end of a chunk: a line end, which httpdSend refuses when the buffer is full, and the length,
\* from which eight bytes are taken off in either case.
Finished(b) ==
  LET full == IF Len(b) + 2 <= BuffLen THEN b \o Marks(CrLf) ELSE b
      len == Len(full) - chunkHdr - 8
  IN  SubSeq(full, 1, chunkHdr) \o Header(len) \o SubSeq(full, chunkHdr + HeaderCells + 1, Len(full))

\* httpdFlushSendBuffer, when the function has more to send or when it is done; for the terminator
\* nobody looks whether there is room.
Flush(done) ==
  LET chunk == IF chunkHdr = -1 THEN sendBuff ELSE Finished(sendBuff)
      all == IF done THEN chunk \o Marks(Terminator) ELSE chunk
  IN  /\ wire' = wire \o all
      /\ tight' = (tight \/ Len(all) > BuffLen \/ (chunkHdr # -1 /\ Len(sendBuff) + 2 > BuffLen))
      /\ chunkHdr' = -1
      /\ sendBuff' = <<>>

\* The function returns HTTPD_CGI_MORE.
ReturnMore ==
  /\ cgi = "running"
  /\ cgi' = "waiting"
  /\ Flush(FALSE)
  /\ UNCHANGED <<sendingBody, accepted, calls>>

\* Mutant of ReturnDone: the function is still set when the buffer is flushed.
ReturnDoneLate ==
  /\ cgi = "running"
  /\ cgi' = "done"
  /\ Flush(FALSE)
  /\ sendingBody' = FALSE
  /\ UNCHANGED <<accepted, calls>>

\* It returns HTTPD_CGI_DONE: httpdCgiIsDone flushes and clears the flags; the flush of the caller
\* has nothing left to do.
ReturnDone ==
  /\ cgi = "running"
  /\ cgi' = "done"
  /\ Flush(TRUE)
  /\ sendingBody' = FALSE
  /\ UNCHANGED <<accepted, calls>>

ChunkNext ==
  \/ ChunkCall
  \/ \E n \in 1 .. MaxPiece : Send(n)
  \/ ReturnMore
  \/ ReturnDone

ChunkSpec == ChunkInit /\ [][ChunkNext]_chunkVars
----------------------------------------------------------------------------
(***************************************************************************)
(* What a client makes of it: chunks, each of its length and a line end,   *)
(* and the terminator.                                                     *)
(***************************************************************************)

Broken == <<Mark("broken")>>

\* What is read from each place of what came on: the body, and at the end of the response a mark.
Parsing(w) ==
  LET parse[p \in 1 .. Len(w) + 1] ==
        IF p > Len(w) THEN <<>>
        ELSE IF w[p].type = "0" THEN IF p + 4 = Len(w) THEN <<Mark("end")>> ELSE Broken
        ELSE IF w[p].type # "size" THEN Broken
        ELSE LET n == w[p].n
                 behind == p + HeaderCells + n
             IN  IF n < 1 \/ behind + 1 > Len(w)
                    \/ SubSeq(w, behind, behind + 1) # Marks(CrLf) THEN Broken
                 ELSE SubSeq(w, p + HeaderCells, behind - 1) \o parse[behind + 2]
  IN  parse

\* What a client reads behind the head.
Parsed == Parsing(wire)[HeadLen + 1]

\* As long as every flush finds room, what a client decodes is what httpdSend accepted, whatever
\* the pieces and the calls, and the end of the response is marked, once.
FramingIsRight ==
  ~tight /\ wire # <<>> /\ cgi # "running" =>
    Parsed = IF cgi = "done" THEN Append(accepted, Mark("end")) ELSE accepted
=============================================================================
