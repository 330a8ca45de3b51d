-------------------------------- MODULE Upload --------------------------------
(***************************************************************************)
(* Uploading an image to flash (cgiUploadFirmware of                       *)
(* libesphttpd/util/cgiflash.c). The body comes in post buffers; the       *)
(* function writes it page by page and keeps the rest of a page, and what  *)
(* is left to write and to skip, for the next call. An OTA body holds two  *)
(* images behind a header, of which one is written.                        *)
(*                                                                         *)
(* A byte is its place in the body, from 1. A call is Deliver, one step    *)
(* for each turn of the loop, and Return. The flash may refuse to erase a  *)
(* sector or to write a page, or not be done in time: the function does    *)
(* not look at what these calls return. "flash" and "erased" are therefore *)
(* the calls it makes, and flashFailed says whether one of them failed.    *)
(***************************************************************************)
EXTENDS Integers, Sequences

CONSTANTS
  PageLen,     \* PAGELEN
  SectorLen,   \* SPI_FLASH_SEC_SIZE
  PostBuf,     \* bytes of the body handed over in a call, unless it is the last
  HeaderLen,   \* sizeof(OtaHeader)
  FwSize,      \* def->fwSize
  Fw1Pos,      \* def->fw1Pos
  Fw2Pos       \* def->fw2Pos

ASSUME UploadAssumption ==
  /\ PageLen \in Nat \ {0} /\ PostBuf \in Nat \ {0}
  /\ SectorLen \in Nat \ {0} /\ SectorLen % PageLen = 0
  /\ HeaderLen \in 1 .. PostBuf
  /\ FwSize \in Nat
  /\ Fw1Pos \in Nat /\ Fw1Pos % SectorLen = 0
  /\ Fw2Pos \in Nat /\ Fw2Pos % SectorLen = 0

VARIABLES
  upload,      \* what is uploaded, and onto what
  received,    \* post->received
  data,        \* bytes of the body the function has looked at
  running,     \* the function is in its loop
  state,       \* state->state: "START", "WRITE", "SKIP", "DONE", "ERROR"
  len,         \* state->len
  skip,        \* state->skip
  address,     \* state->address
  page,        \* state->pageData up to pagePos
  flash,       \* the pages given to spi_flash_write, in order
  erased,      \* the sectors given to spi_flash_erase_sector, in order
  flashFailed, \* history: one of these calls did not return SPI_FLASH_RESULT_OK
  answer       \* "none", "ok", "premature" or "error"; "aborted": nobody is left to be answered;
               \* "starved": the function is done, and has said nothing to a client that waits

stateVars == <<state, len, skip, address, page>>
flashVars == <<flash, erased, flashFailed>>
uploadVars == <<upload, received, data, running, stateVars, flashVars, answer>>

\* Headers: what the body begins with, whether an OTA tag is accepted (it is this device's or
\* the client insists), the lengths of the two images, the image that is to be written, and the
\* length of the body, which may end too soon but not within the header. Lengths in a header
\* are those of images that fit; the code does not test them.
Uploads ==
  {u \in [kind : {"ota", "bin", "espfs", "other"}, type : {"FW", "ESPFS"}, tagOk : BOOLEAN,
          len1 : 0 .. FwSize, len2 : 0 .. FwSize, user1 : BOOLEAN, total : 1 .. HeaderLen + 2 * FwSize + 1] :
     /\ u.kind = "ota" => u.total >= HeaderLen /\ u.total <= HeaderLen + u.len1 + u.len2 + 1
     /\ u.kind # "ota" => u.tagOk /\ u.user1 /\ u.len1 = 0 /\ u.len2 = 0}

UploadTypeOK ==
  /\ received \in 0 .. upload.total
  /\ data \in 0 .. received
  /\ running \in BOOLEAN
  /\ state \in {"START", "WRITE", "SKIP", "DONE", "ERROR"}
  /\ len \in 0 .. upload.total + FwSize /\ skip \in 0 .. FwSize
  /\ address \in Nat
  /\ Len(page) < PageLen
  /\ flashFailed \in BOOLEAN
  /\ answer \in {"none", "ok", "premature", "error", "aborted", "starved"}

UploadStart ==
  /\ received = 0 /\ data = 0 /\ running = FALSE
  /\ state = "START" /\ len = 0 /\ skip = 0 /\ address = 0 /\ page = <<>>
  /\ flash = <<>> /\ erased = <<>> /\ flashFailed = FALSE
  /\ answer = "none"

UploadInit == upload \in Uploads /\ UploadStart
----------------------------------------------------------------------------
Less(a, b) == IF a < b THEN a ELSE b

\* The bytes a + 1 to a + n of the body.
Bytes(a, n) == [i \in 1 .. n |-> a + i]

\* dataLen
Left == received - data

\* The web server hands over a full post buffer, or the end of the body.
HandOver ==
  /\ ~running /\ answer = "none" /\ received < upload.total
  /\ received' = received + Less(PostBuf, upload.total - received)

\* The function begins to look at it.
Deliver ==
  /\ HandOver
  /\ running' = TRUE
  /\ UNCHANGED <<upload, data, stateVars, flashVars, answer>>

\* There is no memory for the state, at the first call: it returns that it is done, and the client,
\* who is still connected, gets no answer.
UploadNoMemory ==
  /\ HandOver /\ received = 0
  /\ answer' = "starved"
  /\ UNCHANGED <<upload, data, running, stateVars, flashVars>>

Loop(s) == running /\ Left # 0 /\ state = s

\* Not an image of the type wanted, one for another device, or too large.
Refused ==
  \/ upload.kind = "ota" /\ upload.type = "FW"
     /\ (~upload.tagOk \/ upload.total > FwSize * 2 + HeaderLen)
  \/ upload.kind = "bin" /\ upload.type = "FW" /\ upload.total > FwSize
  \/ upload.kind = "espfs" /\ upload.type = "ESPFS" /\ upload.total > FwSize
  \/ <<upload.kind, upload.type>> \notin {<<"ota", "FW">>, <<"bin", "FW">>, <<"espfs", "ESPFS">>}

Refuse ==
  /\ Loop("START") /\ Refused
  /\ state' = "ERROR"
  /\ UNCHANGED <<upload, received, data, running, len, skip, address, page, flashVars, answer>>

\* Two images: the header is passed over.
StartOta ==
  /\ Loop("START") /\ ~Refused /\ upload.kind = "ota"
  /\ data' = data + HeaderLen
  /\ \/ /\ upload.user1
        /\ len' = upload.len1 /\ skip' = upload.len2
        /\ state' = "WRITE" /\ address' = Fw1Pos
     \/ /\ ~upload.user1
        /\ len' = upload.len2 /\ skip' = upload.len1
        /\ state' = "SKIP" /\ address' = Fw2Pos
  /\ UNCHANGED <<upload, received, running, page, flashVars, answer>>

\* One image, the whole body.
StartImage ==
  /\ Loop("START") /\ ~Refused /\ upload.kind # "ota"
  /\ len' = upload.total
  /\ state' = "WRITE" /\ address' = Fw1Pos
  /\ UNCHANGED <<upload, received, data, running, skip, page, flashVars, answer>>

\* Bytes of the other image.
Skip ==
  /\ Loop("SKIP")
  /\ \/ /\ skip > Left
        /\ skip' = skip - Left
        /\ data' = received
        /\ UNCHANGED state
     \/ /\ skip <= Left
        /\ data' = data + skip
        /\ skip' = 0
        /\ state' = IF len # 0 THEN "WRITE" ELSE "DONE"
  /\ UNCHANGED <<upload, received, running, len, address, page, flashVars, answer>>

\* Bytes that are wanted to fill the page.
Wanted == Less(PageLen - Len(page), len)

\* Mutant of PartOfPage: the bytes are not taken off what is left to write.
PartOfPageUncounted ==
  /\ Loop("WRITE") /\ Left < Wanted
  /\ page' = page \o Bytes(data, Left)
  /\ data' = received
  /\ UNCHANGED <<upload, received, running, state, len, skip, address, flashVars, answer>>

\* The page is not complete yet.
PartOfPage ==
  /\ Loop("WRITE") /\ Left < Wanted
  /\ page' = page \o Bytes(data, Left)
  /\ len' = len - Left
  /\ data' = received
  /\ UNCHANGED <<upload, received, running, state, skip, address, flashVars, answer>>

\* Mutant of Erases: only when a new upload begins.
ErasesOnce == erased = <<>>

\* A sector is erased before its first page.
Erases == address % SectorLen = 0

\* Behind the image there may be the other one.
AfterImage == IF skip # 0 THEN "SKIP" ELSE "DONE"

\* The page is complete, or the image is: it is written. Whether the flash did what it was asked
\* for, and whether it was a sector or the page that it failed, makes no difference to the function.
WritePage ==
  /\ Loop("WRITE") /\ Left >= Wanted
  /\ flash' = Append(flash, [address |-> address, bytes |-> page \o Bytes(data, Wanted)])
  /\ erased' = IF Erases THEN Append(erased, address \div SectorLen) ELSE erased
  /\ \E fails \in BOOLEAN : flashFailed' = (flashFailed \/ fails)
  /\ data' = data + Wanted
  /\ len' = len - Wanted
  /\ address' = address + PageLen
  /\ page' = <<>>
  /\ state' = IF len = Wanted THEN AfterImage ELSE "WRITE"
  /\ UNCHANGED <<upload, received, running, skip, answer>>

\* Mutant of Ignore: the bytes are not consumed.
IgnoreKeepsBytes ==
  /\ Loop("DONE") \/ Loop("ERROR")
  /\ UNCHANGED <<upload, received, data, running, stateVars, flashVars, answer>>

\* What follows the image, or an error, is ignored.
Ignore ==
  /\ Loop("DONE") \/ Loop("ERROR")
  /\ data' = received
  /\ UNCHANGED <<upload, received, running, stateVars, flashVars, answer>>

\* All bytes are looked at: more are to come, or the answer is due.
Return ==
  /\ running /\ Left = 0
  /\ running' = FALSE
  /\ answer' = IF received < upload.total THEN "none"
               ELSE IF state = "ERROR" THEN "error"
               ELSE IF state = "DONE" THEN "ok" ELSE "premature"
  /\ UNCHANGED <<upload, received, data, stateVars, flashVars>>

\* The connection closes between two calls: the state is freed, what was written stays.
UploadAbort ==
  /\ ~running /\ answer = "none"
  /\ answer' = "aborted"
  /\ UNCHANGED <<upload, received, data, running, stateVars, flashVars>>

Turn == Refuse \/ StartOta \/ StartImage \/ Skip \/ PartOfPage \/ WritePage \/ Ignore

UploadNext == Deliver \/ Turn \/ Return \/ UploadAbort \/ UploadNoMemory

UploadSpec == UploadInit /\ [][UploadNext]_uploadVars

\* A call goes on, and ends.
UploadFairSpec == UploadSpec /\ WF_uploadVars(Turn) /\ WF_uploadVars(Return)
----------------------------------------------------------------------------
(***************************************************************************)
(* What an upload is.                                                      *)
(***************************************************************************)

\* Where the image begins in the body, and how long it is.
ImageStart ==
  IF upload.kind # "ota" THEN 0
  ELSE IF upload.user1 THEN HeaderLen ELSE HeaderLen + upload.len1
ImageLen ==
  IF upload.kind # "ota" THEN upload.total
  ELSE IF upload.user1 THEN upload.len1 ELSE upload.len2
ImagePos == IF upload.user1 THEN Fw1Pos ELSE Fw2Pos

\* The pages of an image: full ones, and a last one.
PagesOf(first, n, at) ==
  [k \in 1 .. (n + PageLen - 1) \div PageLen |->
     [address |-> at + (k - 1) * PageLen,
      bytes |-> Bytes(first + (k - 1) * PageLen, Less(PageLen, n - (k - 1) * PageLen))]]

\* Of an upload that is reported as done the flash was given the image, whole, at its place,
\* each byte once and in order, wherever the post buffers and the pages are cut. Of an image
\* without a byte there is at most a page without one.
OkMeansWritten ==
  answer = "ok" =>
    \/ flash = PagesOf(ImageStart, ImageLen, ImagePos)
    \/ ImageLen = 0 /\ \A k \in 1 .. Len(flash) : flash[k].bytes = <<>>

\* A page is only given to a sector for which this upload has asked that it be erased, and no
\* sector is to be erased once a page of it was written.
ErasedBeforeWritten ==
  LET sector(p) == p.address \div SectorLen
  IN  /\ \A k \in 1 .. Len(flash) : \E s \in 1 .. Len(erased) : erased[s] = sector(flash[k])
      /\ \A s, t \in 1 .. Len(erased) : erased[s] = erased[t] => s = t

\* What an upload reports is what the flash was asked for (spi_flash_erase_sector and
\* spi_flash_write, as cgiUploadFirmware calls them): it is in flash if no call failed. If one did,
\* the upload is reported as done all the same, and nothing is said of what the flash holds.
FlashIsWritten == OkMeansWritten /\ ErasedBeforeWritten

\* An upload whose body has arrived, and for which there was memory, is answered: the function
\* comes to the end of every post buffer, whatever state it is in (cgiUploadFirmware's loop).
BodyIsAnswered == running /\ received = upload.total ~> answer \in {"ok", "premature", "error"}
=============================================================================
