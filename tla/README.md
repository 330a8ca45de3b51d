# Verification of the ESP8266 motor-control firmware

TLA+ models of the firmware in this repository (an ESP8266 that serves web pages
for controlling a stepper motor and talks to a motor board over a serial link),
their TLC configurations, and proofs checked by TLAPS.

All paths below are relative to the repository. The SDK (`esp_iot_sdk_v1.5.2`) is a
binary library with headers; what it does is taken from its header comments and from
how the code uses it.

## 1. The system

The firmware is event driven. There is one thread: the SDK calls callbacks
(TCP events, timers, tasks) one at a time, each runs to its end, and nothing
preempts it except interrupt handlers. Hard behaviour therefore comes from the
*order of callbacks* and from what a callback leaves in static variables and in
per-connection structures for the next one.

| Component | State it keeps | Operations | Correct when |
|---|---|---|---|
| connection pool (`libesphttpd/core/httpd.c`, `httpd-nonos.c`) | `connPool[]`, `failed_cnt` | connect, lookup, retire, refuse and restart | each live connection has its own slot, and a slot is freed when its connection ends |
| one connection (same files) | `post`, header buffer, flags, `cgi`/`cgiData`, send buffer, backlog | recv, sent, disconnect callback; CGI calls | buffers stay in bounds, CGI resources are released once, each request is answered once and in order, nothing is reordered or left unsent |
| UART reception (`user/serial.c`) | FIFO, interrupt flags and enables, task queue | interrupt handler, polling task | never masked for good, never reads an empty FIFO, reads everything |
| WiFi scan listing (`libesphttpd/util/cgiwifi.c`) | `cgiWifiAps`, a position per connection | scan start, scan done, listing call | the flag follows the SDK, a listing is one complete JSON text and ends |
| WiFi connect, mode, status, reset CGIs (`cgiwifi.c`, `user/cgi_reset.c`) | `connTryStatus`, four timers, station configuration | connect, timers, status poll, set mode, reset | an attempt ends, the access point is given up only for a network that can be joined, the reported status is that of the attempt asked about |
| WPS and AP requests (`user/wificontrol.c`, `user/datalink.c`) | `wps_in_progress`, abort timer | start or abort, WPS callback, timer | a session is ended once, and reported as ended |
| HTTP client (`esphttpclient/httpclient.c`) | request, espconn, timeout timer | DNS, connect, receive, disconnect, timeout | memory freed once and not used after, the user told exactly once |
| websocket CGI (`libesphttpd/util/cgiwebsocket.c`) | frame parser state, list of websockets | receive, send, close, broadcast | frames independent of segmentation |
| firmware upload (`libesphttpd/util/cgiflash.c`) | page buffer, address, state | body chunks | every page written once, in order |
| files and templates (`libesphttpd/core/httpdespfs.c`, `espfs/espfs.c`) | open file, decoder, token being collected | open, read, close, template call | a file is read whole however it is stored and read; output equals the reference substitution |
| captive DNS, auth, base64, arguments of forms | none | one call each | equal to what the client meant |
| SHA-1, number formatting | none | pure functions | equal to their reference |
| motor CGIs and SBMP endpoint (`user/page_home.c`, `datalink.c`, `user_main.c`) | SBMP session (library) | start, stop, handshake each second | a success answer means the message was accepted |
| reset button (`user/io.c`) | press counter, timer | poll each 500 ms | holding the button for 3 s restarts into AP+STA |
| uptime, configuration (`uptime.c`, `pers_cfg.c`) | seconds, configuration block | timer callback, load and save | a block without the magic number is replaced |

Interactions: the SDK calls the platform glue, which calls `httpd.c`; that calls CGI
functions through the route table (`user/routes.c`); these start scans, arm timers
or send SBMP messages; bytes from the motor board go from the UART interrupt
to a task and byte by byte to the SBMP endpoint, whose datagram handler calls
`wificontrol.c`; several timers end in a restart of the chip.

The `hazards` of `PROJECT.json` list where this goes wrong in ways a test
would hardly reach, each at its line, with the properties that watch it.

## 2. Modules

### HttpdPool: the connection pool

`pool` is `connPool`, `failed` is `failed_cnt`, `sdkSide` is the SDK's side of each
endpoint (no connection, callbacks registered, closing, refused). A slot is found by
remote address and port (`httpdFindConnData`), so endpoints are the identity of
clients, and connection numbers (`made`, `conn`, `born`) tell two connections of one
endpoint apart. `PoolConnectCb` and `ConnectRefused` are `platConnCb` with
`httpdConnectCb`; `Traffic` is what any received or sent event does to the pool;
`ServerClose` is the sent callback of a connection marked for closing; `PoolDisconCb` and
`ReconCb` are the two ways the SDK reports the end of a connection; `Reboot` is the restart
after too many refusals. Two environment facts are assumed: the SDK holds at most
`MaxSlots` connections (`espconn_tcp_set_max_con_allow`), and an endpoint has one
connection at a time, a reused port included.

`born` and `aborts` are history variables; no action reads them.

### HttpdConn: one connection

The receive callback handles a segment byte by byte, with one send buffer and one
final flush. The model splits it at the places where a segment may end:
`RecvHead` and `RecvByte` take the next input, `HeadComplete` and `BodyChunk` are the rest of
that iteration of the loop, `RecvEnd` is the final flush. No other callback runs while
`recv` is not `"idle"`; since the next input may come in the same callback or in the
next one, every segmentation is covered. `SentCb` and `DisconCb` are the other two
callbacks. `CallCgi`, `CgiIsDone`, `EndResponse`, `Flush` are the shared
functions; a CGI function is one of five contracts (`CgiKinds`), each naming
what it may return from which call (`CgiReturns`). A function may be done in a call that writes nothing (a file or a
page whose length is a multiple of what is read at a time), or, as a gzipped file for a client that does not take it, write without a
status line and headers (`bare`). A page may also ask to be called again after a call that wrote nothing, which no
sent callback follows; `SilentChunks` allows it, and it is allowed in `httpd`. The pages of the firmware have no such chunk, so the runs `conn_*` leave it out.

Abstractions. How a head is read is `RequestHead`'s; here it is one event, with three facts: may the connection be
kept (HTTP/1.1 without `Connection: close`), the length of the body, the CGI that
takes it. Body bytes are counted. What a CGI function writes in one call is one item of the
send buffer, and lengths of buffers and packets are counted in items; the chunk
header and CR LF are part of the item, the terminator is an item of its own (byte by byte they
are in `ChunkFraming`). The walk through the route table is reduced to the route that takes the request.

Not in this model: `recvHdl` (only the websocket CGI sets it, which is not routed),
an allocation of the 2 kB send buffer or of the post buffer (`httpd.c:670`) that fails, an upload without memory for its state (it is in `Upload`), a second connection (the pool is
`HttpdPool`), restarts. Once memory is short it stays short: an espconn that refuses
without being full, and a backlog item that cannot be allocated, are both allowed from then on.

### SendQueue: what a connection promises about sending

A queue of packets: a flush appends at most one packet (or drops it), a sent event
takes the first one, and while memory lasts nothing but the head ever leaves. `HttpdConn`
implements it with `queue <- inflight \o backlog`: the packets the SDK holds and the
backlog behind them. A direct send that overtook the backlog, or a backlog packet that
got lost, would not be a step of it.

### UartRx: reception from the motor board

The interrupt handler is one action. The task is preempted between any two of its
accesses to the UART, so it is four: take a message and read the level, read a byte,
clear the flags, unmask. The queue takes `QueueLen` messages and silently drops
others. Masking is a read-modify-write of one register in the task that a handler can
interrupt; the module header says why that is one step here. The FIFO, its threshold and
its timeout are the hardware's and external. Whether a cleared cause is raised again
while it lasts is a constant (`LevelTriggered`).

### WifiScan: listing access points

A listing takes one call of `cgiWiFiScan` for the head and one for every access point,
each in a sent callback. `Request`, `SentCb` and `DisconCb` are those calls as
HttpdConn makes them, the last one included that a closing connection gets; `ScanDone` is
`wifiScanDoneCb`. The functions they share are `Begin` (the part after line 167) and
`ListNext` (the part before). The array is its length and the number of the scan it came from, a
response is the sequence of pieces sent. `steady` is a history variable: no scan began or ended
since the listing began. The SDK may refuse a scan in any mode, and does without the station interface (`SdkScan`); nobody looks at the result, and the
flag stays set. `refused` is a history variable that says so: `ScanFlagTrue` is the relation of the flag to the SDK's scans with it,
`ScanEnds` is about scans that the SDK took on, and `BusyMeansScanning` is what a client is told all the same. The mode (`staOn`: is the station enabled) changes under a
listing: `EnableStation` is a WPS session's start, which enables the station without a restart, `ChangeMode` the web interface's choice of a mode, 100 ms before one, and `RestartChip` may have any reason. A connection over the access point that breaks is `ReconCb`.
A scan that the SDK took on ends with its callback whatever the mode becomes. Not in this module: memory that runs short in `wifiScanDoneCb`.

### WifiJoin: joining a network, and what restarts the chip

`Connect`, `ConnStatus`, `SetMode` and `ResetDevice` are the CGIs, `ReassTimerCb`, `StaResetTimerCb` and
`ResetTmrCb` the timer callbacks, `SetModeAp` the motor board's request, `Leave`
and the states of `page` what `connecting.html` does. `timer` holds the ticks left of each of the
four timers; `Tick` waits for timers that are due. Polls need no timer: a page that polls may do
so at any time, and answers that are no outcome change nothing. The station (`saved`,
`link`, `Joining`, `Booted`, `LinkUp`, `LinkDown`) is external: a network in `Good` may give an address,
no other does. `asks`, `tried`, `ask`, `about` are history variables. A restart is immediate
and forgets everything but mode and saved network. Not in this module: the reset button and WPS (module
`Wps`, where the web's restarts are an action of the environment), and users who reload the waiting page without end, which would put the restart off
each time (`cgiwifi.c:304`).

### Template, Upload, WebSocket: work on a stream, piece by piece

Three functions that get or read their input in pieces and keep their place between calls.
Each module splits a call at the turns of its loop, so that an action is one branch
of the loop's body; the reference (`Page`, `PagesOf`, `Meaning`) is defined on the
whole input and knows nothing of pieces.

*Template* is `cgiEspFsTemplate`. A file is a sequence of letters and percent signs; what replaces a token
is a number of parts, one for each call of the callback, and the output a sequence of characters and
parts. Files that cannot be opened are answered in the first call and left out.

*Upload* is `cgiUploadFirmware`. A byte is its place in the body; `Uploads` are the headers the function
tells apart, with bodies that are too long or end too soon. Bodies hold at least their header, and the
lengths in it fit the partitions: the code tests neither (see the hazards). `flash` and `erased` are the calls the function makes of the flash; each may
fail, which `flashFailed` remembers and the function ignores. So `FlashIsWritten` says what the flash was asked for, and nothing of what it holds after a
call that failed, of which an upload is reported as done all the same (divergence 7 in section 5). A first call that gets no memory for its state ends the response without an answer (`UploadNoMemory`).

*WebSocket* is `cgiWebSocketRecv`. A byte is the frame it belongs to and a value; unmasking pairs a byte with
the byte of the mask it was paired with. Data frames may lack their mask, control frames do not: the code
does not test theirs and would unmask a ping with the mask of an earlier frame. The application may close between
two segments (`CloseHere`). A call is `Segment`, the turns of the loop and `SegmentDone`; close frames are counted (`closes`), all
else that comes out is in `out`. What the application sends is not in this module. *WebsocketList* is the list
that goes through the private parts of the open websockets: `OpenWebsocket` links one behind the last, `FreeWebsocket` takes it out
wherever it is.

### ChunkFraming, StaticFile, RequestHead: more of the same kind

*ChunkFraming* is `httpdSend` and `httpdFlushSendBuffer` on the bytes of the send buffer: a
piece opens a chunk if none is open, the room is tested for the piece with the chunk header that was just
put there, the header is filled in when the buffer is flushed, and the terminator of a response that is done goes
behind it without a test of room. `accepted` is what `httpdSend` took, `wire` what was flushed;
`FramingIsRight` parses `wire`. `tight` says that a flush had to add more than there was room for, from where on
the C code writes behind the buffer: nothing is claimed about such a response.

*StaticFile* is `espFsOpen`, `espFsRead`, `espFsClose` and the CGI functions on top, over the layout of
an image. Of the heatshrink decoder it only knows that it takes symbols while it has room
and hands out the bytes they stand for. A turn of the loop of `espFsRead` is an action, so that a
file that ends in the middle of a read, of a symbol or of the sink is covered. A name is a sequence of parts; `Candidates` are the names that are tried for a path, its own without the
slashes it begins with and, unless it has a dot, those of `tryOpenIndex`, and the file opened is the first hit among them. The reference (`Right`) goes by what the path names.

*Heatshrink* is that decoder: a turn of the loop of `heatshrink_decoder_poll` is an action, a file a stream of bits.
`HeatshrinkConstants` assumes that a reference has at least as many bits as a byte. It needs to: the decoder never looks for a token in what
is left of the last byte, so with the least window and lookahead that `heatshrink_decoder_alloc` accepts (4 and 2 bits, 7 with the
tag) the last reference may be lost; TLC finds that at once with such a `Params`. The image builder (`mkespfsimage`) uses 5 and 3 or more.

*RequestHead* is the receive callback while it collects a head, `httpdParseHeader`, `httpdGetHeader` and
the route walk of `httpdProcessRequest`. A cell is a word or a separator; lines end in LF or
CR LF. The head, the strings cut into it and the pointers that stay behind when a second request reuses the buffer are
kept, since that is what the code gets wrong or right; so are the boundary of a form in parts, which the parser finds by writing into the head, and
the bytes of a body, each of which resets the host. `HeadReadRight` compares with the request as
the client made it: who answers it, with which path, arguments, length and headers. `Responsible` is written from the comments on the CGI functions, not from what the code does: a request with a body for the portal and one
of an unknown method come out otherwise, so `HeadReadRight` leaves out who answers these, `PortalRedirects` is about the first, and the second is divergence 9 in section 5. Negative lengths and a failing `malloc` of the post buffer are not modelled. Heads of more than `MaxHead` cells run over what
lies behind the buffer (`"overrun"`, an outcome of its own, where the model stops).

### QueryArgs, BasicAuth, CaptDns: functions without a state

*QueryArgs* is `httpdFindArg` with `httpdUrlDecode` and `httpdHexVal`; an input is the line a browser
makes of names and values, every way a value may be escaped. *BasicAuth* is `authBasic` over both directions of
base64, on names and passwords with bytes above 127. *CaptDns* is `captdnsRecv` with the names that
`labelToStr` follows through compression pointers; a reply is a sequence of bytes in which
`Unset` marks what nobody wrote. Each has a reference that is defined on what the client meant, and never
on the bytes, and that follows the comments: a value is terminated, every query is replied to. Where the code does otherwise, a value that does not fit with
its zero and a query with an additional record, `TextsDecoded` leaves the outcome open as far as that goes (divergences 10 and 11).

`MCStreams` puts the eleven side by side, some as modules it extends and some as instances; one serves, the others are at rest.

### Wps: WPS, the access point, and the button

`StartWps`, `AbortByRequest` and `SetModeAp` are what `dg_handler` may do, `WpsCb` and `AbortWpsCb` the callback
and the timer of a session, `Poll` the button's timer, `Finger` whoever presses it. Time goes in steps of 500 ms. `sdkWps`
is the SDK's session, `age` a history variable. A session that was asked for need not begin, since nobody looks at what `wifi_wps_enable` and `wifi_wps_start` return:
then the flag is set with no session behind it until the timer, a request or a restart ends it. `WebRestart` is the web interface's share, which ends a session with the chip's.
The second that `wificontrol_start_wps` spins for (`wificontrol.c:70`) passes without a callback. The
button may be down at a restart, in which case it is never polled (`ioInit`).

### HttpClient: one request

`HttpRequest`, `Resolved` (the DNS callback), `ConnectCallback`, `SentCallback`, `ReceiveCallback`, `DisconnectCallback` (also of
errors) and `TimeoutCallback`. `heap` says of every block of a request whether its pointer is NULL, live or dangling; `sdk` is the
SDK's side. An access to freed memory, or a write through a null pointer, sets `fault` and ends the behaviour: what follows is
undefined. Such accesses exist: after a timeout the SDK's callbacks find a freed espconn (`httpclient.c:391`), a
response without an empty line makes `disconnect_callback` write at address 2. The
properties say that there are no others. `Decoded` and `ChunkedDecode` decode the response, a sequence of tokens.

`MCBoard` puts `UartRx`, `Wps`, `HttpClient` and `WifiScan` side by side, as `MCStreams` does, and `MCHttpd` the pool and one connection, with everything that may
go wrong with either allowed.

## 3. What the runs check

| Run | Module | Shows |
|---|---|---|
| `httpd` | MCHttpd | slots are accounted for under any order of closes, aborts and reconnections from the same port (`SlotAccounting`); no service from another connection's slot unless that endpoint had an abort (`ServedFromOwnSlot`); an overflow, hence the restart, needs an abort (`OverflowNeedsAbort`). Of one connection, with pipelining, refusals, memory shortage and closes at any time: post buffer bounds, release of CGI resources, backlog accounting, order of responses, the refinement of SendQueue |
| `pool_leak` | HttpdPool | violation of `NoStaleSlot`: the empty reconnect callback leaks the slot |
| `conn_pages` | MCHttpdConn | with a client that waits for each response: each body byte handed over once, each request answered once, and answered at last while memory lasts |
| `conn_close` | MCHttpdConn | violation of `MarkedGetsClosed`: marked for closing when nothing is left to be sent, by a file or a page whose last call writes nothing |
| `conn_backlog` | MCHttpdConn | violation of `BacklogSentLater`: nothing retries a packet refused while nothing is in flight |
| `board` | MCBoard | the UART is never masked without somebody to unmask it, never read empty, emptied again and again; a WPS session has its whole time and ends; a button held long enough brings the access point back; an HTTP request ends, tells its user once, frees what it held and hands over the body that was meant; through every change of mode, the scan flag follows the SDK but for a scan that was refused; a listing that no scan disturbs is complete, however many others list; every listing and every scan the SDK took on ends |
| `wifi_json` | WifiScan | violation of `EveryAnswerIsJson`: a scan started by another client breaks a listing in its middle |
| `wifi_busy` | WifiScan | violation of `BusyMeansScanning`: after a refused scan clients are told to wait for one that is not made |
| `wifi_join` | WifiJoin | an attempt has its timer and no other's, joins what was asked for, ends, and with an address leads to station mode; the access point is never given up for a network that cannot be joined |
| `wifi_outcome` | WifiJoin | violation of `OutcomeIsOwn`: a page is told the outcome of the attempt before its own |
| `streams` | MCStreams | pages, uploads, websocket frames, chunks, files, compressed bits and heads of requests equal their references wherever the pieces are cut (`PageIsRight`, `FlashIsWritten`, `WebsocketsRight`, `FramingIsRight`, `FileReadWhole`, `DecoderIsRight`, `HeadReadRight`); the open websockets, and no others, are on their list (`WebsocketsRight`); arguments and passwords are decoded as they were entered, and DNS questions answered under their own names (`TextsDecoded`); an upload whose body arrived, and for which there was memory, is answered (`BodyIsAnswered`) |
| `portal_lost` | MCStreams | violation of `PortalRedirects`: a body makes the server forget the host |

Every property of a passing run has a mutant of a mapped definition, kept next to
the definition it mutates, that TLC finds to violate it. Type invariants are not properties of the runs of HttpdPool, HttpdConn, WifiScan,
Wps and HttpClient: they are part of the inductive invariants that are proved.

### Bounds

* `httpd`, the pool (300 395 of its 663 644 states): 2 slots and 3 endpoints, so that the pool can be full with
  clients left; 8 connections leave room for two aborts, reconnections to a stale
  slot, three refusals (`MaxFailed = 3`, 5 in the code) and the restart.
* `httpd`, the connection, and `conn_*`: a post buffer of 2 with bodies of 0, 2 and 3 bytes (none, exactly a
  buffer, one more than a buffer); a send buffer of 2 items (room for data and terminator,
  overflow on a third); a backlog of 3 items (its limit is hit by the second packet of two);
  an SDK queue of 1, the depth at which refusals come soonest (also run with 2); 3 requests (2 in the runs `conn_*`), so that
  a leftover of the first can meet the second and a third can follow; 3 calls of a CGI function, the
  least with a first, a middle and a last one. 363 249 states with faults (in `httpd`), 8 894 with a client that waits.
* `board` (161 575 states): a FIFO of 4 with a threshold of 3, 9 bytes, so that it overflows and the task runs
  several times; a queue of 3, which the leftover messages fill. A WPS session of 4 steps and a button held for 2, so that either may
  end first; 4 requests: start, abort, start again while the old timer is armed, and one that disturbs. Bodies of 0 to 2
  parts of one or two bytes, delivered in every segmentation, plain and chunked, in a buffer of 14, which a chunked response
  of two parts overruns and the others do not; the client may be closed or time out anywhere in it.
* `board`, the listings: 2 connections, so that one disturbs the other; 0 to 3 access points (none, first, middle and last);
  3 scans with a result since the last restart, so that the list grows and shrinks under a listing, and any number that fail or are refused; any number of mode changes and restarts. 17 934 of the states of `board`.
* `wifi_join`: 2 browsers and 2 requests, so that an attempt of one meets a request of the other or of its own; 2 clicks,
  so that a mode and a restart, or two modes, overlap; delays of 1, 2, 3 and 6 ticks keep the order of 100, 500,
  1000 and 15000 ms, which is all the code's logic depends on.
* `streams`: files of up to 6 characters in chunks of 3 with tokens of at most 2 characters, so that a token lies across a chunk,
  overflows its buffer, is left open, and a paused one ends a chunk; pages of 2 in sectors of 4, images of up to 6
  bytes in post buffers of 3, so that the cuts coincide and do not, and an image needs a second sector; two frames with
  up to 2 bytes of payload, the longest short length being 1, with all three forms of the length, cut into segments in every way. A send
  buffer of 16 and pieces of up to 4 in 3 calls, so that a chunk fits, fits without its terminator, and does not. Files of up to 3 symbols of 0 to 2 bytes,
  sinks of 2 and reads of 3, so that a symbol lies across two reads; one or two files in an image, with names in and out of a directory, and paths that name a file, a directory with and without its slash, nothing, or begin with slashes. Bytes of 3 bits in the decoder, so that
  an index and a count of 4 bits have a high and a low part, as those above 8 have; windows of 2 to 16, which references fill and wrap; 3 tokens; an input buffer of 2 and output buffers of 1 and 3. Three websockets, so that one has
  neighbours on both sides. Heads of up to 16 cells with 2 header lines, two of them on a
  connection, the second shorter or longer than the first, and lengths of 0, 1 and 2, so that a body is absent, arrives at once, and takes two steps. 2 arguments of 2 bytes, one name the beginning of the other, in buffers that fit and that do not;
  names and passwords of up to 2 bytes, which gives every remainder modulo 3; 2 questions of 1 or 2 labels, sharing all, an end or nothing. 655 136 states in all.

`PageRequests` leaves out one combination: a body longer than the post buffer for a CGI
that answers in its first call. No page of the firmware sends one. With it
`ResponsesInOrder` fails, since the rest of the body is parsed as another head.

### Fairness

`HttpdConn`: a callback that has begun ends (weak fairness of the rest of the loop), the SDK
sends what it accepted and reports it (`SentCb`), a client sends the body it has
announced. Nothing makes a client begin a request or close. `UartRx`: an enabled pending
interrupt is served, the scheduler runs a task that has a message, the UART's
timeout expires when bytes are waiting. Bytes need not arrive. `WifiScan`: the SDK reports what it sent
and ends its scans. `WifiJoin`: time goes on and timers that are due are served; networks need not come up. `Upload`: the
turns of a call go on, and it returns; the client need not send the rest of its body.

`FifoDrained` also assumes `LevelTriggered = TRUE`. With `FALSE` TLC refutes it: a timeout
raised between the task's last read and its clearing of the flags is wiped, and
the bytes wait for the next one that arrives.

`Wps`: time goes on, timers that are due are served; the SDK need never report on a session, which is what the abort timer is for. `HttpClient`: the
SDK answers a question for an address, and a timer that is armed is due in the end. The server need not answer, nor close.

## 4. What is proved

For all values of the constants allowed by each module's `ASSUME`:

* **HttpdPoolProofs**: `PoolTypes`, `PoolAccounting`, `PoolKnowsConnections`,
  `PoolServesOwnSlot`, `PoolOverflow`. None is inductive alone, their conjunction is: the accounting
  says that an endpoint with a live connection owns a slot (so a disconnect frees one) and, if it
  never had an abort, at most one (so its slot is the one allocated for this connection); a full
  pool without aborts would need as many live connections as slots, which the SDK's limit excludes
  (`FullPoolNeedsAbort`, by an injection of slots into connections).
* **HttpdConnProofs**: `ConnTypes`, `ConnHeaderPhase`, `ConnReleases`, `ConnPostBuffer`,
  `ConnBacklogMoves` and the refinement `ConnSendsInOrder`. The properties are strengthened by `Control`, what
  the callbacks know of each other: a CGI function that runs was called before, a body is only
  received into a buffer of at least a byte, in which states the receive loop can be at which place,
  and that the SDK holds at most `SdkDepth` packets. A step that calls a CGI function is summarised
  by `CgiStep`, and what it does to the packets by `SendStep`, so that each callback is argued about once.
  The refinement needs the invariant: with memory to spare a backlog implies a full SDK queue
  (`BacklogHasASentCb`), so a packet that is sent directly cannot overtake it.
* **HttpdConnProofs, order and answers**: `ConnBacklogAccounted`, `ConnResponsesInOrder`, `ConnOneAnswer`, `ConnBodyEatenOnce`.
  `Written` is everything that was written and not dropped: what the SDK took, the backlog behind it, the send buffer
  behind that. A flush moves items along it but changes nothing (`DeliveredBehind`), so only a CGI function adds to it,
  and `CallWrites` says what one call adds: its data, and the terminator if it is done. `OrderInv` bounds what is in
  `Written` by the request and the call that are served; `BodyInv` relates the post state to the body that is still to come, so
  that no request begins in the middle of one. `WaitInv` adds, for a client that waits for its responses, that the SDK
  holds nothing while a body is awaited, which is why no sent callback finds a waiting upload.
  Hypotheses: `ConnResponsesInOrder` has `LargeBodiesStream` (only an upload gets a body longer than the post
  buffer), the other two also `Pipelined = {}`; `ConnBacklogAccounted` has none. Both are needed: TLC refutes the properties without them
  (the hazards at `httpd.c:757` and `httpd.c:514`; `BodyEatenOnce` with a body of 4 bytes, so that a part of it waits in the buffer when
  the sent callback comes), and both are what the firmware's own pages and today's browsers do.
* **BoardProofs**, UART: `UartInvariant`, `UartWakesUp`, `UartReads`. The key lemma is that a post leaves at least
  one message in the queue, also in a full one (`PostedBounds`): a lost message is always one of several.
* **WifiScanProofs**: `ScanTypes`, `ScanFlag`, `ScanListsAll`. They hold through WPS, mode changes and restarts at any time; of a refused scan `ScanFlag` says that the flag is set and no scan is made. A complete listing is the last of many calls, so the
  proof says what an undisturbed listing has sent at each position (`Listing`); every call is summarised by
  what it leaves alone (`CallStep`) and what it makes of its own connection (`OwnStep`).
* **WifiJoinProofs**: `JoinTypes`, `JoinTimer`, `JoinNetwork`, and the action property `JoinKeepsAp`. The last one needs
  that an address always belongs to the saved network (`LinkGood`), which holds because the station leaves
  its network before it is given another.

* **BoardProofs**, WPS and the button: `WpsInvariant`, `WpsSessionTime` and the action property `WpsAbortsOwnSession`. That a session keeps its whole time over the
  timer of an aborted one needs `abortTimer + age = WpsDelay` while the flag is set only, since the timer of an aborted session goes on.
* **BoardProofs**, HTTP client: `ClientInvariant`, `ClientTellsOnce`, `ClientMemory`. The invariant says who owns the memory in which state of the SDK:
  nobody before the request, the request while it resolves, the espconn while there is a connection, and after a timeout only the SDK, with
  everything it points to freed. `DnsKeepsInv` is cited by both actions that learn an address.
* **BoardProofs**, what the client is told: `ClientToldWhatWasMeant`. A response is decoded from each of its tokens on (`PartsDecoded`, by downward
  induction over the tokens), so the decoder in front of the end of a chunk and behind it are related without saying what it yields for a whole
  response. The invariant (`MeantInv`) says that the buffer holds the tokens delivered so far.

* **StreamProofs**, uploads: `UploadAsksForImage`, `UploadTypes`. What is proved is what the flash was asked for, whatever it returned; that it did it is not implied. The invariant has a part for each state of the function. While it
  writes (`WhileWrite`), the pages written are full ones of the image, the page buffer continues them, and with what is
  left to be written they are the image; `ErasedSoFar` says that the sectors erased are the first ones of the image, as many as the pages written have
  begun. The rest is arithmetic of pages and sectors (`PageInSector`, `NextPage`). An image without a byte writes at most a page without a byte.
* **StreamProofs**, chunks: `ChunkFrames`, `ChunkTypes`. What a client reads from a place of the response on is defined from the end downwards, and so
  is the induction. The invariant (`ChunkInv`) says that what was flushed and what waits in the buffer is a row of whole chunks (`Reading`), but for the one that
  is open, whose data are what was accepted since. As in the property, a flush that found no room (`tight`) ends what is claimed.
* **StreamProofs**, websockets: `WebsocketsAreRight`, `WebsocketsListed`. A place of the stream belongs to a byte of a frame (`StreamIs`), and a place of what is meant
  to a frame (`AllIs`), by how much lies in front of each (`InFront`, `MeantInFront`). The invariant (`SocketInv`) says in which frame the function is and, in its
  head (`InHead`) or its payload (`InPayload`), what it knows of the frame there, and that the pieces that came out are the first ones of what is meant. Nothing is meant behind a
  frame that ends the websocket (`NothingMeantBehind`), so all came out when one is met. For the list, each link of an open websocket points to the one opened next (`ListInv`);
  there are no more open ones than sockets (`AliveFew`, by the pigeonhole principle), so a walk along the links sees them all (`SeenIsWalk`).
* **FileProofs**, pages: `TemplatePage`, `TemplateTypes`. What was sent, with the text that waits, is what the characters looked at
  contribute (`Flat`), and of a token at whose end the function paused as many parts as the callback was
  called for (`OutputInv`). Whether a token is open is the parity of the percent signs so far, and what was collected of it follows the last one (`TokenInv`);
  `ResumeInv` says that a chunk is only resumed at the sign that ends a token.
* **FileProofs**, static files: `FilesAreWhole`, `FileTypes`. The layout and the walk of `espFsOpen` over it are recursive functions; that there are such functions is
  shown by giving them (`PlacesExist`, `WalkExists`). Addresses grow from file to file (`PlacesGrow`) and behind a file is the next one or the end mark
  (`HeadersInOrder`), so the walk finds the first file of a name (`WalkFinds`, backwards from the end mark). The invariant (`FileInv`) says that the bytes sent
  are the first `posDecomp` of the content and, of a compressed file, that the decoder holds the last symbols taken from flash, in a row, and `posDecomp` is what the symbols before them
  stand for and the bytes of the first of them that were handed out (`Decoder`): whatever a turn takes and hands out (`TurnIs`) moves along the content. A
  plain file has as many bytes as symbols (`PlainContent`). The only assumption is `StaticFileConstants`.
* **FlattenTheorems**: what `FlattenSeq` yields for one sequence more (`FlattenAppend`), for the first one (`FlattenHead`) and for a
  prefix, where each sequence lies in the whole (`FlattenMember`) and what some of them in a row are of it (`FlattenPart`); FileProofs, the websockets, `ConnBacklogAccounted` and
  `ConnResponsesInOrder` rest on them. `FlattenSeq` is a recursive function, so they
  are inductions. The library's induction theorems cannot be instantiated here; in their place stands the least element of a
  set of counterexamples, which exists because `<` is well-founded on the naturals (`LeastElement`, `UpTo`).

Only model-checked:

* liveness (`EveryRequestAnswered`, `FifoDrained`, `ListingEnds`, `ScanEnds`, `AttemptEnds`, `SuccessGoesStation`, `SessionEnds`, `ButtonRestoresAp`,
  `RequestEnds`, `BodyIsAnswered`), which is out of the prover's reach;
* `DecoderIsRight`, `HeadReadRight` and `TextsDecoded`. Their modules state
  what was meant with recursive functions over data and have a decoder or a parser of their own, over bits, heads of requests and texts: the
  invariant would have to say what each of those yields for a beginning of the input, as the proofs about chunks and websocket frames do for theirs.

## 5. Where code and comments disagree

1. `httpd.c:785` wants `httpdDisconCb` called however a connection ends; the platform layer does
   not call it for one that breaks (`httpd-nonos.c:17`). Run `pool_leak`.
2. `httpd.c:478` marks a connection "to get it killed after all data is sent"; marked after
   the last sent callback, it is not. Run `conn_close`.
3. `httpd.c:436` keeps a refused packet because "we can send it later"; without a packet in flight
   there is no later. Run `conn_backlog`.
4. `cgiwifi.c:132` promises JSON to the page's script; a listing that another client's scan interrupts has a
   second head in its middle. Run `wifi_json`.
5. `connecting.html:15` has a text for an attempt that is being prepared; after a first attempt the status is
   never idle again, and the next one is told the old outcome for half a second. Run `wifi_outcome`.
6. `cgiwifi.c:172` tells a client "We're still scanning"; after a scan that the SDK refused, nobody is, until the
   restart. Run `wifi_busy`.
7. `libesphttpd/README.md:96-97` says that an upload is flashed; it is reported as done whatever the flash returned (`cgiflash.c:253` and `257`). No run.
8. `httpd.c:320-321` and `359-361` redirect whoever names another host; a request with a body has no host by then (`httpd.c:749`). Run `portal_lost`.
9. `httpd.c:535` says "Shouldn't happen" of what every HEAD request does. No run.
10. `httpd.c:177-178` and `204-205` promise a terminator that a value which fills the buffer does not get (`httpd.c:199`). No run.
11. `captdns.c:11-15` wants any and all queries answered; those with an additional record are dropped (`captdns.c:191`). No run.

Of those without a run (7, 9, 10, 11) the models have what the code does, and the properties of `streams` leave the outcome open just there. Smaller ones: `cgiwifi.c:301` says "AP-only mode" for station-only mode; `CONNTRY_SUCCESS` is never set;
`wificontrol.c:84` says 15 seconds for 60 (the model takes the code's 60000 ms). In station mode an attempt is never reported as failed
(`cgiwifi.c:218`), and a successful poll restarts a chip that is in station mode already. An upload for whose state there is no memory is not answered (`cgiflash.c:142-145`),
which no comment excludes; `BodyIsAnswered` is about the others.

## 6. Not modelled, and what is left

Not modelled, with the reason:

* *The SBMP endpoint* is the library of a git submodule that is empty in this tree. Modelled from its use is only that datagrams come
  (`Wps`); the motor CGIs send one message each, look at no result and answer a constant, so nothing in `src/` tells a
  delivered message from a lost one.
* *SHA-1, number formatting, MIME types, status pages*: arithmetic and text without control of their own.
* The head of websocket frames that the server sends is formatting.
  `cgiReadFlash`, `cgiGetFirmwareNext` and the reboot CGI keep a position or nothing.
* *Uptime and persistent configuration*: a counter of seconds, and a block of which only the magic number is read.
* *`wifistatus_cb`* sends what the SDK says, and its registration (`wificontrol_init`) is commented out in `user_main.c`.
* *UART transmission*: a busy wait on a register.
* *Results that are assumed*: `malloc` of the post buffer (`httpd.c:670`) and of the URL in a redirect succeed; `wifi_set_opmode` and `wifi_wps_disable`, whose
  results are ignored too, do what they are asked for; the SDK ends a scan it took on.
* *Outcomes that end what is claimed*: a head that runs over its buffer (`"overrun"`), a chunk whose end finds no room (`tight`), a response of a server that was cut
  (`fault`), a body above the post buffer for a function that ends early. They are reachable in the models, and no property is about what follows them. `httpdSend` drops what goes beyond
  2048 bytes in one call (`httpd.c:390,396`): `HttpdConn` and `ChunkFraming` have that, the output of `Template` has no such bound.
* *The FreeRTOS glue* is not compiled; *the SDK* (headers, examples, binary libraries), *heatshrink's encoder*, the web front end and
  the image tools are vendored or generated. Of the 26 000 lines of C in the tree they are more than 20 000; the
  modules above cover most of what is the firmware's own.

What a continuation would take up: a body the CGI does not consume and pipelining behind an upload as properties of HttpdConn;
a proof for Heatshrink, which would show that it is the decoder StaticFile assumes; an abstract specification of a listing that
WifiScan implements, and that HttpdConn's calls are the ones WifiScan assumes.
