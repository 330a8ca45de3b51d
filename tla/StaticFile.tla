------------------------------ MODULE StaticFile ------------------------------
(***************************************************************************)
(* Files of the image in flash (espFsOpen, espFsRead and espFsClose of     *)
(* libesphttpd/espfs/espfs.c) and the CGI function that sends them         *)
(* (serveStaticFile and tryOpenIndex of libesphttpd/core/httpdespfs.c).    *)
(*                                                                         *)
(* The image is a sequence of files behind each other, aligned to words,   *)
(* as its builder lays them out, and an end mark. Of the heatshrink        *)
(* decoder only the interface is modelled: it takes symbols as long as it  *)
(* has room, each stands for some bytes of the file, and a poll hands out  *)
(* as many bytes as there are and fit. Plain files have one byte for every *)
(* symbol. What a call sends fits into the send buffer. A name is a        *)
(* sequence of slashes, dots and words.                                    *)
(***************************************************************************)
EXTENDS Integers, SequencesExt

CONSTANTS
  FileNames,   \* names of files
  Paths,       \* paths that are asked for
  Align,       \* alignment of a file: 4
  FileHeader,  \* bytes of a file's header with its name
  SinkSize,    \* 16: symbols that are read, and room for symbols in the decoder
  ReadSize,    \* 1024, bytes a call reads
  MaxSymbols,  \* bound of the model: symbols of a file
  MaxExpand    \* bound of the model: bytes a symbol stands for

\* What is assumed of the constants.
ASSUME StaticFileConstants ==
  /\ <<>> \notin Paths
  /\ Align \in Nat \ {0} /\ FileHeader \in Nat \ {0}
  /\ SinkSize \in Nat \ {0} /\ ReadSize \in Nat \ {0}
  /\ MaxSymbols \in Nat /\ MaxExpand \in Nat

VARIABLES
  image,      \* the files: [name, compressed, symbols], a symbol being the bytes it stands for
  wanted,     \* the URL's path
  serving,    \* the file that was opened, or 0
  fileCall,   \* "none", "waiting" for the next call, "reading", "done", "notfound", "refused",
              \* "aborted"
  posComp,    \* fh->posComp - fh->posStart: symbols taken from flash
  pending,    \* symbols in the decoder
  begun,      \* bytes of the first of them that were handed out
  posDecomp,  \* fh->posDecomp
  decoded,    \* bytes this call has read so far
  opened,     \* file structs allocated less those freed
  body        \* the bytes that were sent

positions == <<posComp, pending, begun, posDecomp, decoded>>
fileVars == <<image, wanted, serving, fileCall, positions, opened, body>>

NameOf(n) == image[n].name
File == image[serving]

\* An image with a file of any kind, and perhaps a plain one before or behind it.
Files == [name : FileNames, compressed : BOOLEAN, symbols : BoundedSeq(0 .. MaxExpand, MaxSymbols)]
PlainFiles == {f \in Files : ~f.compressed /\ \A k \in 1 .. Len(f.symbols) : f.symbols[k] = 1}
Images ==
  LET plain == PlainFiles
      files == plain \cup {f \in Files : f.compressed}
      pairs == {h \in files \X plain : h[2].name # h[1].name}
  IN  {<<f>> : f \in files} \cup pairs \cup {<<h[2], h[1]>> : h \in pairs}

\* Byte k of a symbol of a file, told from every other byte of the file.
ByteOf(symbol, k) == <<symbol, k>>
Content(f) ==
  FlattenSeq([s \in 1 .. Len(f.symbols) |-> [k \in 1 .. f.symbols[s] |-> ByteOf(s, k)]])

FileTypeOK ==
  /\ serving \in 0 .. Len(image)
  /\ fileCall \in {"none", "waiting", "reading", "done", "notfound", "refused", "aborted"}
  /\ posComp \in Nat /\ pending \in Seq(Nat) /\ begun \in Nat
  /\ posDecomp \in Nat /\ decoded \in 0 .. ReadSize
  /\ opened \in {0, 1}

FileStart ==
  /\ serving = 0 /\ fileCall = "none"
  /\ posComp = 0 /\ pending = <<>> /\ begun = 0 /\ posDecomp = 0 /\ decoded = 0
  /\ opened = 0
  /\ body = <<>>

FileInit == image \in Images /\ wanted \in Paths /\ FileStart
----------------------------------------------------------------------------
(***************************************************************************)
(* Opening.                                                                *)
(***************************************************************************)

Aligned(p) == p + ((Align - (p % Align)) % Align)

\* Where the builder of the image puts file n.
Place ==
  LET place[n \in 1 .. Len(image) + 1] ==
        IF n = 1 THEN 0
        ELSE Aligned(place[n - 1] + FileHeader + Len(image[n - 1].symbols))
  IN  place

\* Mutant of Behind: without the alignment.
BehindUnaligned(p, n) == p + FileHeader + Len(image[n].symbols)

\* The next header behind that of file n at address p.
Behind(p, n) ==
  LET end == p + FileHeader + Len(image[n].symbols)
  IN  IF end % Align # 0 THEN end + (Align - (end % Align)) ELSE end

\* espFsOpen: headers are compared from the first to the end mark, or to something that is not a
\* header.
Found(name) ==
  LET at(p) == {n \in 1 .. Len(image) : Place[n] = p}
      walk[p \in 0 .. Place[Len(image) + 1] + Align] ==
        IF at(p) = {} THEN 0
        ELSE LET n == CHOOSE m \in at(p) : TRUE
             IN  IF NameOf(n) = name THEN n ELSE walk[Behind(p, n)]
  IN  walk[0]

Slash == "/"

\* espFsOpen strips the slashes that a name begins with.
Stripped(name) ==
  LET kept == {n \in DOMAIN name : name[n] # Slash}
  IN  IF kept = {} THEN <<>> ELSE SubSeq(name, Min(kept), Len(name))

\* The names tryOpenIndex tries in a directory.
IndexNames == <<<<"index", ".", "html">>, <<"index", ".", "htm">>, <<"index", ".", "tpl">>>>

\* The names that are looked up for a path, one after the other: its own, and the indexes of what may
\* be a directory, which a path with a dot is not.
Candidates(path) ==
  LET directory == IF Last(path) = Slash THEN path ELSE Append(path, Slash)
      indexes == [k \in DOMAIN IndexNames |-> Stripped(directory \o IndexNames[k])]
  IN  <<Stripped(path)>> \o (IF \E n \in DOMAIN path : path[n] = "." THEN <<>> ELSE indexes)

\* The file that serveStaticFile opens, with tryOpenIndex.
Opened ==
  LET names == Candidates(wanted)
      hits == {k \in DOMAIN names : Found(names[k]) # 0}
  IN  IF hits = {} THEN 0 ELSE Found(names[Min(hits)])

\* The first call opens the file and sends the headers; a file that is gzipped is refused to a client
\* that does not accept it, and closed.
OpenFile ==
  /\ fileCall = "none"
  /\ serving' = Opened
  /\ \/ Opened = 0 /\ fileCall' = "notfound" /\ opened' = 0
     \/ Opened # 0 /\ fileCall' = "refused" /\ opened' = 0
     \/ Opened # 0 /\ fileCall' = "waiting" /\ opened' = 1
  /\ UNCHANGED <<image, wanted, positions, body>>
----------------------------------------------------------------------------
(***************************************************************************)
(* Reading.                                                                *)
(***************************************************************************)

AtMost(n, m) == IF n < m THEN n ELSE m
Unread == Len(File.symbols) - posComp

\* The call sends what it read; fewer bytes than it asked for are the last.
Finish(n) ==
  IF n = ReadSize THEN fileCall' = "waiting" /\ opened' = opened
  ELSE fileCall' = "done" /\ opened' = 0

\* espFsRead of a plain file.
ReadPlain ==
  /\ fileCall = "waiting" /\ ~File.compressed
  /\ LET n == AtMost(ReadSize, Unread)
     IN  /\ body' = body \o SubSeq(Content(File), posComp + 1, posComp + n)
         /\ posComp' = posComp + n /\ posDecomp' = posDecomp + n
         /\ Finish(n)
  /\ UNCHANGED <<image, wanted, serving, pending, begun, decoded>>

\* espFsRead of a compressed file: nothing more to read, or the loop begins.
ReadCompressed ==
  /\ fileCall = "waiting" /\ File.compressed
  /\ decoded' = 0
  /\ \/ /\ posDecomp = Len(Content(File))
        /\ Finish(0)
     \/ /\ posDecomp # Len(Content(File))
        /\ fileCall' = "reading" /\ opened' = opened
  /\ UNCHANGED <<image, wanted, serving, posComp, pending, begun, posDecomp, body>>

\* heatshrink_decoder_sink takes what it has room for.
Sunk == AtMost(AtMost(Unread, SinkSize), SinkSize - Len(pending))

\* Mutant of Fed: what the decoder kept is lost.
FedAnew == [k \in 1 .. Sunk |-> posComp + k]

\* The symbols that are in the decoder then.
Fed == pending \o [k \in 1 .. Sunk |-> posComp + k]

\* The bytes that can be handed out, and how many symbols are used up with the first n of them.
Output(symbols) ==
  FlattenSeq([s \in 1 .. Len(symbols) |->
                [k \in 1 .. File.symbols[symbols[s]] |-> ByteOf(symbols[s], k)]])
Before(symbols, s) == Len(Output(SubSeq(symbols, 1, s)))
Used(symbols, n) == Max({s \in 0 .. Len(symbols) : Before(symbols, s) <= n})

\* A turn of the loop: sink, poll; without symbols left in flash what was read so far is returned.
ReadTurn ==
  /\ fileCall = "reading"
  /\ LET ready == SubSeq(Output(Fed), begun + 1, Len(Output(Fed)))
         n == AtMost(Len(ready), ReadSize - decoded)
         used == Used(Fed, begun + n)
     IN  /\ posComp' = posComp + Sunk
         /\ pending' = SubSeq(Fed, used + 1, Len(Fed))
         /\ begun' = begun + n - Before(Fed, used)
         /\ posDecomp' = posDecomp + n /\ decoded' = decoded + n
         /\ body' = body \o SubSeq(ready, 1, n)
         /\ IF Unread = 0 \/ decoded + n = ReadSize THEN Finish(decoded + n)
            ELSE UNCHANGED <<fileCall, opened>>
  /\ UNCHANGED <<image, wanted, serving>>

\* The connection closes between two calls: the file is closed.
CloseFile ==
  /\ fileCall = "waiting"
  /\ fileCall' = "aborted" /\ opened' = 0
  /\ UNCHANGED <<image, wanted, serving, positions, body>>

FileNext == OpenFile \/ ReadPlain \/ ReadCompressed \/ ReadTurn \/ CloseFile

FileSpec == FileInit /\ [][FileNext]_fileVars
----------------------------------------------------------------------------
\* The files of a name, wherever in the image, and those that may be served for the path: of the first
\* name for which there is a file.
Named(name) == {n \in 1 .. Len(image) : NameOf(n) = name}
Right ==
  LET names == Candidates(wanted)
      hits == {k \in DOMAIN names : Named(names[k]) # {}}
  IN  IF hits = {} THEN {} ELSE Named(names[Min(hits)])

\* The path that is asked for is looked up in all of the image, and what is sent is the content of
\* that file, or the index in its place, from the first byte to the last, however reads, symbols and
\* the decoder's room fall; an answer cut short by its client is a beginning of it. The file struct
\* is freed with the last call.
FileReadWhole ==
  /\ fileCall # "none" => IF Right = {} THEN fileCall = "notfound" ELSE serving \in Right
  /\ serving # 0 => IsPrefix(body, Content(File))
  /\ fileCall = "done" => body = Content(File)
  /\ (opened = 1) = (fileCall \in {"waiting", "reading"})
=============================================================================
