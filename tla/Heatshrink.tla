------------------------------- MODULE Heatshrink -------------------------------
(***************************************************************************)
(* The decoder of compressed files (lib/heatshrink/heatshrink_decoder.c,   *)
(* which espFsRead of libesphttpd/espfs/espfs.c feeds and polls). A file   *)
(* is a stream of bits: a literal is a 1 and a byte, a reference is a 0,   *)
(* how far to go back, and how many bytes to copy. Bytes come in and go    *)
(* out in pieces of any size, and the decoder may have to stop between any *)
(* two of its states.                                                      *)
(*                                                                         *)
(* A turn of the loop of heatshrink_decoder_poll is an action. Nothing in  *)
(* the code depends on a byte having eight bits but the constants that say *)
(* so; here it has ByteLen.                                                *)
(***************************************************************************)
EXTENDS Integers, SequencesExt

CONSTANTS
  ByteLen,     \* bits of a byte: 8
  InputSize,   \* input_buffer_size: 16
  Params,      \* <<window_sz2, lookahead_sz2>> of files
  Literals,    \* bytes of literals
  MaxTokens,   \* bound of the model: literals and references of a file
  Rooms        \* bound of the model: sizes of output buffers

\* What is assumed of the constants: a reference has as many bits as a byte, or more. The least sizes
\* that heatshrink_decoder_alloc takes have one bit less; those of the image builder have more.
HeatshrinkConstants ==
  /\ ByteLen \in Nat \ {0} /\ InputSize \in Nat \ {0} /\ MaxTokens \in Nat
  /\ \A p \in Params : p[2] <= p[1] /\ 1 + p[1] + p[2] >= ByteLen
  /\ Rooms \subseteq Nat \ {0}

VARIABLES
  params,       \* window_sz2 and lookahead_sz2 of the file
  tokens,       \* the file
  fed,          \* bytes of it that were sunk
  state,        \* "empty", "input", "literal", "index high", "index low", "count high",
                \* "count low", "backref", "check"
  buffer,       \* the input buffer as far as input_size
  inputIndex,   \* input_index
  bits,         \* the bits of current_byte from bit_index on
  outputIndex, outputCount,
  window,       \* the bytes behind the input buffer
  headIndex,    \* head_index, of which only the place in the window matters
  room,         \* of a poll: room that is left in its output buffer; -1 without a poll
  polled,       \* what the last poll returned: "more" or "empty", or "none"
  out           \* the bytes that were handed out

inputVars == <<buffer, inputIndex, bits>>
copyVars == <<outputIndex, outputCount>>
windowVars == <<window, headIndex, out>>
vars == <<params, tokens, fed, state, inputVars, copyVars, windowVars, room, polled>>

WindowBits == params[1]
CountBits == params[2]
WindowLen == 2 ^ WindowBits
----------------------------------------------------------------------------
(***************************************************************************)
(* Files.                                                                  *)
(***************************************************************************)

Literal(b) == [byte |-> b, offset |-> 0, count |-> 0]
Reference(o, n) == [byte |-> 0, offset |-> o, count |-> n]
IsLiteral(t) == t.offset = 0

\* Literals, and references to the last byte, the last two, and as far back as they go, for one byte
\* or as many as can be.
Tokens(p) ==
  {Literal(b) : b \in Literals}
    \cup {Reference(o, n) : o \in {1, 2, 2 ^ p[1]}, n \in {1, 2 ^ p[2]}}

\* What a token adds to the text before it; the bytes of a reference may be its own.
Expanded(text, t) ==
  LET copy(copied, k) == Append(copied, copied[Len(copied) + 1 - t.offset])
  IN  IF IsLiteral(t) THEN Append(text, t.byte) ELSE FoldLeft(copy, text, [k \in 1 .. t.count |-> k])
Meaning(ts) == FoldLeft(Expanded, <<>>, ts)

\* The builder refers to nothing before the beginning.
Files(p) ==
  {ts \in BoundedSeq(Tokens(p), MaxTokens) :
     \A n \in 1 .. Len(ts) : ts[n].offset <= Len(Meaning(SubSeq(ts, 1, n - 1)))}

\* The n low bits of a number, the highest first, and back.
ToBits(v, n) == [k \in 1 .. n |-> (v \div 2 ^ (n - k)) % 2]
Value(s) == FoldLeft(LAMBDA v, b : 2 * v + b, 0, s)

TokenBits(t) ==
  IF IsLiteral(t) THEN <<1>> \o ToBits(t.byte, ByteLen)
  ELSE <<0>> \o ToBits(t.offset - 1, WindowBits) \o ToBits(t.count - 1, CountBits)

\* The bytes of the file; the last is filled up with zeros.
Input ==
  LET stream == FlattenSeq([n \in 1 .. Len(tokens) |-> TokenBits(tokens[n])])
      len == (Len(stream) + ByteLen - 1) \div ByteLen
      bit(k) == IF k <= Len(stream) THEN stream[k] ELSE 0
  IN  [n \in 1 .. len |-> [k \in 1 .. ByteLen |-> bit((n - 1) * ByteLen + k)]]

\* heatshrink_decoder_reset.
Start ==
  /\ fed = 0
  /\ state = "empty" /\ buffer = <<>> /\ inputIndex = 0 /\ bits = <<>>
  /\ outputIndex = 0 /\ outputCount = 0
  /\ window = [k \in 0 .. WindowLen - 1 |-> 0] /\ headIndex = 0
  /\ room = -1 /\ polled = "none"
  /\ out = <<>>

Init == params \in Params /\ tokens \in Files(params) /\ Start

TypeOK ==
  /\ fed \in 0 .. Len(Input)
  /\ Len(buffer) <= InputSize /\ inputIndex \in 0 .. Len(buffer)
  /\ Len(bits) < ByteLen
  /\ outputIndex \in 0 .. WindowLen /\ outputCount \in 0 .. 2 ^ CountBits
  /\ headIndex \in DOMAIN window
----------------------------------------------------------------------------
(***************************************************************************)
(* Feeding.                                                                *)
(***************************************************************************)

\* Mutant of Sink: the index is reset also in the middle of the input.
SinkResets(n) ==
  /\ room = -1
  /\ LET size == IF n < InputSize - Len(buffer) THEN n ELSE InputSize - Len(buffer)
     IN  /\ buffer' = buffer \o SubSeq(Input, fed + 1, fed + size)
         /\ fed' = fed + size
  /\ inputIndex' = 0
  /\ state' = IF state = "empty" THEN "input" ELSE state
  /\ UNCHANGED <<params, tokens, bits, copyVars, windowVars, room, polled>>

\* heatshrink_decoder_sink of n bytes takes as many as fit behind those that came before.
Sink(n) ==
  /\ room = -1
  /\ LET size == IF n < InputSize - Len(buffer) THEN n ELSE InputSize - Len(buffer)
     IN  /\ size > 0
         /\ buffer' = buffer \o SubSeq(Input, fed + 1, fed + size)
         /\ fed' = fed + size
  /\ IF state = "empty" THEN state' = "input" /\ inputIndex' = 0 ELSE UNCHANGED <<state, inputIndex>>
  /\ polled' = "none"
  /\ UNCHANGED <<params, tokens, bits, copyVars, windowVars, room>>
----------------------------------------------------------------------------
(***************************************************************************)
(* Polling.                                                                *)
(***************************************************************************)

\* heatshrink_decoder_poll begins, with an output buffer of n bytes.
Poll(n) ==
  /\ room = -1
  /\ room' = n
  /\ UNCHANGED <<params, tokens, fed, state, inputVars, copyVars, windowVars, polled>>

\* Mutant of HasBits: the comparison is off by one.
HasBitsMore(n) == Len(buffer) > 0 \/ Len(bits) > n

\* get_bits: whether there are n bits, n being those of a byte at most.
HasBits(n) == Len(buffer) > 0 \/ Len(bits) >= n

\* The next n bits, and what is left then.
Got(n) ==
  IF Len(bits) >= n
  THEN [value |-> Value(SubSeq(bits, 1, n)), bits |-> SubSeq(bits, n + 1, Len(bits)),
        buffer |-> buffer, inputIndex |-> inputIndex]
  ELSE LET all == bits \o buffer[inputIndex + 1]
           exhausted == inputIndex + 1 = Len(buffer)
       IN  [value |-> Value(SubSeq(all, 1, n)), bits |-> SubSeq(all, n + 1, Len(all)),
            buffer |-> IF exhausted THEN <<>> ELSE buffer,
            inputIndex |-> IF exhausted THEN 0 ELSE inputIndex + 1]

\* The decoder behind them.
Take(n) == bits' = Got(n).bits /\ buffer' = Got(n).buffer /\ inputIndex' = Got(n).inputIndex

\* A turn that goes nowhere ends the poll; every other goes on.
Return(left) == room' = -1 /\ polled' = IF left = 0 THEN "more" ELSE "empty"
GoOn(s) == state' = s /\ polled' = polled
File == <<params, tokens, fed>>

\* Nothing to decode, or not enough of it.
OutOfInput ==
  LET needs ==
        CASE state = "literal" -> ByteLen
          [] state = "index high" -> WindowBits - ByteLen
          [] state = "index low" -> IF WindowBits < ByteLen THEN WindowBits ELSE ByteLen
          [] state = "count high" -> CountBits - ByteLen
          [] state = "count low" -> IF CountBits < ByteLen THEN CountBits ELSE ByteLen
  IN  /\ room >= 0
      /\ \/ state = "empty" /\ polled' = "empty" /\ room' = -1
         \/ /\ state \in {"index high", "index low", "count high", "count low"}
            /\ ~HasBits(needs)
            /\ Return(room)
         \/ state = "literal" /\ (room = 0 \/ ~HasBits(needs)) /\ Return(room)
      /\ UNCHANGED <<File, state, inputVars, copyVars, windowVars>>

\* st_input_available, the bit that tells a literal from a reference; in this state there always is
\* one.
InputAvailable ==
  /\ room >= 0 /\ state = "input"
  /\ HasBits(1) /\ Take(1)
  /\ GoOn(IF Got(1).value = 1 THEN "literal"
          ELSE IF WindowBits > ByteLen THEN "index high" ELSE "index low")
  /\ outputIndex' = IF Got(1).value = 0 /\ WindowBits <= ByteLen THEN 0 ELSE outputIndex
  /\ UNCHANGED <<File, outputCount, windowVars, room>>

\* st_yield_literal.
YieldLiteral ==
  /\ state = "literal" /\ room > 0 /\ HasBits(ByteLen)
  /\ Take(ByteLen)
  /\ LET byte == Got(ByteLen).value
     IN  /\ out' = Append(out, byte)
         /\ window' = [window EXCEPT ![headIndex] = byte]
  /\ headIndex' = (headIndex + 1) % WindowLen
  /\ room' = room - 1
  /\ GoOn("check")
  /\ UNCHANGED <<File, copyVars>>

\* st_backref_index_msb.
IndexHigh ==
  /\ room >= 0 /\ state = "index high" /\ HasBits(WindowBits - ByteLen)
  /\ Take(WindowBits - ByteLen)
  /\ outputIndex' = Got(WindowBits - ByteLen).value * 2 ^ ByteLen
  /\ GoOn("index low")
  /\ UNCHANGED <<File, outputCount, windowVars, room>>

\* st_backref_index_lsb.
IndexLow ==
  LET n == IF WindowBits < ByteLen THEN WindowBits ELSE ByteLen
  IN  /\ room >= 0 /\ state = "index low" /\ HasBits(n)
      /\ Take(n)
      /\ outputIndex' = outputIndex + Got(n).value + 1
      /\ outputCount' = 0
      /\ GoOn(IF CountBits > ByteLen THEN "count high" ELSE "count low")
      /\ UNCHANGED <<File, windowVars, room>>

\* st_backref_count_msb.
CountHigh ==
  /\ room >= 0 /\ state = "count high" /\ HasBits(CountBits - ByteLen)
  /\ Take(CountBits - ByteLen)
  /\ outputCount' = Got(CountBits - ByteLen).value * 2 ^ ByteLen
  /\ GoOn("count low")
  /\ UNCHANGED <<File, outputIndex, windowVars, room>>

\* st_backref_count_lsb.
CountLow ==
  LET n == IF CountBits < ByteLen THEN CountBits ELSE ByteLen
  IN  /\ room >= 0 /\ state = "count low" /\ HasBits(n)
      /\ Take(n)
      /\ outputCount' = outputCount + Got(n).value + 1
      /\ GoOn("backref")
      /\ UNCHANGED <<File, outputIndex, windowVars, room>>

\* n bytes of the window are copied, one after the other: the window and the bytes.
Copied(n) ==
  LET copy(st, k) ==
        LET head == headIndex + k - 1
            byte == st.window[(head - outputIndex) % WindowLen]
        IN  [window |-> [st.window EXCEPT ![head % WindowLen] = byte], bytes |-> Append(st.bytes, byte)]
  IN  FoldLeft(copy, [window |-> window, bytes |-> <<>>], [k \in 1 .. n |-> k])

\* The bytes of a reference that a turn copies.
CopyNow == IF outputCount < room THEN outputCount ELSE room

\* st_yield_backref: as much as there is room for; the rest is for another poll.
YieldBackref ==
  /\ room >= 0 /\ state = "backref"
  /\ window' = Copied(CopyNow).window
  /\ out' = out \o Copied(CopyNow).bytes
  /\ headIndex' = (headIndex + CopyNow) % WindowLen
  /\ outputCount' = outputCount - CopyNow
  /\ IF outputCount' = 0 THEN GoOn("check") /\ room' = room - CopyNow
     ELSE Return(room - CopyNow) /\ state' = state
  /\ UNCHANGED <<File, inputVars, outputIndex>>

\* st_check_for_input: bits that are left of a byte are no input of their own.
CheckForInput ==
  /\ room >= 0 /\ state = "check"
  /\ GoOn(IF Len(buffer) = 0 THEN "empty" ELSE "input")
  /\ UNCHANGED <<File, inputVars, copyVars, windowVars, room>>

Turn ==
  \/ OutOfInput \/ InputAvailable \/ YieldLiteral
  \/ IndexHigh \/ IndexLow \/ CountHigh \/ CountLow
  \/ YieldBackref \/ CheckForInput

Next ==
  \/ \E n \in 1 .. Len(Input) - fed : Sink(n)
  \/ \E n \in Rooms : Poll(n)
  \/ Turn

Spec == Init /\ [][Next]_vars
----------------------------------------------------------------------------
\* heatshrink_decoder_finish returns HSDR_FINISH_DONE.
FinishDone ==
  \/ state = "empty"
  \/ state \in {"literal", "index high", "index low", "count high", "count low"} /\ buffer = <<>>

\* What is handed out is the beginning of the file's text, however its bytes come in and go out.
\* Who has sunk all and polls until nothing comes has all of it, and only then heatshrink_decoder_finish
\* says that it is done.
DecoderIsRight ==
  /\ IsPrefix(out, Meaning(tokens))
  /\ fed = Len(Input) /\ room = -1 =>
       /\ FinishDone => out = Meaning(tokens)
       /\ polled = "empty" => FinishDone
=============================================================================
