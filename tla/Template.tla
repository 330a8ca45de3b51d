------------------------------- MODULE Template -------------------------------
(***************************************************************************)
(* Pages with tokens to be replaced (cgiEspFsTemplate of                   *)
(* libesphttpd/core/httpdespfs.c). The function reads the file in chunks,  *)
(* one for each call, and keeps what it needs between calls: a token may   *)
(* lie across chunks, and what replaces a token may take several calls,    *)
(* with the rest of the chunk still to come.                               *)
(*                                                                         *)
(* A call is Call, one step for every character, and Pause or EndOfChunk;  *)
(* the connection may close between two calls. The output is a sequence of *)
(* pieces: characters, and parts that the template callback sends for a    *)
(* token.                                                                  *)
(***************************************************************************)
EXTENDS Integers, SequencesExt

CONSTANTS
  Letters,      \* characters other than the percent sign
  MaxLen,       \* bound of the model: length of a file
  Chunk,        \* TEMPLATE_CHUNK
  MaxToken,     \* characters of a token that are kept, sizeof(token) - 1
  MaxParts      \* bound of the model: calls for one token

ASSUME TemplateAssumption ==
  /\ "%" \notin Letters
  /\ MaxLen \in Nat /\ Chunk \in Nat \ {0} /\ MaxToken \in Nat \ {0} /\ MaxParts \in Nat \ {0}

VARIABLES
  file,        \* the content of the file
  pos,         \* the characters read
  call,        \* "none", "waiting" for the next call, "running", "done", "aborted"
  buff,        \* tpd->buff: the chunk
  x,           \* the next character of the chunk
  e,           \* the first character of the text not sent yet
  sp,          \* and how many there are
  inToken,     \* tokenPos # -1
  token,       \* the token as far as it was collected
  resume,      \* chunk_resume
  part,        \* tplArg: how often the callback was called for this token
  output       \* what was sent

readVars == <<file, pos, buff>>
vars == <<readVars, call, x, e, sp, inToken, token, resume, part, output>>

Chars == Letters \cup {"%"}
Plain(c) == [token |-> <<c>>, part |-> 0]
Part(name, p) == [token |-> name, part |-> p]

TypeOK ==
  /\ file \in Seq(Chars)
  /\ pos \in 0 .. Len(file)
  /\ call \in {"none", "waiting", "running", "done", "aborted"}
  /\ buff \in Seq(Chars) /\ Len(buff) <= Chunk
  /\ x \in 1 .. Len(buff) + 1
  /\ e \in 1 .. Len(buff) + 1 /\ sp \in 0 .. Len(buff)
  /\ inToken \in BOOLEAN
  /\ token \in Seq(Letters) /\ Len(token) <= MaxToken
  /\ resume \in BOOLEAN
  /\ part \in 0 .. MaxParts

Start ==
  /\ pos = 0
  /\ call = "none"
  /\ buff = <<>>
  /\ x = 1 /\ e = 1 /\ sp = 0
  /\ inToken = FALSE /\ token = <<>>
  /\ resume = FALSE /\ part = 0
  /\ output = <<>>

Init == file \in BoundedSeq(Chars, MaxLen) /\ Start
----------------------------------------------------------------------------
\* How many calls a token takes is up to the callback; here, as many as its length.
CallsFor(name) == IF Len(name) < MaxParts THEN Len(name) ELSE MaxParts

\* The text before a token or before the end of a chunk.
Pending == [i \in 1 .. sp |-> Plain(buff[e + i - 1])]

Running == call = "running"
More == x <= Len(buff)

\* The first call opens the file and sends the headers.
Open ==
  /\ call = "none"
  /\ call' = "waiting"
  /\ UNCHANGED <<readVars, x, e, sp, inToken, token, resume, part, output>>

\* A later call reads a chunk, or goes on with the one that was interrupted.
Call ==
  /\ call = "waiting"
  /\ call' = "running"
  /\ \/ /\ resume
        /\ UNCHANGED <<pos, buff, x, e, sp>>
     \/ /\ ~resume
        /\ LET n == IF Len(file) - pos < Chunk THEN Len(file) - pos ELSE Chunk
           IN  buff' = SubSeq(file, pos + 1, pos + n) /\ pos' = pos + n
        /\ x' = 1 /\ e' = 1 /\ sp' = 0
  /\ UNCHANGED <<file, inToken, token, resume, part, output>>

\* Ordinary text.
Text ==
  /\ Running /\ More /\ ~inToken /\ buff[x] # "%"
  /\ sp' = sp + 1
  /\ x' = x + 1
  /\ UNCHANGED <<readVars, call, e, inToken, token, resume, part, output>>

\* A token begins; the text before it is sent.
TokenBegins ==
  /\ Running /\ More /\ ~inToken /\ buff[x] = "%"
  /\ output' = output \o Pending
  /\ sp' = 0
  /\ inToken' = TRUE /\ token' = <<>>
  /\ x' = x + 1
  /\ UNCHANGED <<readVars, call, e, resume, part>>

\* A character of a token; those that do not fit are lost.
TokenChar ==
  /\ Running /\ More /\ inToken /\ buff[x] # "%"
  /\ token' = IF Len(token) < MaxToken THEN Append(token, buff[x]) ELSE token
  /\ x' = x + 1
  /\ UNCHANGED <<readVars, call, e, sp, inToken, resume, part, output>>

\* Collect text again, behind the token.
TokenEnds ==
  /\ e' = x + 1
  /\ inToken' = FALSE
  /\ x' = x + 1

\* Two percent signs are one.
Escape ==
  /\ Running /\ More /\ inToken /\ buff[x] = "%" /\ token = <<>>
  /\ output' = Append(output, Plain("%"))
  /\ TokenEnds
  /\ UNCHANGED <<readVars, call, sp, token, resume, part>>

\* The callback sends a part of what replaces the token, here the last one.
Substitute ==
  /\ Running /\ More /\ inToken /\ buff[x] = "%" /\ token # <<>>
  /\ part + 1 >= CallsFor(token)
  /\ output' = Append(output, Part(token, part + 1))
  /\ resume' = FALSE /\ part' = 0
  /\ TokenEnds
  /\ UNCHANGED <<readVars, call, sp, token>>

\* Mutant of Pause: the chunk is not to be resumed.
PauseForgets ==
  /\ Running /\ More /\ inToken /\ buff[x] = "%" /\ token # <<>>
  /\ part + 1 < CallsFor(token)
  /\ output' = Append(output, Part(token, part + 1))
  /\ part' = part + 1
  /\ call' = "waiting"
  /\ UNCHANGED <<readVars, x, e, sp, inToken, token, resume>>

\* And here there are more: the function returns with the chunk half done.
Pause ==
  /\ Running /\ More /\ inToken /\ buff[x] = "%" /\ token # <<>>
  /\ part + 1 < CallsFor(token)
  /\ output' = Append(output, Part(token, part + 1))
  /\ resume' = TRUE /\ part' = part + 1
  /\ call' = "waiting"
  /\ UNCHANGED <<readVars, x, e, sp, inToken, token>>

\* The chunk is done: the rest of its text is sent; a chunk that is not full was the last.
EndOfChunk ==
  /\ Running /\ ~More
  /\ output' = output \o Pending
  /\ call' = IF Len(buff) = Chunk THEN "waiting" ELSE "done"
  /\ UNCHANGED <<readVars, x, e, sp, inToken, token, resume, part>>

\* The connection closes between two calls.
Abort ==
  /\ call = "waiting"
  /\ call' = "aborted"
  /\ UNCHANGED <<readVars, x, e, sp, inToken, token, resume, part, output>>

Next ==
  \/ Open \/ Call
  \/ Text \/ TokenBegins \/ TokenChar \/ Escape \/ Substitute \/ Pause
  \/ EndOfChunk \/ Abort

Spec == Init /\ [][Next]_vars
----------------------------------------------------------------------------
(***************************************************************************)
(* What a page is.                                                         *)
(***************************************************************************)

\* The percent signs up to position i.
Signs(i) == {j \in 1 .. i : file[j] = "%"}

\* What replaces a token of this name, of which only the beginning is kept.
Replacement(name) ==
  LET kept == SubSeq(name, 1, IF Len(name) < MaxToken THEN Len(name) ELSE MaxToken)
  IN  IF name = <<>> THEN <<Plain("%")>>
      ELSE [p \in 1 .. CallsFor(kept) |-> Part(kept, p)]

\* The character at position i is in a token, or the sign that begins one.
InToken(i) == Cardinality(Signs(i)) % 2 = 1

\* What that character contributes: itself in text, nothing in a token, and what
\* replaces the token at the sign that ends it.
Contribution(i) ==
  IF InToken(i) THEN <<>>
  ELSE IF file[i] # "%" THEN <<Plain(file[i])>>
  ELSE Replacement(SubSeq(file, Max(Signs(i - 1)) + 1, i - 1))

Page == FlattenSeq([i \in 1 .. Len(file) |-> Contribution(i)])

\* What is sent is the page, wherever the chunks are cut and however many calls the
\* tokens take; an answer cut short by its client is a beginning of it.
PageIsRight ==
  /\ IsPrefix(output, Page)
  /\ call = "done" => output = Page
=============================================================================
