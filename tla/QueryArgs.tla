------------------------------- MODULE QueryArgs -------------------------------
(***************************************************************************)
(* The arguments of a form (httpdHexVal, httpdUrlDecode and httpdFindArg   *)
(* of libesphttpd/core/httpd.c), as the CGIs read them from the URL or     *)
(* from a body. A character is its code. A line is what a browser makes of *)
(* names and values: characters as they are, escaped, or a plus sign for a *)
(* space.                                                                  *)
(***************************************************************************)
EXTENDS Integers, SequencesExt

CONSTANTS
  MaxArgs,    \* bound of the model: arguments of a line
  MaxValue    \* bound of the model: bytes of a value

Percent == 37
Amp == 38
Plus == 43
Equals == 61
Space == 32
Newline == 10
None == -1

\* Two names, one of which begins like the other.
ArgNames == {<<97>>, <<97, 98>>}

\* The bytes of a value and how a browser may write them: "a", space, "&", "=", "+", a control
\* character.
Written(byte) ==
  CASE byte = 97 -> {<<97>>, <<Percent, 54, 49>>}
    [] byte = Space -> {<<Plus>>, <<Percent, 50, 48>>}
    [] byte = Amp -> {<<Percent, 50, 54>>}
    [] byte = Plus -> {<<Percent, 50, 66>>, <<Percent, 50, 98>>}
    [] OTHER -> {<<Equals>>}
Bytes == {97, Space, Amp, Plus, Equals}
Units == UNION {{[byte |-> b, text |-> t] : t \in Written(b)} : b \in Bytes}

\* A line, the argument that is asked for, and the size of the buffer for its value.
Inputs ==
  [args : BoundedSeq([name : ArgNames, value : BoundedSeq(Units, MaxValue)], MaxArgs),
   name : ArgNames, buffLen : {1, MaxValue + 1}]

Texts(units) == FlattenSeq([n \in 1 .. Len(units) |-> units[n].text])
BytesOf(units) == [n \in 1 .. Len(units) |-> units[n].byte]
ArgText(arg) == arg.name \o <<Equals>> \o Texts(arg.value)
Line(args) ==
  FlattenSeq([n \in 1 .. Len(args) |->
                IF n = 1 THEN ArgText(args[n]) ELSE <<Amp>> \o ArgText(args[n])])
----------------------------------------------------------------------------
\* httpdHexVal; what is no digit counts as zero.
HexVal(c) ==
  CASE c \in 48 .. 57 -> c - 48
    [] c \in 65 .. 70 -> c - 65 + 10
    [] c \in 97 .. 102 -> c - 97 + 10
    [] OTHER -> 0

\* Mutant of UrlDecode: a plus sign stays.
UrlDecodeKeepsPlus(val, retLen) ==
  LET byte(st, c) == [st EXCEPT !.esced = 0, !.ret = Append(@, c)]
      take(st, c) ==
        IF Len(st.ret) >= retLen THEN st
        ELSE IF st.esced = 1 THEN [st EXCEPT !.esced = 2, !.escVal = HexVal(c) * 16]
        ELSE IF st.esced = 2 THEN byte(st, st.escVal + HexVal(c))
        ELSE IF c = Percent THEN [st EXCEPT !.esced = 1]
        ELSE byte(st, c)
  IN  FoldLeft(take, [esced |-> 0, escVal |-> 0, ret |-> <<>>], val).ret

\* httpdUrlDecode, character by character until the buffer is full.
UrlDecode(val, retLen) ==
  LET byte(st, c) == [st EXCEPT !.esced = 0, !.ret = Append(@, c)]
      take(st, c) ==
        IF Len(st.ret) >= retLen THEN st
        ELSE IF st.esced = 1 THEN [st EXCEPT !.esced = 2, !.escVal = HexVal(c) * 16]
        ELSE IF st.esced = 2 THEN byte(st, st.escVal + HexVal(c))
        ELSE IF c = Percent THEN [st EXCEPT !.esced = 1]
        ELSE byte(st, IF c = Plus THEN Space ELSE c)
  IN  FoldLeft(take, [esced |-> 0, escVal |-> 0, ret |-> <<>>], val).ret

\* The first ampersand of a line from position p on, or the position behind the line.
NextAmp(line, p) ==
  LET amps == {q \in p .. Len(line) : line[q] = Amp}
  IN  IF amps = {} THEN Len(line) + 1 ELSE Min(amps)

\* httpdFindArg: the value of the first argument of that name, and whether it is zero-terminated,
\* which a value that fills the buffer is not.
FindArg(line, arg, buffLen) ==
  LET ends(p) == p > Len(line) \/ line[p] \in {Newline, 13, 0}
      find[p \in 1 .. Len(line) + 2] ==
        IF ends(p) THEN [len |-> None, value |-> <<>>, terminated |-> FALSE]
        ELSE IF p + Len(arg) <= Len(line) /\ SubSeq(line, p, p + Len(arg)) = Append(arg, Equals)
        THEN LET start == p + Len(arg) + 1
                 ret == UrlDecode(SubSeq(line, start, NextAmp(line, start) - 1), buffLen)
             IN  [len |-> Len(ret), value |-> ret, terminated |-> Len(ret) < buffLen]
        ELSE find[NextAmp(line, p) + 1]
  IN  find[1]
----------------------------------------------------------------------------
\* A CGI's call.
Result(in) == FindArg(Line(in.args), in.name, in.buffLen)

\* The bytes that a form says an argument has: those of the first one of that name. <<>> without one.
Entered(in) ==
  LET same == {n \in 1 .. Len(in.args) : in.args[n].name = in.name}
  IN  IF same = {} THEN <<>> ELSE <<BytesOf(in.args[Min(same)].value)>>

\* What a CGI has to get of them: as many as fit, and behind them the zero that ends them.
Meant(in) ==
  LET bytes == Entered(in)[1]
      fits == Min({Len(bytes), in.buffLen - 1})
  IN  IF Entered(in) = <<>> THEN [len |-> None, value |-> <<>>, terminated |-> FALSE]
      ELSE [len |-> fits, value |-> SubSeq(bytes, 1, fits), terminated |-> TRUE]

\* A value that fits with its zero.
FitsBuffer(in) == Entered(in) = <<>> \/ Len(Entered(in)[1]) < in.buffLen

\* A value that fits is what is meant; of another one the CGI gets the beginning, as much as there is
\* room for, with the room for the zero or without.
Decoded(in, result) ==
  IF FitsBuffer(in) THEN result = Meant(in)
  ELSE /\ IsPrefix(Meant(in).value, result.value) /\ IsPrefix(result.value, Entered(in)[1])
       /\ result.len = Len(result.value) /\ result.len <= in.buffLen
=============================================================================
