------------------------------- MODULE CaptDns -------------------------------
(***************************************************************************)
(* The DNS server of the captive portal (captdnsRecv, labelToStr and       *)
(* strToLabel of libesphttpd/util/captdns.c), which answers every question *)
(* for an address with the access point's. A packet is a sequence of       *)
(* bytes; an offset in it counts from 0, as in the code.                   *)
(***************************************************************************)
EXTENDS Integers, SequencesExt

CONSTANTS
  Labels,        \* labels of the names that clients ask for
  MaxLabels,     \* bound of the model: labels of a name
  MaxQuestions,  \* bound of the model: questions of a packet
  ApAddress      \* the access point's address, a byte of it

QTypeA == 1
QTypeNs == 2
QTypeMx == 15
QTypeUri == 256
ClassIn == 1
ClassUri == 256
HeaderSize == 12
Dot == 46

\* A byte of the reply that nothing was written to.
Unset == -1

Word(n) == <<n \div 256, n % 256>>
----------------------------------------------------------------------------
(***************************************************************************)
(* What clients send: questions, the second of them with its name written  *)
(* out or pointing at the labels it shares with the first; also packets    *)
(* that are no plain question.                                             *)
(***************************************************************************)

Names == BoundedSeq(Labels, MaxLabels) \ {<<>>}
Types == {QTypeA, QTypeNs, QTypeMx, QTypeUri}
Inputs ==
  [questions : BoundedSeq([name : Names, type : Types], MaxQuestions) \ {<<>>},
   compressed : BOOLEAN, kind : {"query", "edns", "truncated", "answer"}]

LabelBytes(labels) == FlattenSeq([n \in DOMAIN labels |-> <<Len(labels[n])>> \o labels[n]])
Uncompressed(name) == Append(LabelBytes(name), 0)

\* The name of a later question, with the longest end it shares with the first one's name as a
\* pointer.
Compressed(name, first) ==
  LET from(s, k) == SubSeq(s, k, Len(s))
      shared == {j \in DOMAIN name : \E k \in DOMAIN first : from(name, j) = from(first, k)}
      j == Min(shared)
      k == CHOOSE k \in DOMAIN first : from(name, j) = from(first, k)
  IN  IF shared = {} THEN Uncompressed(name)
      ELSE LabelBytes(SubSeq(name, 1, j - 1))
             \o <<192, HeaderSize + Len(LabelBytes(SubSeq(first, 1, k - 1)))>>

QuestionBytes(in, n) ==
  LET q == in.questions[n]
  IN  (IF n > 1 /\ in.compressed THEN Compressed(q.name, in.questions[1].name)
       ELSE Uncompressed(q.name)) \o Word(q.type) \o Word(ClassIn)

\* FLAG_TC is 2; an answer counts an answer, EDNS an additional record.
Packet(in) ==
  <<7, 7, IF in.kind = "truncated" THEN 3 ELSE 1, 0>> \o Word(Len(in.questions))
    \o Word(IF in.kind = "answer" THEN 1 ELSE 0) \o Word(0)
    \o Word(IF in.kind = "edns" THEN 1 ELSE 0)
    \o FlattenSeq([n \in DOMAIN in.questions |-> QuestionBytes(in, n)])
----------------------------------------------------------------------------
ByteAt(packet, offset) == packet[offset + 1]
WordAt(packet, offset) == 256 * ByteAt(packet, offset) + ByteAt(packet, offset + 1)

\* Mutant of LabelToStr: the fields that follow are looked for where the labels end.
LabelToStrEndsThere(packet, start) ==
  LET step(st, n) ==
        IF st.done THEN st
        ELSE LET len == ByteAt(packet, st.at)
                 dot == IF st.res = <<>> THEN <<>> ELSE <<Dot>>
                 next == IF len < 64
                         THEN [st EXCEPT !.res = @ \o dot \o SubSeq(packet, st.at + 2, st.at + 1 + len),
                                         !.at = @ + 1 + len]
                         ELSE [st EXCEPT !.at = WordAt(packet, st.at) % 16384]
             IN  [next EXCEPT !.done = ByteAt(packet, next.at) = 0]
      all == FoldLeft(step, [at |-> start, res |-> <<>>, done |-> FALSE], packet)
  IN  [end |-> all.at + 1, res |-> all.res]

\* labelToStr: the name at an offset with dots, and where the fields that follow it begin; that
\* is behind the first pointer, if there is one. The tests of the packet's end, which no name of
\* a proper packet meets, are left out.
LabelToStr(packet, start) ==
  LET step(st, n) ==
        IF st.done THEN st
        ELSE LET len == ByteAt(packet, st.at)
                 dot == IF st.res = <<>> THEN <<>> ELSE <<Dot>>
                 next == IF len < 64
                         THEN [st EXCEPT !.res = @ \o dot \o SubSeq(packet, st.at + 2, st.at + 1 + len),
                                         !.at = @ + 1 + len]
                         ELSE [st EXCEPT !.end = st.at + 2, !.at = WordAt(packet, st.at) % 16384]
             IN  [next EXCEPT !.done = ByteAt(packet, next.at) = 0]
      all == FoldLeft(step, [at |-> start, res |-> <<>>, end |-> 0, done |-> FALSE], packet)
  IN  [end |-> IF all.end = 0 THEN all.at + 1 ELSE all.end, res |-> all.res]

\* strToLabel.
StrToLabel(str) ==
  LET take(st, c) == IF c = Dot THEN [out |-> Append(st.out, Len(st.part)) \o st.part, part |-> <<>>]
                     ELSE [st EXCEPT !.part = Append(@, c)]
      all == FoldLeft(take, [out |-> <<>>, part |-> <<>>], str)
  IN  Append(Append(all.out, Len(all.part)) \o all.part, 0)

\* What answers a question of a type: class, time to live and data. Half the time to live of two
\* of them is never written.
Resource(type) ==
  CASE type = QTypeA -> Word(ClassIn) \o Word(0) \o Word(0) \o Word(4) \o [n \in 1 .. 4 |-> ApAddress]
    [] type = QTypeNs -> Word(ClassIn) \o Word(0) \o <<Unset, Unset>> \o Word(4)
                           \o <<2, 110, 115, 0>>   \* "ns"
    [] type = QTypeUri -> Word(ClassUri) \o Word(0) \o <<Unset, Unset>> \o Word(20)
                            \o Word(10) \o Word(1) \o [n \in 1 .. 16 |-> 104]   \* "http:..."

\* A turn of captdnsRecv's loop over the questions.
Answer(packet, st) ==
  LET label == LabelToStr(packet, st.p)
      type == WordAt(packet, label.end)
      next == [st EXCEPT !.p = label.end + 4]
  IN  IF type \notin {QTypeA, QTypeNs, QTypeUri} THEN next
      ELSE [next EXCEPT !.reply = @ \o StrToLabel(label.res) \o Word(type) \o Resource(type),
                        !.answers = @ + 1]

\* captdnsRecv; <<>> when it sends nothing.
Recv(packet) ==
  LET count(n) == WordAt(packet, 4 + 2 * n)
      questions == [n \in 1 .. count(0) |-> n]
      all == FoldLeft(LAMBDA st, n : Answer(packet, st),
                      [p |-> HeaderSize, reply |-> packet, answers |-> 0], questions)
      flags == ByteAt(packet, 2)
  IN  IF count(1) # 0 \/ count(2) # 0 \/ count(3) # 0 \/ (flags \div 2) % 2 = 1 THEN <<>>
      ELSE [all.reply EXCEPT ![3] = (flags % 128) + 128,
                             ![7] = all.answers \div 256, ![8] = all.answers % 256]

Result(in) == Recv(Packet(in))
----------------------------------------------------------------------------
\* What a client has to get for a query: its packet as a response, with an answer for each question
\* that asks for an address, a name server or a URI, under the name that was asked for. A reply of
\* somebody's and a truncated packet are nothing to answer.
Meant(in) ==
  LET packet == Packet(in)
      asked == SelectSeq(in.questions, LAMBDA q : q.type # QTypeMx)
      answer(q) == Uncompressed(q.name) \o Word(q.type) \o Resource(q.type)
  IN  IF in.kind \in {"truncated", "answer"} THEN <<>>
      ELSE [n \in DOMAIN packet |-> CASE n = 3 -> 129
                                      [] n = 8 -> Len(asked)
                                      [] OTHER -> packet[n]]
             \o FlattenSeq([n \in DOMAIN asked |-> answer(asked[n])])

\* A query with an additional record (EDNS), which captdnsRecv takes for a reply.
TakenForReply(in) == in.kind = "edns"
=============================================================================
