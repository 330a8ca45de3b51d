---------------------------- MODULE FileProofs ----------------------------
(***************************************************************************)
(* What is sent for a file of the image: a page with tokens, or a static   *)
(* file, plain or compressed.                                              *)
(*                                                                         *)
(* What is sent for a page with tokens, for every file, every length of    *)
(* the chunks, every length of a token and however many calls a token      *)
(* takes. The inductive invariant says what the characters looked at so    *)
(* far amount to: they are sent, but for the text before the next token,   *)
(* which waits, and of a token that ends here as many parts are sent as    *)
(* the callback was called. Whether a token is open is the parity of the   *)
(* percent signs, and its name is what follows the last one.               *)
(*                                                                         *)
(* What is sent of a static file, for every image, every size of a read    *)
(* and every room in the decoder. The walk over the headers is a recursive *)
(* function over addresses: that there is one is shown by giving it, and   *)
(* what it returns by going back from the end mark. The inductive          *)
(* invariant says that the decoder holds the last symbols that were read,  *)
(* in a row, and that the position in the file is where the first of them  *)
(* begins and the bytes of it that were handed out.                        *)
(***************************************************************************)
EXTENDS Template, StaticFile, FlattenTheorems, FiniteSetTheorems, SequenceTheorems, TLAPS

\* A piece of the output, and one of the page.
Piece == [token : Seq(Chars), part : Nat]

\* m is the last sign up to position k.
LastSign(m, k) == m \in Signs(k) /\ \A j \in Signs(k) : j <= m

\* The part of a name that is kept, and the first n parts that replace it.
Kept(name) == SubSeq(name, 1, IF Len(name) < MaxToken THEN Len(name) ELSE MaxToken)
FirstParts(name, n) == [p \in 1 .. n |-> Part(name, p)]

\* What the first k characters amount to.
Flat(k) == FlattenSeq([i \in 1 .. k |-> Contribution(i)])

\* The text that waits to be sent.
Waits == IF Running THEN Pending ELSE <<>>

----------------------------------------------------------------------------
\* Signs and tokens.

\* The signs are numbers, finitely many.
LEMMA SignsType ==
  ASSUME NEW k \in Nat
  PROVE  /\ IsFiniteSet(Signs(k)) /\ Cardinality(Signs(k)) \in Nat
         /\ Signs(k) \subseteq 1 .. k
<1>1. Signs(k) \subseteq 1 .. k
  BY DEF Signs
<1>2. IsFiniteSet(1 .. k)
  BY FS_Interval
<1>3. IsFiniteSet(Signs(k))
  BY <1>1, <1>2, FS_Subset
<1> QED
  BY <1>1, <1>3, FS_CardinalityType

\* With the next character there is a sign more, or there is not.
LEMMA SignsNext ==
  ASSUME NEW k \in Nat
  PROVE  /\ file[k + 1] # "%" => Signs(k + 1) = Signs(k) /\ (InToken(k + 1) <=> InToken(k))
         /\ file[k + 1] = "%" => Signs(k + 1) = Signs(k) \cup {k + 1} /\ (InToken(k + 1) <=> ~InToken(k))
<1>1. IsFiniteSet(Signs(k)) /\ Cardinality(Signs(k)) \in Nat /\ k + 1 \notin Signs(k)
  BY SignsType
<1>2. 1 .. k + 1 = (1 .. k) \cup {k + 1}
  OBVIOUS
<1>3. CASE file[k + 1] # "%"
  <2>1. Signs(k + 1) = Signs(k)
    BY <1>2, <1>3 DEF Signs
  <2> QED
    BY <1>3, <2>1 DEF InToken
<1>4. CASE file[k + 1] = "%"
  <2>1. Signs(k + 1) = Signs(k) \cup {k + 1}
    BY <1>2, <1>4 DEF Signs
  <2>2. Cardinality(Signs(k + 1)) = Cardinality(Signs(k)) + 1
    BY <1>1, <2>1, FS_AddElement
  <2>3. PICK n \in Nat : n = Cardinality(Signs(k))
    BY <1>1
  <2>4. (n + 1) % 2 = 1 <=> ~(n % 2 = 1)
    OBVIOUS
  <2>5. InToken(k + 1) <=> ~InToken(k)
    BY <2>2, <2>3, <2>4, Zenon DEF InToken
  <2> QED
    BY <1>4, <2>1, <2>5
<1> QED
  BY <1>3, <1>4

\* At the beginning of the file there is no token.
LEMMA SignsAtStart ==
  ~InToken(0)
<1>1. Signs(0) = {}
  BY SignsType
<1>2. Cardinality(Signs(0)) = 0
  BY <1>1, FS_EmptySet
<1> QED
  BY <1>2 DEF InToken

\* Within a token there is a last sign.
LEMMA TokenHasSign ==
  ASSUME NEW k \in Nat, InToken(k)
  PROVE  \E m \in 1 .. k : LastSign(m, k)
<1>1. Signs(k) \subseteq 1 .. k
  BY SignsType
<1>2. Signs(k) # {}
  <2>1. Signs(k) = {} => Cardinality(Signs(k)) = 0
    BY FS_EmptySet
  <2> QED
    BY <2>1 DEF InToken
<1> DEFINE T == {k - j : j \in Signs(k)}
<1>3. T \subseteq Nat /\ T # {}
  BY <1>1, <1>2
<1>4. PICK a \in T : \A b \in T : a <= b
  BY <1>3, LeastElement
<1>5. PICK m \in Signs(k) : a = k - m
  BY <1>4
<1>6. ASSUME NEW j \in Signs(k) PROVE j <= m
  <2>1. k - j \in T
    OBVIOUS
  <2>2. a <= k - j
    BY <1>4, <2>1, Zenon
  <2>3. j \in Int /\ m \in Int
    BY <1>1
  <2> QED
    BY <1>5, <2>2, <2>3
<1> QED
  BY <1>1, <1>6 DEF LastSign

\* It is what Max finds.
LEMMA LastSignIsMax ==
  ASSUME NEW k \in Nat, NEW m, LastSign(m, k)
  PROVE  Max(Signs(k)) = m
<1>1. Signs(k) \subseteq Int /\ m \in Signs(k) /\ \A j \in Signs(k) : m >= j
  BY SignsType DEF LastSign
<1>2. ASSUME NEW n \in Signs(k), \A j \in Signs(k) : n >= j
      PROVE  n = m
  BY <1>1, <1>2
<1> QED
  BY <1>1, <1>2 DEF Max

----------------------------------------------------------------------------
\* What a character contributes.

\* What replaces a token, but for an empty one, is all its parts.
LEMMA ReplacementIs ==
  ASSUME NEW name, name # <<>>
  PROVE  Replacement(name) = FirstParts(Kept(name), CallsFor(Kept(name)))
BY Zenon DEF Replacement, FirstParts, Kept

\* What a character contributes, case by case.
LEMMA ContributionCases ==
  ASSUME NEW i
  PROVE  /\ InToken(i) => Contribution(i) = <<>>
         /\ ~InToken(i) /\ file[i] # "%" => Contribution(i) = <<Plain(file[i])>>
         /\ ~InToken(i) /\ file[i] = "%" =>
              Contribution(i) = Replacement(SubSeq(file, Max(Signs(i - 1)) + 1, i - 1))
BY DEF Contribution

\* What the character behind the first k ones contributes, said with what is known of those.
LEMMA ContributionIs ==
  ASSUME NEW k \in Nat
  PROVE  /\ file[k + 1] # "%" /\ ~InToken(k) => Contribution(k + 1) = <<Plain(file[k + 1])>>
         /\ file[k + 1] # "%" /\ InToken(k) => Contribution(k + 1) = <<>>
         /\ file[k + 1] = "%" /\ ~InToken(k) => Contribution(k + 1) = <<>>
         /\ \A m : file[k + 1] = "%" /\ InToken(k) /\ LastSign(m, k) =>
              Contribution(k + 1) = Replacement(SubSeq(file, m + 1, k))
<1>1. CASE file[k + 1] # "%"
  BY <1>1, ContributionCases, SignsNext, Zenon
<1>2. CASE file[k + 1] = "%"
  <2>1. InToken(k + 1) <=> ~InToken(k)
    BY <1>2, SignsNext
  <2>2. \A m : LastSign(m, k) => Max(Signs(k)) = m
    BY LastSignIsMax
  <2>3. (k + 1) - 1 = k
    OBVIOUS
  <2>4. ~InToken(k + 1) => Contribution(k + 1) = Replacement(SubSeq(file, Max(Signs(k)) + 1, k))
    BY <1>2, <2>3, ContributionCases, Zenon
  <2>5. InToken(k + 1) => Contribution(k + 1) = <<>>
    BY ContributionCases, Zenon
  <2> QED
    BY <1>2, <2>1, <2>2, <2>4, <2>5, Zenon
<1> QED
  BY <1>1, <1>2

\* A name is made of characters, and of letters if there is no sign in it.
LEMMA KeptIs ==
  ASSUME NEW S, NEW name \in Seq(S)
  PROVE  /\ Kept(name) \in Seq(S) /\ Len(Kept(name)) <= MaxToken /\ Len(Kept(name)) <= Len(name)
         /\ Kept(name) = <<>> <=> name = <<>>
         /\ Len(Kept(name)) < MaxToken <=> Len(name) < MaxToken
         /\ Len(name) < MaxToken => Kept(name) = name
         /\ CallsFor(Kept(name)) \in Nat
         /\ name # <<>> => CallsFor(Kept(name)) \in 1 .. MaxParts
<1>1. MaxToken \in Nat \ {0} /\ MaxParts \in Nat \ {0} /\ Len(name) \in Nat
  BY TemplateAssumption
<1>2. PICK n \in Nat : n = IF Len(name) < MaxToken THEN Len(name) ELSE MaxToken
  BY <1>1
<1>3. n <= Len(name) /\ n <= MaxToken /\ (Len(name) < MaxToken => n = Len(name))
      /\ (~(Len(name) < MaxToken) => n = MaxToken) /\ (Len(name) # 0 => n # 0)
  BY <1>1, <1>2
<1>4. Kept(name) = SubSeq(name, 1, n)
  BY <1>2 DEF Kept
<1>5. SubSeq(name, 1, n) \in Seq(S) /\ Len(SubSeq(name, 1, n)) = n
  BY <1>1, <1>3
<1>6. Len(name) < MaxToken => Kept(name) = name
  BY <1>3, <1>4, SubSeqFull
<1>7. name = <<>> <=> Len(name) = 0
  OBVIOUS
<1>8. Kept(name) = <<>> <=> n = 0
  <2>1. PICK s \in Seq(S) : s = Kept(name) /\ Len(s) = n
    BY <1>4, <1>5
  <2>2. s = <<>> <=> Len(s) = 0
    BY EmptySeq
  <2> QED
    BY <2>1, <2>2
<1>9. Len(Kept(name)) = n
  BY <1>4, <1>5
<1>10. CallsFor(Kept(name)) = IF n < MaxParts THEN n ELSE MaxParts
  BY <1>9 DEF CallsFor
<1>11. CallsFor(Kept(name)) \in Nat /\ (name # <<>> => CallsFor(Kept(name)) \in 1 .. MaxParts)
  BY <1>1, <1>3, <1>7, <1>10
<1>12. Len(Kept(name)) < MaxToken <=> Len(name) < MaxToken
  BY <1>1, <1>3, <1>9
<1> QED
  BY <1>1, <1>3, <1>4, <1>5, <1>6, <1>7, <1>8, <1>9, <1>11, <1>12

\* The parts of a token are pieces.
LEMMA PartsType ==
  ASSUME NEW name \in Seq(Chars), NEW n \in Nat
  PROVE  /\ FirstParts(name, n) \in Seq(Piece) /\ Len(FirstParts(name, n)) = n
         /\ FirstParts(name, 0) = <<>>
         /\ FirstParts(name, n + 1) = Append(FirstParts(name, n), Part(name, n + 1))
         /\ Part(name, n) \in Piece
<1>1. \A i \in Nat : Part(name, i) \in Piece
  BY DEF Part, Piece
<1>2. \A i \in Nat : FirstParts(name, i) \in Seq(Piece) /\ Len(FirstParts(name, i)) = i
  BY <1>1 DEF FirstParts
<1>3. FirstParts(name, 0) = <<>>
  BY DEF FirstParts
<1>4. FirstParts(name, n + 1) = Append(FirstParts(name, n), Part(name, n + 1))
  <2>1. PICK s \in Seq(Piece), t \in Seq(Piece), p \in Piece :
          s = FirstParts(name, n + 1) /\ t = FirstParts(name, n) /\ p = Part(name, n + 1)
    <3>1. n + 1 \in Nat
      OBVIOUS
    <3> QED
      BY <1>1, <1>2, <3>1, Zenon
  <2>2. Len(s) = n + 1 /\ Len(t) = n
    BY <1>2, <2>1
  <2>3. \A i \in 1 .. n + 1 : s[i] = Part(name, i)
    BY <2>1 DEF FirstParts
  <2>4. \A i \in 1 .. n : t[i] = Part(name, i)
    BY <2>1 DEF FirstParts
  <2>5. s = Append(t, p)
    <3>1. Append(t, p) \in Seq(Piece) /\ Len(Append(t, p)) = n + 1
      BY <2>2
    <3>2. ASSUME NEW i \in 1 .. n + 1 PROVE s[i] = Append(t, p)[i]
      <4>1. CASE i = n + 1
        BY <2>1, <2>2, <2>3, <4>1
      <4>2. CASE i # n + 1
        BY <2>2, <2>3, <2>4, <4>2
      <4> QED
        BY <4>1, <4>2
    <3> QED
      BY <2>2, <3>1, <3>2, SeqEqual
  <2> QED
    BY <2>1, <2>5, Zenon
<1> QED
  BY <1>1, <1>2, <1>3, <1>4

\* What a character contributes are pieces.
LEMMA ContributionType ==
  ASSUME file \in Seq(Chars), NEW k \in Nat, k + 1 <= Len(file)
  PROVE  Contribution(k + 1) \in Seq(Piece)
<1>1. file[k + 1] \in Chars /\ "%" \in Chars
  BY DEF Chars
<1>2. \A c \in Chars : <<Plain(c)>> \in Seq(Piece)
  BY DEF Plain, Piece
<1>3. <<>> \in Seq(Piece)
  OBVIOUS
<1>4. ASSUME NEW name \in Seq(Chars) PROVE Replacement(name) \in Seq(Piece)
  <2>1. CASE name = <<>>
    <3>1. Replacement(name) = <<Plain("%")>>
      BY <2>1, Zenon DEF Replacement
    <3> QED
      BY <1>1, <1>2, <3>1
  <2>2. CASE name # <<>>
    <3>1. Kept(name) \in Seq(Chars) /\ CallsFor(Kept(name)) \in Nat
      BY KeptIs
    <3>2. Replacement(name) = FirstParts(Kept(name), CallsFor(Kept(name)))
      BY <2>2, ReplacementIs
    <3> QED
      BY <3>1, <3>2, PartsType
  <2> QED
    BY <2>1, <2>2
<1>5. CASE file[k + 1] # "%" \/ ~InToken(k)
  BY <1>1, <1>2, <1>3, <1>5, ContributionIs
<1>6. CASE file[k + 1] = "%" /\ InToken(k)
  <2>1. PICK m \in 1 .. k : LastSign(m, k)
    BY <1>6, TokenHasSign
  <2>2. Contribution(k + 1) = Replacement(SubSeq(file, m + 1, k))
    BY <1>6, <2>1, ContributionIs, Zenon
  <2>3. SubSeq(file, m + 1, k) \in Seq(Chars)
    OBVIOUS
  <2> QED
    BY <1>4, <2>2, <2>3
<1> QED
  BY <1>5, <1>6

----------------------------------------------------------------------------
\* What the characters amount to.

\* What the first k characters contribute.
Contributions(k) == [i \in 1 .. k |-> Contribution(i)]

\* It is a sequence of sequences of pieces.
LEMMA ContributionsType ==
  ASSUME file \in Seq(Chars), NEW k \in 0 .. Len(file)
  PROVE  Contributions(k) \in Seq(Seq(Piece)) /\ Len(Contributions(k)) = k
<1>1. ASSUME NEW i \in 1 .. k PROVE Contribution(i) \in Seq(Piece)
  <2>1. i - 1 \in Nat /\ (i - 1) + 1 = i /\ i <= Len(file)
    OBVIOUS
  <2> QED
    BY <2>1, ContributionType
<1> QED
  BY <1>1 DEF Contributions

\* One character more.
LEMMA FlatNext ==
  ASSUME file \in Seq(Chars), NEW k \in Nat, k + 1 <= Len(file)
  PROVE  /\ Flat(k) \in Seq(Piece) /\ Contribution(k + 1) \in Seq(Piece)
         /\ Flat(k + 1) = Flat(k) \o Contribution(k + 1)
<1>1. k \in 0 .. Len(file) /\ k + 1 \in 0 .. Len(file)
  OBVIOUS
<1>2. /\ Contributions(k) \in Seq(Seq(Piece)) /\ Len(Contributions(k)) = k
      /\ Contributions(k + 1) \in Seq(Seq(Piece)) /\ Len(Contributions(k + 1)) = k + 1
  BY <1>1, ContributionsType
<1>3. Contribution(k + 1) \in Seq(Piece)
  BY ContributionType
<1>4. PICK s \in Seq(Seq(Piece)), t \in Seq(Seq(Piece)), b \in Seq(Piece) :
        s = Contributions(k) /\ t = Contributions(k + 1) /\ b = Contribution(k + 1)
  BY <1>2, <1>3, Zenon
<1>5. \A i \in 1 .. k : s[i] = Contribution(i)
  BY <1>4 DEF Contributions
<1>6. \A i \in 1 .. k + 1 : t[i] = Contribution(i)
  BY <1>4 DEF Contributions
<1>7. t = Append(s, b)
  <2>1. Len(s) = k /\ Len(t) = k + 1
    BY <1>2, <1>4
  <2>2. Append(s, b) \in Seq(Seq(Piece)) /\ Len(Append(s, b)) = k + 1
    BY <2>1, AppendProperties
  <2>3. ASSUME NEW i \in 1 .. k + 1 PROVE t[i] = Append(s, b)[i]
    <3>1. CASE i = k + 1
      BY <1>4, <1>6, <2>1, <3>1, AppendProperties
    <3>2. CASE i # k + 1
      BY <1>5, <1>6, <2>1, <3>2, AppendProperties
    <3> QED
      BY <3>1, <3>2
  <2> QED
    BY <2>1, <2>2, <2>3, SeqEqual
<1>8. FlattenSeq(t) = FlattenSeq(s) \o b
  BY <1>7, FlattenAppend
<1>9. Flat(k) = FlattenSeq(s) /\ Flat(k + 1) = FlattenSeq(t)
  BY <1>4, Zenon DEF Flat, Contributions
<1>10. FlattenSeq(s) \in Seq(Piece)
  BY FlattenType
<1> QED
  BY <1>3, <1>4, <1>8, <1>9, <1>10, Zenon

\* No characters amount to nothing, and all of them to the page.
LEMMA FlatEnds ==
  Flat(0) = <<>> /\ Page = Flat(Len(file))
<1>1. Contributions(0) = <<>>
  BY DEF Contributions
<1>2. Flat(0) = FlattenSeq(<<>>)
  BY <1>1, Zenon DEF Flat, Contributions
<1> QED
  BY <1>2, FlattenEmpty, Zenon DEF Page, Flat

\* They are pieces.
LEMMA FlatType ==
  ASSUME file \in Seq(Chars), NEW k \in 0 .. Len(file)
  PROVE  Flat(k) \in Seq(Piece)
<1>1. Contributions(k) \in Seq(Seq(Piece))
  BY ContributionsType
<1>2. FlattenSeq(Contributions(k)) \in Seq(Piece)
  BY <1>1, FlattenType
<1> QED
  BY <1>2, Zenon DEF Flat, Contributions

\* t begins with s.
Begins(s, t) == \E r \in Seq(Piece) : t = s \o r

\* What the first characters amount to is a beginning of the page.
LEMMA FlatIsPrefix ==
  ASSUME file \in Seq(Chars), NEW k \in 0 .. Len(file)
  PROVE  Begins(Flat(k), Page)
<1> DEFINE T == {n \in 1 .. Len(file) - k : Begins(Flat(k), Flat(k + n))}
<1>1. \A i \in 0 .. Len(file) : Flat(i) \in Seq(Piece)
  BY FlatType
<1>2. Begins(Flat(k), Flat(k))
  <2>1. PICK a \in Seq(Piece) : a = Flat(k)
    BY <1>1
  <2>2. a = a \o <<>> /\ <<>> \in Seq(Piece)
    OBVIOUS
  <2> QED
    BY <2>1, <2>2, Zenon DEF Begins
<1>3. ASSUME NEW n \in 0 .. Len(file) - k, n + 1 <= Len(file) - k, Begins(Flat(k), Flat(k + n))
      PROVE  Begins(Flat(k), Flat(k + (n + 1)))
  <2>1. k + n \in Nat /\ (k + n) + 1 <= Len(file) /\ k + (n + 1) = (k + n) + 1
    BY <1>3
  <2>2. Contribution((k + n) + 1) \in Seq(Piece) /\ Flat((k + n) + 1) = Flat(k + n) \o Contribution((k + n) + 1)
    BY <2>1, FlatNext
  <2>3. PICK r \in Seq(Piece) : Flat(k + n) = Flat(k) \o r
    BY <1>3 DEF Begins
  <2>4. PICK a \in Seq(Piece), c \in Seq(Piece) : a = Flat(k) /\ c = Contribution((k + n) + 1)
    BY <1>1, <2>2, Zenon
  <2>5. (a \o r) \o c = a \o (r \o c) /\ r \o c \in Seq(Piece)
    OBVIOUS
  <2>6. Flat(k + (n + 1)) = a \o (r \o c)
    BY <2>1, <2>2, <2>3, <2>4, <2>5, Zenon
  <2> QED
    BY <2>4, <2>5, <2>6, Zenon DEF Begins
<1>4. Len(file) - k \in Nat
  OBVIOUS
<1>5. CASE Len(file) - k = 0
  <2>1. k = Len(file)
    BY <1>5
  <2> QED
    BY <1>2, <2>1, FlatEnds, Zenon
<1>6. CASE Len(file) - k # 0
  <2>1. Len(file) - k >= 1 => 1 \in T
    <3>1. k + 0 = k /\ k + (0 + 1) = k + 1 /\ 0 \in 0 .. Len(file) - k
      OBVIOUS
    <3>2. 0 + 1 <= Len(file) - k => Begins(Flat(k), Flat(k + 1))
      BY <1>2, <1>3, <3>1, Zenon
    <3> QED
      BY <1>4, <3>2
  <2>2. ASSUME NEW i \in 1 .. Len(file) - k, i > 1, i - 1 \in T PROVE i \in T
    <3>1. i - 1 \in 0 .. Len(file) - k /\ (i - 1) + 1 <= Len(file) - k /\ (i - 1) + 1 = i
      BY <2>2
    <3>2. Begins(Flat(k), Flat(k + i))
      BY <1>3, <2>2, <3>1, Zenon
    <3> QED
      BY <3>2
  <2> HIDE DEF T
  <2>3. 1 .. Len(file) - k \subseteq T
    BY <1>4, <2>1, <2>2, UpTo
  <2>4. Len(file) - k \in T
    BY <1>4, <1>6, <2>3
  <2>5. k + (Len(file) - k) = Len(file)
    OBVIOUS
  <2> QED
    BY <2>4, <2>5, FlatEnds, Zenon DEF T
<1> QED
  BY <1>5, <1>6

----------------------------------------------------------------------------
\* The inductive invariant. k is the number of the characters that were looked at.

\* The chunk is what was read last.
BuffIsChunk ==
  Len(buff) <= pos /\ \A j \in 1 .. Len(buff) : buff[j] = file[pos - Len(buff) + j]

\* A token is open if a sign is, and what was collected of it follows that sign.
TokenInv(k) ==
  /\ inToken <=> InToken(k)
  /\ inToken => sp = 0 /\ \E m \in 1 .. k : LastSign(m, k) /\ token = Kept(SubSeq(file, m + 1, k))

\* What waits ends with the last character.
TextInv == Running /\ ~inToken => e + sp = x

\* A chunk is resumed at the sign that ends a token, with parts of it to come.
ResumeInv ==
  /\ resume => inToken /\ token # <<>> /\ More /\ buff[x] = "%" /\ part < CallsFor(token)
  /\ ~resume => part = 0

\* Between calls a chunk that is not to be resumed is done, and one that is not full is the last.
CallInv ==
  /\ ~Running /\ ~resume => x = Len(buff) + 1
  /\ (Running \/ resume) /\ Len(buff) < Chunk => pos = Len(file)
  /\ call = "done" => pos = Len(file) /\ ~resume

\* What was sent and what waits is what the characters amount to.
OutputInv(k) == output \in Seq(Piece) /\ output \o Waits = Flat(k) \o FirstParts(token, part)

SeenInv(k) == k = pos - Len(buff) + x - 1 /\ TokenInv(k) /\ OutputInv(k)

PageInv ==
  TypeOK /\ BuffIsChunk /\ TextInv /\ ResumeInv /\ CallInv /\ \E k \in Nat : SeenInv(k)

----------------------------------------------------------------------------
\* What the actions need of it.

\* The page depends on nothing but the file.
LEMMA PageStays ==
  ASSUME NEW k \in Nat, UNCHANGED file
  PROVE  /\ Signs(k)' = Signs(k) /\ (InToken(k))' = InToken(k) /\ Flat(k)' = Flat(k)
         /\ \A m : LastSign(m, k)' = LastSign(m, k)
<1>1. \A i : Signs(i)' = Signs(i)
  BY DEF Signs
<1>2. \A i : (InToken(i))' = InToken(i)
  BY <1>1 DEF InToken
<1>3. \A i : Contribution(i)' = Contribution(i)
  BY <1>1, <1>2 DEF Contribution
<1>4. Flat(k)' = Flat(k)
  BY <1>3 DEF Flat
<1>5. \A m : LastSign(m, k)' = LastSign(m, k)
  BY <1>1 DEF LastSign
<1> QED
  BY <1>1, <1>2, <1>4, <1>5

\* The next character of the chunk is the next one of the file.
LEMMA NextChar ==
  ASSUME TypeOK, BuffIsChunk, NEW k \in Nat, k = pos - Len(buff) + x - 1, More
  PROVE  /\ k + 1 <= Len(file) /\ file[k + 1] = buff[x] /\ buff[x] \in Chars
         /\ k + 1 = pos - Len(buff) + (x + 1) - 1
<1>1. x \in 1 .. Len(buff) /\ Len(buff) \in Nat /\ pos \in 0 .. Len(file) /\ Len(file) \in Nat
      /\ buff \in Seq(Chars)
  BY DEF TypeOK, More
<1>2. buff[x] = file[pos - Len(buff) + x] /\ Len(buff) <= pos
  BY <1>1 DEF BuffIsChunk
<1>3. k + 1 = pos - Len(buff) + x
  BY <1>1
<1> QED
  BY <1>1, <1>2, <1>3

\* The text that waits is a sequence of pieces; in a token there is none.
LEMMA PendingType ==
  ASSUME TypeOK, TextInv, Running, inToken => sp = 0
  PROVE  Pending \in Seq(Piece) /\ Len(Pending) = sp /\ (sp = 0 => Pending = <<>>)
<1>1. \A c \in Chars : Plain(c) \in Piece
  BY DEF Plain, Piece
<1>2. ASSUME NEW i \in 1 .. sp PROVE Plain(buff[e + i - 1]) \in Piece
  <2>1. ~inToken /\ e + sp = x /\ x \in 1 .. Len(buff) + 1 /\ e \in 1 .. Len(buff) + 1 /\ sp \in Nat
    BY DEF TypeOK, TextInv
  <2>2. e + i - 1 \in 1 .. Len(buff)
    BY <2>1 DEF TypeOK
  <2>3. buff[e + i - 1] \in Chars
    BY <2>2 DEF TypeOK
  <2> QED
    BY <1>1, <2>3
<1>3. sp \in Nat
  BY DEF TypeOK
<1>4. Pending \in Seq(Piece) /\ Len(Pending) = sp
  BY <1>2, <1>3 DEF Pending
<1> QED
  BY <1>4, EmptySeq

\* What waits is a sequence of pieces.
LEMMA WaitsType ==
  ASSUME TypeOK, TextInv, inToken => sp = 0
  PROVE  Waits \in Seq(Piece)
<1>1. <<>> \in Seq(Piece)
  OBVIOUS
<1> QED
  BY <1>1, PendingType DEF Waits

\* Outside of a token, and in one that is not ended, no part was sent.
LEMMA NoPart ==
  ASSUME ResumeInv, TypeOK, ~inToken \/ token = <<>> \/ ~More \/ buff[x] # "%"
  PROVE  ~resume /\ part = 0 /\ FirstParts(token, part) = <<>>
<1>1. ~resume /\ part = 0
  BY DEF ResumeInv
<1> QED
  BY <1>1 DEF FirstParts

\* A letter more of a token: it is kept if there is room.
LEMMA KeptNext ==
  ASSUME file \in Seq(Chars), NEW k \in Nat, k + 1 <= Len(file), NEW m \in 1 .. k
  PROVE  LET name == SubSeq(file, m + 1, k)
             c == file[k + 1]
         IN  Kept(SubSeq(file, m + 1, k + 1)) =
               IF Len(Kept(name)) < MaxToken THEN Append(Kept(name), c) ELSE Kept(name)
<1>0. SubSeq(file, m + 1, k) \in Seq(Chars) /\ SubSeq(file, m + 1, k + 1) \in Seq(Chars)
  OBVIOUS
<1>1. PICK name \in Seq(Chars) : name = SubSeq(file, m + 1, k)
  BY <1>0, Zenon
<1>2. PICK more \in Seq(Chars) : more = SubSeq(file, m + 1, k + 1)
  BY <1>0, Zenon
<1>3. PICK c \in Chars : c = file[k + 1]
  OBVIOUS
<1>4. Len(name) = k - m /\ Len(more) = k - m + 1
  BY <1>1, <1>2
<1>5. \A i \in 1 .. k - m + 1 : more[i] = file[m + i]
  BY <1>2
<1>6. \A i \in 1 .. k - m : name[i] = file[m + i]
  BY <1>1
<1>7. MaxToken \in Nat
  BY TemplateAssumption
<1>8. CASE Len(name) < MaxToken
  <2>1. Kept(name) = name
    BY <1>8, KeptIs
  <2>2. Kept(more) = more
    <3>1. Len(more) <= MaxToken
      BY <1>4, <1>7, <1>8
    <3>2. CASE Len(more) < MaxToken
      BY <3>2, KeptIs
    <3>3. CASE ~(Len(more) < MaxToken)
      <4>1. Len(more) = MaxToken
        BY <1>4, <1>7, <3>1, <3>3
      <4>2. Kept(more) = SubSeq(more, 1, Len(more))
        BY <3>3, <4>1 DEF Kept
      <4> QED
        BY <4>2, SubSeqFull
    <3> QED
      BY <3>2, <3>3
  <2>3. more = Append(name, c)
    <3>1. Append(name, c) \in Seq(Chars) /\ Len(Append(name, c)) = k - m + 1
      BY <1>4, AppendProperties
    <3>2. ASSUME NEW i \in 1 .. k - m + 1 PROVE more[i] = Append(name, c)[i]
      <4>1. CASE i = k - m + 1
        <5>1. m + i = k + 1
          BY <4>1
        <5>2. more[i] = c
          BY <1>3, <1>5, <5>1
        <5> QED
          BY <1>4, <4>1, <5>2, AppendProperties
      <4>2. CASE i # k - m + 1
        <5>1. i \in 1 .. k - m
          BY <4>2
        <5>2. more[i] = name[i]
          BY <1>5, <1>6, <5>1
        <5> QED
          BY <1>4, <5>1, <5>2, AppendProperties
      <4> QED
        BY <4>1, <4>2
    <3> QED
      BY <1>4, <3>1, <3>2, SeqEqual
  <2> QED
    BY <1>1, <1>2, <1>3, <1>8, <2>1, <2>2, <2>3, Zenon
<1>9. CASE ~(Len(name) < MaxToken)
  <2>1. Kept(name) = SubSeq(name, 1, MaxToken) /\ ~(Len(Kept(name)) < MaxToken)
    BY <1>9, KeptIs DEF Kept
  <2>2. ~(Len(more) < MaxToken) /\ MaxToken <= Len(name)
    BY <1>4, <1>7, <1>9
  <2>3. Kept(more) = SubSeq(more, 1, MaxToken)
    BY <2>2 DEF Kept
  <2>4. SubSeq(more, 1, MaxToken) = SubSeq(name, 1, MaxToken)
    <3>1. \A i \in 1 .. MaxToken : more[i] = name[i]
      BY <1>4, <1>5, <1>6, <1>7, <2>2
    <3> QED
      BY <1>4, <1>7, <2>2, <3>1
  <2> QED
    BY <1>1, <1>2, <1>3, <2>1, <2>3, <2>4, Zenon
<1> QED
  BY <1>8, <1>9

----------------------------------------------------------------------------
\* Each action keeps the invariant.

\* What the invariant says of the characters that were looked at, with their number.
LEMMA Seen ==
  ASSUME PageInv
  PROVE  \E k \in Nat : /\ k = pos - Len(buff) + x - 1 /\ k \in 0 .. Len(file)
                        /\ TokenInv(k) /\ OutputInv(k) /\ Flat(k) \in Seq(Piece)
                        /\ file \in Seq(Chars) /\ Waits \in Seq(Piece)
<1>1. PICK k \in Nat : SeenInv(k)
  BY DEF PageInv
<1>2. TypeOK /\ TextInv /\ BuffIsChunk /\ (inToken => sp = 0)
  BY <1>1 DEF PageInv, SeenInv, TokenInv
<1>3. file \in Seq(Chars) /\ Waits \in Seq(Piece)
  BY <1>2, WaitsType DEF TypeOK
<1>4. k \in 0 .. Len(file)
  <2>1. pos \in 0 .. Len(file) /\ Len(buff) \in Nat /\ x \in 1 .. Len(buff) + 1 /\ Len(file) \in Nat
    BY <1>2 DEF TypeOK
  <2>2. k = pos - Len(buff) + x - 1
    BY <1>1 DEF SeenInv
  <2> QED
    BY <2>1, <2>2
<1>5. Flat(k) \in Seq(Piece)
  BY <1>3, <1>4, FlatType
<1> QED
  BY <1>1, <1>3, <1>4, <1>5 DEF SeenInv

\* Nothing is looked at, and nothing waits before or after: Open, and Abort.
LEMMA IdleKeepsInv ==
  ASSUME PageInv, Open \/ Abort
  PROVE  PageInv'
<1>1. PICK k \in Nat : SeenInv(k)
  BY DEF PageInv
<1>2. /\ ~Running /\ call # "done" /\ call' \in {"waiting", "aborted"}
      /\ UNCHANGED <<file, pos, buff, x, e, sp, inToken, token, resume, part, output>>
  BY DEF Open, Abort, readVars, Running
<1>3. ~Running'
  BY <1>2 DEF Running
<1>4. TypeOK' /\ BuffIsChunk' /\ TextInv' /\ ResumeInv' /\ CallInv'
  BY <1>2, <1>3 DEF PageInv, TypeOK, BuffIsChunk, TextInv, ResumeInv, CallInv, More, CallsFor, Running
<1>5. Waits' = Waits
  BY <1>2, <1>3 DEF Waits
<1>6. TokenInv(k)'
  BY <1>1, <1>2, PageStays DEF SeenInv, TokenInv
<1>7. OutputInv(k)'
  BY <1>1, <1>2, <1>5, PageStays DEF SeenInv, OutputInv
<1>8. SeenInv(k)'
  BY <1>1, <1>2, <1>6, <1>7 DEF SeenInv
<1> QED
  BY <1>4, <1>8 DEF PageInv

\* The chunk is resumed.
LEMMA ResumeKeepsInv ==
  ASSUME PageInv, Call, resume
  PROVE  PageInv'
<1>1. PICK k \in Nat : SeenInv(k)
  BY DEF PageInv
<1>2. /\ ~Running /\ call' = "running" /\ inToken
      /\ UNCHANGED <<file, pos, buff, x, e, sp, inToken, token, resume, part, output>>
  BY DEF Call, Running, PageInv, ResumeInv
<1>3. Running' /\ sp = 0
  BY <1>1, <1>2 DEF Running, SeenInv, TokenInv
<1>4. TypeOK' /\ BuffIsChunk' /\ TextInv' /\ ResumeInv' /\ CallInv'
  BY <1>2, <1>3 DEF PageInv, TypeOK, BuffIsChunk, TextInv, ResumeInv, CallInv, More, CallsFor, Running
<1>5. Waits' = <<>> /\ Waits = <<>>
  <2>1. sp' = 0
    BY <1>2, <1>3
  <2>2. Pending' = <<>>
    BY <2>1 DEF Pending
  <2> QED
    BY <1>2, <1>3, <2>2 DEF Waits
<1>6. TokenInv(k)'
  BY <1>1, <1>2, PageStays DEF SeenInv, TokenInv
<1>7. OutputInv(k)'
  BY <1>1, <1>2, <1>5, PageStays DEF SeenInv, OutputInv
<1>8. SeenInv(k)'
  BY <1>1, <1>2, <1>6, <1>7 DEF SeenInv
<1> QED
  BY <1>4, <1>8 DEF PageInv

\* The next chunk is read; no character of it was looked at.
LEMMA ReadKeepsInv ==
  ASSUME PageInv, Call, ~resume
  PROVE  PageInv'
<1>1. PICK k \in Nat : SeenInv(k)
  BY DEF PageInv
<1>2. PICK n : /\ n = IF Len(file) - pos < Chunk THEN Len(file) - pos ELSE Chunk
               /\ buff' = SubSeq(file, pos + 1, pos + n) /\ pos' = pos + n
  BY DEF Call
<1>3. /\ ~Running /\ call # "done" /\ call' = "running" /\ x' = 1 /\ e' = 1 /\ sp' = 0
      /\ UNCHANGED <<file, inToken, token, resume, part, output>>
  BY DEF Call, Running
<1>4. Running'
  BY <1>3 DEF Running
<1>5. TypeOK /\ file \in Seq(Chars) /\ Len(file) \in Nat /\ pos \in 0 .. Len(file) /\ Chunk \in Nat \ {0}
  BY TemplateAssumption DEF PageInv, TypeOK
<1>6. n \in Nat /\ n <= Chunk /\ pos + n \in 0 .. Len(file) /\ (n < Chunk => pos + n = Len(file))
  BY <1>2, <1>5
<1>7. /\ buff' \in Seq(Chars) /\ Len(buff') = n
      /\ \A j \in 1 .. n : buff'[j] = file[pos + j]
  BY <1>2, <1>5, <1>6
<1>8. TypeOK'
  BY <1>2, <1>3, <1>5, <1>6, <1>7 DEF TypeOK
<1>9. BuffIsChunk'
  <2>1. Len(buff') <= pos' /\ pos' - Len(buff') = pos
    BY <1>2, <1>5, <1>6, <1>7
  <2> QED
    BY <1>3, <1>7, <2>1 DEF BuffIsChunk
<1>10. TextInv' /\ ResumeInv' /\ CallInv'
  <2>1. TextInv'
    BY <1>3 DEF TextInv
  <2>2. ResumeInv'
    BY <1>3 DEF PageInv, ResumeInv
  <2>3. CallInv'
    BY <1>2, <1>3, <1>4, <1>6, <1>7 DEF CallInv
  <2> QED
    BY <2>1, <2>2, <2>3
<1>11. Waits' = <<>> /\ Waits = <<>>
  <2>1. Pending' = <<>>
    BY <1>3 DEF Pending
  <2> QED
    BY <1>3, <1>4, <2>1 DEF Waits
<1>12. TokenInv(k)'
  BY <1>1, <1>3, PageStays DEF SeenInv, TokenInv
<1>13. OutputInv(k)'
  BY <1>1, <1>3, <1>11, PageStays DEF SeenInv, OutputInv
<1>14. SeenInv(k)'
  <2>1. k = pos
    <3>1. x = Len(buff) + 1
      BY <1>3 DEF PageInv, CallInv
    <3>2. Len(buff) \in Nat
      BY <1>5 DEF TypeOK
    <3> QED
      BY <1>1, <1>5, <3>1, <3>2 DEF SeenInv
  <2>2. k = pos' - Len(buff') + x' - 1
    BY <1>2, <1>3, <1>5, <1>6, <1>7, <2>1
  <2> QED
    BY <1>12, <1>13, <2>2 DEF SeenInv
<1> QED
  BY <1>8, <1>9, <1>10, <1>14 DEF PageInv

\* A character of text is looked at.
LEMMA TextKeepsInv ==
  ASSUME PageInv, Text
  PROVE  PageInv'
<1>1. PICK k \in Nat : SeenInv(k)
  BY DEF PageInv
<1>2. /\ Running /\ More /\ ~inToken /\ buff[x] # "%" /\ sp' = sp + 1 /\ x' = x + 1
      /\ UNCHANGED <<file, pos, buff, call, e, inToken, token, resume, part, output>>
  BY DEF Text, readVars
<1>3. TypeOK /\ BuffIsChunk /\ TextInv /\ ResumeInv /\ CallInv /\ k = pos - Len(buff) + x - 1
  BY <1>1 DEF PageInv, SeenInv
<1>4. /\ k + 1 <= Len(file) /\ file[k + 1] = buff[x] /\ buff[x] \in Chars
      /\ k + 1 = pos - Len(buff) + (x + 1) - 1
  BY <1>2, <1>3, NextChar
<1>5. x \in 1 .. Len(buff) /\ Len(buff) \in Nat /\ e + sp = x /\ e \in Nat \ {0} /\ sp \in Nat
      /\ file \in Seq(Chars)
  BY <1>2, <1>3 DEF TypeOK, More, TextInv
<1>6. ~resume /\ part = 0 /\ FirstParts(token, part) = <<>>
  BY <1>2, <1>3, NoPart
<1>7. TypeOK'
  <2>1. x + 1 \in 1 .. Len(buff) + 1 /\ sp + 1 \in 0 .. Len(buff)
    BY <1>5
  <2> QED
    BY <1>2, <1>3, <2>1 DEF TypeOK
<1>8. BuffIsChunk' /\ TextInv' /\ ResumeInv' /\ CallInv'
  <2>1. BuffIsChunk'
    BY <1>2, <1>3 DEF BuffIsChunk
  <2>2. TextInv'
    BY <1>2, <1>5 DEF TextInv
  <2>3. ResumeInv'
    BY <1>2, <1>6 DEF ResumeInv
  <2>4. CallInv'
    BY <1>2, <1>3, <1>6 DEF CallInv, Running
  <2> QED
    BY <2>1, <2>2, <2>3, <2>4
<1>9. TokenInv(k + 1)'
  <2>1. ~InToken(k)
    BY <1>1, <1>2 DEF SeenInv, TokenInv
  <2>2. ~InToken(k + 1)
    BY <1>2, <1>4, <2>1, SignsNext
  <2>3. k + 1 \in Nat
    OBVIOUS
  <2>4. ~(InToken(k + 1))'
    BY <1>2, <2>2, <2>3, PageStays
  <2> QED
    BY <1>2, <2>4 DEF TokenInv
<1>10. OutputInv(k + 1)'
  <2>1. PICK p \in Piece : p = Plain(buff[x])
    <3>1. Plain(buff[x]) \in Piece
      BY <1>4 DEF Plain, Piece
    <3> QED
      BY <3>1
  <2>2. /\ Flat(k) \in Seq(Piece) /\ Flat(k + 1) = Flat(k) \o Contribution(k + 1)
        /\ Contribution(k + 1) = <<p>>
    <3>1. ~InToken(k)
      BY <1>1, <1>2 DEF SeenInv, TokenInv
    <3>2. Contribution(k + 1) = <<p>>
      BY <1>2, <1>4, <2>1, <3>1, ContributionIs
    <3> QED
      BY <1>4, <1>5, <3>2, FlatNext
  <2>3. PICK w \in Seq(Piece) : w = Pending
    BY <1>2, <1>3, PendingType
  <2>4. Pending' = Append(w, p)
    <3>1. Len(w) = sp
      BY <1>2, <1>3, <2>3, PendingType
    <3>2. \A i \in 1 .. sp : w[i] = Plain(buff[e + i - 1])
      BY <2>3 DEF Pending
    <3>3. Append(w, p) = [i \in 1 .. sp + 1 |-> Plain(buff[e + i - 1])]
      <4>1. Append(w, p) = [i \in 1 .. sp + 1 |-> Append(w, p)[i]]
        <5>1. PICK q \in Seq(Piece) : q = Append(w, p)
          BY AppendProperties
        <5>2. Len(q) = sp + 1
          BY <3>1, <5>1, AppendProperties
        <5>3. q = [i \in 1 .. Len(q) |-> q[i]]
          OBVIOUS
        <5> QED
          BY <5>1, <5>2, <5>3, Zenon
      <4>2. ASSUME NEW i \in 1 .. sp + 1 PROVE Append(w, p)[i] = Plain(buff[e + i - 1])
        <5>1. CASE i = sp + 1
          <6>1. e + i - 1 = x
            BY <1>5, <5>1
          <6> QED
            BY <2>1, <3>1, <5>1, <6>1, AppendProperties
        <5>2. CASE i # sp + 1
          BY <1>5, <3>1, <3>2, <5>2, AppendProperties
        <5> QED
          BY <5>1, <5>2
      <4> QED
        BY <4>1, <4>2
    <3> QED
      BY <1>2, <3>3 DEF Pending
  <2>5. Waits = w /\ Waits' = Append(w, p)
    BY <1>2, <2>3, <2>4 DEF Waits, Running
  <2>6. output \in Seq(Piece) /\ output \o w = Flat(k) \o <<>>
    BY <1>1, <1>6, <2>5 DEF SeenInv, OutputInv
  <2>7. output \o Append(w, p) = (Flat(k) \o <<p>>) \o <<>>
    <3>1. PICK o \in Seq(Piece), f \in Seq(Piece) : o = output /\ f = Flat(k)
      BY <2>2, <2>6, Zenon
    <3>2. f \o <<>> = f /\ o \o Append(w, p) = (o \o w) \o <<p>> /\ (f \o <<p>>) \o <<>> = f \o <<p>>
      OBVIOUS
    <3> QED
      BY <2>6, <3>1, <3>2, Zenon
  <2>8. Flat(k + 1)' = Flat(k) \o <<p>>
    <3>1. k + 1 \in Nat
      OBVIOUS
    <3> QED
      BY <1>2, <2>2, <3>1, PageStays
  <2>9. FirstParts(token, part)' = <<>>
    BY <1>2, <1>6
  <2> QED
    BY <1>2, <2>5, <2>6, <2>7, <2>8, <2>9 DEF OutputInv
<1>11. k + 1 \in Nat /\ SeenInv(k + 1)'
  BY <1>2, <1>4, <1>9, <1>10 DEF SeenInv
<1> QED
  BY <1>7, <1>8, <1>11 DEF PageInv

\* A token begins: what waited is sent.
LEMMA TokenBeginsKeepsInv ==
  ASSUME PageInv, TokenBegins
  PROVE  PageInv'
<1>1. PICK k \in Nat : SeenInv(k)
  BY DEF PageInv
<1>2. /\ Running /\ More /\ ~inToken /\ buff[x] = "%"
      /\ output' = output \o Pending /\ sp' = 0 /\ inToken' = TRUE /\ token' = <<>> /\ x' = x + 1
      /\ UNCHANGED <<file, pos, buff, call, e, resume, part>>
  BY DEF TokenBegins, readVars
<1>3. TypeOK /\ BuffIsChunk /\ TextInv /\ ResumeInv /\ CallInv /\ k = pos - Len(buff) + x - 1
  BY <1>1 DEF PageInv, SeenInv
<1>4. /\ k + 1 <= Len(file) /\ file[k + 1] = "%"
      /\ k + 1 = pos - Len(buff) + (x + 1) - 1
  BY <1>2, <1>3, NextChar
<1>5. x \in 1 .. Len(buff) /\ Len(buff) \in Nat /\ file \in Seq(Chars) /\ k + 1 \in Nat
  BY <1>2, <1>3 DEF TypeOK, More
<1>6. ~resume /\ part = 0 /\ FirstParts(token, part) = <<>>
  BY <1>2, <1>3, NoPart
<1>7. ~InToken(k) /\ InToken(k + 1) /\ Signs(k + 1) = Signs(k) \cup {k + 1}
  <2>1. ~InToken(k)
    BY <1>1, <1>2 DEF SeenInv, TokenInv
  <2> QED
    BY <1>4, <2>1, SignsNext
<1>8. TypeOK'
  <2>1. x + 1 \in 1 .. Len(buff) + 1 /\ 0 \in 0 .. Len(buff)
    BY <1>5
  <2>2. <<>> \in Seq(Letters) /\ Len(<<>>) <= MaxToken
    BY TemplateAssumption
  <2> QED
    BY <1>2, <1>3, <2>1, <2>2 DEF TypeOK
<1>9. BuffIsChunk' /\ TextInv' /\ ResumeInv' /\ CallInv'
  <2>1. BuffIsChunk'
    BY <1>2, <1>3 DEF BuffIsChunk
  <2>2. TextInv'
    BY <1>2 DEF TextInv
  <2>3. ResumeInv'
    BY <1>2, <1>6 DEF ResumeInv
  <2>4. CallInv'
    BY <1>2, <1>3, <1>6 DEF CallInv, Running
  <2> QED
    BY <2>1, <2>2, <2>3, <2>4
<1>10. TokenInv(k + 1)'
  <2>1. LastSign(k + 1, k + 1)
    BY <1>7, SignsType DEF LastSign
  <2>2. Kept(SubSeq(file, (k + 1) + 1, k + 1)) = <<>>
    <3>1. SubSeq(file, (k + 1) + 1, k + 1) = <<>>
      BY <1>5
    <3>2. <<>> \in Seq(Chars)
      OBVIOUS
    <3>3. Kept(<<>>) = <<>>
      BY <3>2, KeptIs
    <3> QED
      BY <3>1, <3>3, Zenon
  <2>3. (InToken(k + 1))' /\ LastSign(k + 1, k + 1)'
    BY <1>2, <1>5, <1>7, <2>1, PageStays
  <2>4. k + 1 \in 1 .. k + 1
    BY <1>5
  <2>5. token' = Kept(SubSeq(file', (k + 1) + 1, k + 1))
    BY <1>2, <2>2
  <2> QED
    BY <1>2, <2>3, <2>4, <2>5 DEF TokenInv
<1>11. OutputInv(k + 1)'
  <2>1. /\ Flat(k) \in Seq(Piece) /\ Flat(k + 1) = Flat(k) \o <<>>
    <3>1. Contribution(k + 1) = <<>>
      BY <1>4, <1>7, ContributionIs
    <3> QED
      BY <1>4, <1>5, <3>1, FlatNext
  <2>2. Pending \in Seq(Piece) /\ Waits = Pending
    BY <1>2, <1>3, PendingType DEF Waits
  <2>3. Waits' = <<>>
    <3>1. Pending' = <<>>
      BY <1>2 DEF Pending
    <3> QED
      BY <3>1 DEF Waits
  <2>4. output \in Seq(Piece) /\ output \o Pending = Flat(k) \o <<>>
    BY <1>1, <1>6, <2>2 DEF SeenInv, OutputInv
  <2>5. output \o Pending \in Seq(Piece) /\ (output \o Pending) \o <<>> = (Flat(k) \o <<>>) \o <<>>
    <3>1. PICK o \in Seq(Piece), w \in Seq(Piece), f \in Seq(Piece) : o = output /\ w = Pending /\ f = Flat(k)
      BY <2>1, <2>2, <2>4, Zenon
    <3>2. o \o w \in Seq(Piece)
      OBVIOUS
    <3> QED
      BY <2>4, <3>1, <3>2, Zenon
  <2>6. Flat(k + 1)' = Flat(k) \o <<>>
    BY <1>2, <1>5, <2>1, PageStays
  <2>7. FirstParts(token, part)' = <<>>
    BY <1>2, <1>6 DEF FirstParts
  <2> QED
    BY <1>2, <2>3, <2>5, <2>6, <2>7, Zenon DEF OutputInv
<1>12. SeenInv(k + 1)'
  BY <1>2, <1>4, <1>10, <1>11 DEF SeenInv
<1> QED
  BY <1>5, <1>8, <1>9, <1>12 DEF PageInv

\* A character of a token is looked at.
LEMMA TokenCharKeepsInv ==
  ASSUME PageInv, TokenChar
  PROVE  PageInv'
<1>1. PICK k \in Nat : SeenInv(k)
  BY DEF PageInv
<1>2. /\ Running /\ More /\ inToken /\ buff[x] # "%"
      /\ token' = IF Len(token) < MaxToken THEN Append(token, buff[x]) ELSE token
      /\ x' = x + 1
      /\ UNCHANGED <<file, pos, buff, call, e, sp, inToken, resume, part, output>>
  BY DEF TokenChar, readVars
<1>3. TypeOK /\ BuffIsChunk /\ TextInv /\ ResumeInv /\ CallInv /\ k = pos - Len(buff) + x - 1
  BY <1>1 DEF PageInv, SeenInv
<1>4. /\ k + 1 <= Len(file) /\ file[k + 1] = buff[x] /\ buff[x] \in Chars
      /\ k + 1 = pos - Len(buff) + (x + 1) - 1
  BY <1>2, <1>3, NextChar
<1>5. x \in 1 .. Len(buff) /\ Len(buff) \in Nat /\ file \in Seq(Chars) /\ k + 1 \in Nat
  BY <1>2, <1>3 DEF TypeOK, More
<1>6. ~resume /\ part = 0 /\ FirstParts(token, part) = <<>>
  BY <1>2, <1>3, NoPart
<1>7. InToken(k) /\ InToken(k + 1) /\ Signs(k + 1) = Signs(k) /\ sp = 0
  <2>1. InToken(k) /\ sp = 0
    BY <1>1, <1>2 DEF SeenInv, TokenInv
  <2> QED
    BY <1>2, <1>4, <2>1, SignsNext
<1>8. TypeOK'
  <2>1. x + 1 \in 1 .. Len(buff) + 1
    BY <1>5
  <2>2. buff[x] \in Letters
    BY <1>2, <1>4 DEF Chars
  <2>3. token' \in Seq(Letters) /\ Len(token') <= MaxToken
    <3>1. token \in Seq(Letters) /\ Len(token) <= MaxToken /\ MaxToken \in Nat
      BY <1>3, TemplateAssumption DEF TypeOK
    <3>2. Append(token, buff[x]) \in Seq(Letters) /\ Len(Append(token, buff[x])) = Len(token) + 1
      BY <2>2, <3>1, AppendProperties
    <3> QED
      BY <1>2, <3>1, <3>2
  <2> QED
    BY <1>2, <1>3, <2>1, <2>3 DEF TypeOK
<1>9. BuffIsChunk' /\ TextInv' /\ ResumeInv' /\ CallInv'
  <2>1. BuffIsChunk'
    BY <1>2, <1>3 DEF BuffIsChunk
  <2>2. TextInv'
    BY <1>2 DEF TextInv
  <2>3. ResumeInv'
    BY <1>2, <1>6 DEF ResumeInv
  <2>4. CallInv'
    BY <1>2, <1>3, <1>6 DEF CallInv, Running
  <2> QED
    BY <2>1, <2>2, <2>3, <2>4
<1>10. TokenInv(k + 1)'
  <2>1. PICK m \in 1 .. k : LastSign(m, k) /\ token = Kept(SubSeq(file, m + 1, k))
    BY <1>1, <1>2 DEF SeenInv, TokenInv
  <2>2. LastSign(m, k + 1) /\ m \in 1 .. k + 1
    BY <1>7, <2>1 DEF LastSign
  <2>3. Kept(SubSeq(file, m + 1, k + 1)) =
          IF Len(token) < MaxToken THEN Append(token, buff[x]) ELSE token
    BY <1>4, <1>5, <2>1, KeptNext, Zenon
  <2>4. (InToken(k + 1))' /\ LastSign(m, k + 1)'
    BY <1>2, <1>5, <1>7, <2>2, PageStays
  <2>5. token' = Kept(SubSeq(file', m + 1, k + 1))
    BY <1>2, <2>3, Zenon
  <2> QED
    BY <1>2, <1>7, <2>2, <2>4, <2>5 DEF TokenInv
<1>11. OutputInv(k + 1)'
  <2>1. /\ Flat(k) \in Seq(Piece) /\ Flat(k + 1) = Flat(k) \o <<>>
    <3>1. Contribution(k + 1) = <<>>
      BY <1>2, <1>4, <1>7, ContributionIs
    <3> QED
      BY <1>4, <1>5, <3>1, FlatNext
  <2>2. Waits = <<>> /\ Waits' = <<>>
    <3>1. Pending = <<>> /\ Pending' = <<>>
      BY <1>2, <1>7 DEF Pending
    <3> QED
      BY <3>1 DEF Waits
  <2>3. output \in Seq(Piece) /\ output \o <<>> = Flat(k) \o <<>>
    BY <1>1, <1>6, <2>2 DEF SeenInv, OutputInv
  <2>4. (Flat(k) \o <<>>) \o <<>> = Flat(k) \o <<>>
    BY <2>1
  <2>5. Flat(k + 1)' = Flat(k) \o <<>>
    BY <1>2, <1>5, <2>1, PageStays
  <2>6. FirstParts(token, part)' = <<>>
    BY <1>2, <1>6 DEF FirstParts
  <2> QED
    BY <1>2, <2>2, <2>3, <2>4, <2>5, <2>6, Zenon DEF OutputInv
<1>12. SeenInv(k + 1)'
  BY <1>2, <1>4, <1>10, <1>11 DEF SeenInv
<1> QED
  BY <1>5, <1>8, <1>9, <1>12 DEF PageInv

\* A piece behind two sequences, or behind the second.
LEMMA AppendBehind ==
  ASSUME NEW f \in Seq(Piece), NEW r \in Seq(Piece), NEW p \in Piece
  PROVE  /\ f \o <<>> = f /\ Append(f, p) \in Seq(Piece) /\ Append(f, p) \o <<>> = Append(f, p)
         /\ Append(f \o r, p) = f \o Append(r, p)
         /\ (f \o Append(r, p)) \o <<>> = f \o Append(r, p)
<1>1. f \o <<>> = f
  OBVIOUS
<1>2. Append(f, p) \in Seq(Piece) /\ Append(f, p) \o <<>> = Append(f, p)
  OBVIOUS
<1>3. PICK g \in Seq(Piece), b \in Seq(Piece) : g = Append(r, p) /\ b = <<p>>
  <2>1. Append(r, p) \in Seq(Piece) /\ <<p>> \in Seq(Piece)
    OBVIOUS
  <2> QED
    BY <2>1, Zenon
<1>4. g = r \o b
  BY <1>3
<1>5. f \o (r \o b) = (f \o r) \o b
  OBVIOUS
<1>6. (f \o r) \o b = Append(f \o r, p)
  BY <1>3
<1>7. f \o g \in Seq(Piece) /\ (f \o g) \o <<>> = f \o g
  OBVIOUS
<1> QED
  BY <1>1, <1>2, <1>3, <1>4, <1>5, <1>6, <1>7, Zenon

\* What the sign that ends a token contributes, said with the token that was collected.
LEMMA EndingSign ==
  ASSUME TypeOK, NEW k \in Nat, TokenInv(k), inToken, k + 1 <= Len(file), file[k + 1] = "%"
  PROVE  /\ ~InToken(k + 1) /\ token \in Seq(Chars)
         /\ token = <<>> => Contribution(k + 1) = <<Plain("%")>>
         /\ token # <<>> => /\ Contribution(k + 1) = FirstParts(token, CallsFor(token))
                            /\ CallsFor(token) \in 1 .. MaxParts
<1>1. PICK m \in 1 .. k : LastSign(m, k) /\ token = Kept(SubSeq(file, m + 1, k))
  BY DEF TokenInv
<1>2. InToken(k)
  BY DEF TokenInv
<1>3. SubSeq(file, m + 1, k) \in Seq(Chars)
  BY DEF TypeOK
<1>4. PICK name \in Seq(Chars) : name = SubSeq(file, m + 1, k)
  BY <1>3, Zenon
<1>5. Contribution(k + 1) = Replacement(name)
  BY <1>1, <1>2, <1>4, ContributionIs, Zenon
<1>6. /\ token = Kept(name) /\ Kept(name) \in Seq(Chars) /\ (Kept(name) = <<>> <=> name = <<>>)
      /\ name # <<>> => CallsFor(Kept(name)) \in 1 .. MaxParts
  BY <1>1, <1>4, KeptIs
<1>7. name = <<>> => Replacement(name) = <<Plain("%")>>
  BY Zenon DEF Replacement
<1>8. name # <<>> => Replacement(name) = FirstParts(Kept(name), CallsFor(Kept(name)))
  BY ReplacementIs
<1>9. ~InToken(k + 1)
  BY <1>2, SignsNext
<1> QED
  BY <1>5, <1>6, <1>7, <1>8, <1>9, Zenon

\* Of a token that ends not all parts were sent, and none of one that is empty.
LEMMA PartsLeft ==
  ASSUME TypeOK, ResumeInv, token # <<>> => CallsFor(token) \in 1 .. MaxParts
  PROVE  /\ part \in Nat /\ (token # <<>> => part < CallsFor(token) /\ part + 1 <= MaxParts)
         /\ token = <<>> => part = 0
<1>1. part \in Nat /\ MaxParts \in Nat
  BY TemplateAssumption DEF TypeOK
<1>2. CASE resume
  BY <1>1, <1>2 DEF ResumeInv
<1>3. CASE ~resume
  BY <1>1, <1>3 DEF ResumeInv
<1> QED
  BY <1>2, <1>3

\* A token ends: what is sent for it, of what it contributes, was all of it.
LEMMA TokenEndKeepsInv ==
  ASSUME PageInv, Escape \/ Substitute
  PROVE  PageInv'
<1>1. PICK k \in Nat : SeenInv(k)
  BY DEF PageInv
<1>2. /\ Running /\ More /\ inToken /\ buff[x] = "%"
      /\ e' = x + 1 /\ x' = x + 1 /\ inToken' = FALSE
      /\ UNCHANGED <<file, pos, buff, call, sp, token>>
  BY DEF Escape, Substitute, TokenEnds, readVars
<1>3. TypeOK /\ BuffIsChunk /\ TextInv /\ ResumeInv /\ CallInv /\ TokenInv(k)
      /\ k = pos - Len(buff) + x - 1
  BY <1>1 DEF PageInv, SeenInv
<1>4. /\ k + 1 <= Len(file) /\ file[k + 1] = "%"
      /\ k + 1 = pos - Len(buff) + (x + 1) - 1
  BY <1>2, <1>3, NextChar
<1>5. x \in 1 .. Len(buff) /\ Len(buff) \in Nat /\ file \in Seq(Chars) /\ k + 1 \in Nat
  BY <1>2, <1>3 DEF TypeOK, More
<1>6. /\ ~InToken(k + 1) /\ token \in Seq(Chars)
      /\ token = <<>> => Contribution(k + 1) = <<Plain("%")>>
      /\ token # <<>> => /\ Contribution(k + 1) = FirstParts(token, CallsFor(token))
                         /\ CallsFor(token) \in 1 .. MaxParts
  BY <1>2, <1>3, <1>4, EndingSign
<1>7. /\ part \in Nat /\ (token # <<>> => part < CallsFor(token))
      /\ token = <<>> => part = 0
  BY <1>3, <1>6, PartsLeft
<1>8. sp = 0
  BY <1>2, <1>3 DEF TokenInv
<1>9. ~resume' /\ part' = 0
  <2>1. CASE Escape
    <3>1. ~resume /\ part = 0
      BY <1>3, <2>1, NoPart DEF Escape
    <3> QED
      BY <2>1, <3>1 DEF Escape
  <2>2. CASE Substitute
    BY <2>2 DEF Substitute
  <2> QED
    BY <2>1, <2>2
<1>10. TypeOK'
  <2>1. x + 1 \in 1 .. Len(buff) + 1 /\ 0 \in 0 .. MaxParts
    BY <1>5, TemplateAssumption
  <2>2. resume' \in BOOLEAN
    BY <1>3 DEF TypeOK, Escape, Substitute
  <2> QED
    BY <1>2, <1>3, <1>9, <2>1, <2>2 DEF TypeOK
<1>11. BuffIsChunk' /\ TextInv' /\ ResumeInv' /\ CallInv'
  <2>1. BuffIsChunk'
    BY <1>2, <1>3 DEF BuffIsChunk
  <2>2. TextInv'
    BY <1>2, <1>5, <1>8 DEF TextInv
  <2>3. ResumeInv'
    BY <1>9 DEF ResumeInv
  <2>4. CallInv'
    BY <1>2, <1>3, <1>9 DEF CallInv, Running
  <2> QED
    BY <2>1, <2>2, <2>3, <2>4
<1>12. TokenInv(k + 1)'
  BY <1>2, <1>5, <1>6, PageStays DEF TokenInv
<1>13. OutputInv(k + 1)'
  <2>1. /\ Flat(k) \in Seq(Piece) /\ Flat(k + 1) = Flat(k) \o Contribution(k + 1)
        /\ Contribution(k + 1) \in Seq(Piece)
    BY <1>4, <1>5, FlatNext
  <2>2. Waits = <<>> /\ Waits' = <<>>
    <3>1. Pending = <<>> /\ Pending' = <<>>
      BY <1>2, <1>8 DEF Pending
    <3> QED
      BY <3>1 DEF Waits
  <2>3. output \in Seq(Piece) /\ output \o <<>> = Flat(k) \o FirstParts(token, part)
    BY <1>1, <2>2 DEF SeenInv, OutputInv
  <2>4. PICK o \in Seq(Piece), f \in Seq(Piece), r \in Seq(Piece) :
          o = output /\ f = Flat(k) /\ r = FirstParts(token, part)
    <3>1. FirstParts(token, part) \in Seq(Piece)
      BY <1>6, <1>7, PartsType
    <3> QED
      BY <2>1, <2>3, <3>1, Zenon
  <2>5. PICK p \in Piece : output' = Append(o, p) /\ Contribution(k + 1) = Append(r, p)
    <3>1. CASE Escape
      <4>1. /\ output' = Append(output, Plain("%")) /\ token = <<>>
        BY <3>1 DEF Escape
      <4>2. Plain("%") \in Piece
        BY DEF Plain, Piece, Chars
      <4>3. r = <<>>
        <5>1. r = FirstParts(token, 0)
          BY <1>7, <2>4, <4>1
        <5> QED
          BY <1>6, <5>1, PartsType
      <4>4. Append(<<>>, Plain("%")) = <<Plain("%")>>
        OBVIOUS
      <4> QED
        BY <1>6, <2>4, <4>1, <4>2, <4>3, <4>4, Zenon
    <3>2. CASE Substitute
      <4>1. output' = Append(output, Part(token, part + 1)) /\ token # <<>> /\ part + 1 >= CallsFor(token)
        BY <3>2 DEF Substitute
      <4>2. CallsFor(token) = part + 1 /\ part + 1 \in Nat
        BY <1>6, <1>7, <4>1
      <4>3. /\ FirstParts(token, part + 1) = Append(FirstParts(token, part), Part(token, part + 1))
            /\ Part(token, part + 1) \in Piece
        BY <1>6, <1>7, <4>2, PartsType
      <4> QED
        BY <1>6, <2>4, <4>1, <4>2, <4>3, Zenon
    <3> QED
      BY <3>1, <3>2
  <2>6. o \o <<>> = o /\ Append(f \o r, p) = f \o Append(r, p) /\ Append(o, p) \in Seq(Piece)
        /\ Append(o, p) \o <<>> = Append(o, p) /\ (f \o Append(r, p)) \o <<>> = f \o Append(r, p)
    <3>1. o \o <<>> = o /\ Append(o, p) \in Seq(Piece) /\ Append(o, p) \o <<>> = Append(o, p)
      BY AppendBehind
    <3>2. Append(f \o r, p) = f \o Append(r, p) /\ (f \o Append(r, p)) \o <<>> = f \o Append(r, p)
      BY AppendBehind, Zenon
    <3> QED
      BY <3>1, <3>2, Zenon
  <2>7. Flat(k + 1)' = f \o Append(r, p)
    <3>1. Flat(k + 1)' = Flat(k + 1)
      BY <1>2, <1>5, PageStays
    <3> QED
      BY <2>1, <2>4, <2>5, <3>1, Zenon
  <2>8. FirstParts(token, part)' = <<>>
    BY <1>9 DEF FirstParts
  <2>9. output' = f \o Append(r, p)
    BY <2>3, <2>4, <2>5, <2>6, Zenon
  <2>10. output' \in Seq(Piece)
    BY <2>5, <2>6, Zenon
  <2>11. output' \o <<>> = Flat(k + 1)' \o <<>>
    BY <2>7, <2>9, Zenon
  <2> QED
    BY <2>2, <2>8, <2>10, <2>11, Zenon DEF OutputInv
<1>14. SeenInv(k + 1)'
  BY <1>2, <1>4, <1>12, <1>13 DEF SeenInv
<1> QED
  BY <1>5, <1>10, <1>11, <1>14 DEF PageInv

\* A part is sent, and the chunk is to be resumed.
LEMMA PauseKeepsInv ==
  ASSUME PageInv, Pause
  PROVE  PageInv'
<1>1. PICK k \in Nat : SeenInv(k)
  BY DEF PageInv
<1>2. /\ Running /\ More /\ inToken /\ buff[x] = "%" /\ token # <<>>
      /\ part + 1 < CallsFor(token) /\ output' = Append(output, Part(token, part + 1))
      /\ resume' = TRUE /\ part' = part + 1 /\ call' = "waiting"
      /\ UNCHANGED <<file, pos, buff, x, e, sp, inToken, token>>
  BY DEF Pause, readVars
<1>3. TypeOK /\ BuffIsChunk /\ TextInv /\ ResumeInv /\ CallInv /\ TokenInv(k)
      /\ k = pos - Len(buff) + x - 1
  BY <1>1 DEF PageInv, SeenInv
<1>4. /\ k + 1 <= Len(file) /\ file[k + 1] = "%"
  BY <1>2, <1>3, NextChar
<1>5. token \in Seq(Chars) /\ CallsFor(token) \in 1 .. MaxParts
  BY <1>2, <1>3, <1>4, EndingSign
<1>6. part \in Nat /\ part + 1 <= MaxParts
  BY <1>2, <1>3, <1>5, PartsLeft
<1>7. sp = 0 /\ ~Running'
  BY <1>2, <1>3 DEF TokenInv, Running
<1>8. TypeOK'
  <2>1. part + 1 \in 0 .. MaxParts
    BY <1>5, <1>6
  <2> QED
    BY <1>2, <1>3, <2>1 DEF TypeOK
<1>9. BuffIsChunk' /\ TextInv' /\ ResumeInv' /\ CallInv'
  <2>1. BuffIsChunk'
    BY <1>2, <1>3 DEF BuffIsChunk
  <2>2. TextInv'
    BY <1>7 DEF TextInv
  <2>3. ResumeInv'
    <3>1. More' /\ CallsFor(token)' = CallsFor(token)
      BY <1>2 DEF More, CallsFor
    <3> QED
      BY <1>2, <3>1 DEF ResumeInv
  <2>4. CallInv'
    BY <1>2, <1>3, <1>7 DEF CallInv
  <2> QED
    BY <2>1, <2>2, <2>3, <2>4
<1>10. TokenInv(k)'
  BY <1>2, <1>3, PageStays DEF TokenInv
<1>11. OutputInv(k)'
  <2>1. Waits = <<>> /\ Waits' = <<>>
    <3>1. Pending = <<>>
      BY <1>2, <1>7 DEF Pending
    <3> QED
      BY <1>7, <3>1 DEF Waits
  <2>2. output \in Seq(Piece) /\ output \o <<>> = Flat(k) \o FirstParts(token, part)
    BY <1>1, <2>1 DEF SeenInv, OutputInv
  <2>3. PICK o \in Seq(Piece), f \in Seq(Piece), r \in Seq(Piece), p \in Piece :
          o = output /\ f = Flat(k) /\ r = FirstParts(token, part) /\ p = Part(token, part + 1)
    <3>1. FirstParts(token, part) \in Seq(Piece)
      BY <1>5, <1>6, PartsType
    <3>2. part + 1 \in Nat
      BY <1>6
    <3>3. Part(token, part + 1) \in Piece
      BY <1>5, <3>2, PartsType
    <3>4. Flat(k) \in Seq(Piece)
      <4>1. k \in 0 .. Len(file) /\ file \in Seq(Chars)
        BY <1>3, <1>4 DEF TypeOK
      <4> QED
        BY <4>1, FlatType
    <3> QED
      BY <2>2, <3>1, <3>3, <3>4, Zenon
  <2>4. o \o <<>> = o /\ Append(f \o r, p) = f \o Append(r, p) /\ Append(o, p) \in Seq(Piece)
        /\ Append(o, p) \o <<>> = Append(o, p)
    <3>1. o \o <<>> = o /\ Append(o, p) \in Seq(Piece) /\ Append(o, p) \o <<>> = Append(o, p)
      BY AppendBehind
    <3>2. Append(f \o r, p) = f \o Append(r, p)
      BY AppendBehind, Zenon
    <3> QED
      BY <3>1, <3>2, Zenon
  <2>5. FirstParts(token, part + 1) = Append(r, p)
    BY <1>5, <1>6, <2>3, PartsType
  <2>6. output' = Append(o, p) /\ FirstParts(token, part)' = Append(r, p)
    BY <1>2, <2>3, <2>5 DEF FirstParts
  <2>7. Flat(k)' = f
    BY <1>2, <2>3, PageStays
  <2>8. output' \in Seq(Piece) /\ output' \o <<>> = f \o Append(r, p)
    BY <2>2, <2>3, <2>4, <2>6, Zenon
  <2> QED
    BY <2>1, <2>6, <2>7, <2>8, Zenon DEF OutputInv
<1>12. SeenInv(k)'
  BY <1>1, <1>2, <1>10, <1>11 DEF SeenInv
<1> QED
  BY <1>8, <1>9, <1>12 DEF PageInv

\* The rest of the chunk is sent.
LEMMA EndOfChunkKeepsInv ==
  ASSUME PageInv, EndOfChunk
  PROVE  PageInv'
<1>1. PICK k \in Nat : SeenInv(k)
  BY DEF PageInv
<1>2. /\ Running /\ ~More /\ output' = output \o Pending
      /\ call' = (IF Len(buff) = Chunk THEN "waiting" ELSE "done")
      /\ UNCHANGED <<file, pos, buff, x, e, sp, inToken, token, resume, part>>
  BY DEF EndOfChunk, readVars
<1>3. TypeOK /\ BuffIsChunk /\ TextInv /\ ResumeInv /\ CallInv /\ TokenInv(k)
  BY <1>1 DEF PageInv, SeenInv
<1>4. ~Running' /\ ~resume /\ part = 0 /\ FirstParts(token, part) = <<>>
  BY <1>2, <1>3, NoPart DEF Running
<1>5. x = Len(buff) + 1 /\ Len(buff) <= Chunk /\ Chunk \in Nat /\ Len(buff) \in Nat
  BY <1>2, <1>3, TemplateAssumption DEF TypeOK, More
<1>6. TypeOK' /\ BuffIsChunk' /\ TextInv' /\ ResumeInv'
  BY <1>2, <1>3, <1>4 DEF TypeOK, BuffIsChunk, TextInv, ResumeInv
<1>7. CallInv'
  <2>1. call' = "done" => pos = Len(file)
    <3>1. call' = "done" => Len(buff) < Chunk
      BY <1>2, <1>5
    <3> QED
      BY <1>2, <1>3, <3>1 DEF CallInv
  <2> QED
    BY <1>2, <1>4, <1>5, <2>1 DEF CallInv
<1>8. TokenInv(k)'
  BY <1>2, <1>3, PageStays DEF TokenInv
<1>9. OutputInv(k)'
  <2>1. Pending \in Seq(Piece) /\ Waits = Pending /\ Waits' = <<>>
    BY <1>2, <1>3, <1>4, PendingType DEF Waits, TokenInv
  <2>2. output \in Seq(Piece) /\ output \o Pending = Flat(k) \o FirstParts(token, part)
    BY <1>1, <2>1 DEF SeenInv, OutputInv
  <2>3. PICK o \in Seq(Piece), w \in Seq(Piece) : o = output /\ w = Pending
    BY <2>1, <2>2, Zenon
  <2>4. o \o w \in Seq(Piece) /\ (o \o w) \o <<>> = o \o w
    OBVIOUS
  <2>5. Flat(k)' = Flat(k) /\ FirstParts(token, part)' = FirstParts(token, part)
    BY <1>2, PageStays DEF FirstParts
  <2> QED
    BY <1>2, <2>1, <2>2, <2>3, <2>4, <2>5, Zenon DEF OutputInv
<1>10. SeenInv(k)'
  BY <1>1, <1>2, <1>8, <1>9 DEF SeenInv
<1> QED
  BY <1>6, <1>7, <1>10 DEF PageInv

----------------------------------------------------------------------------
\* The invariant, and the page.

\* Before the first call nothing was looked at, and nothing was sent.
LEMMA InitEstablishesInv ==
  ASSUME Init
  PROVE  PageInv
<1>1. /\ pos = 0 /\ call = "none" /\ buff = <<>> /\ x = 1 /\ e = 1 /\ sp = 0 /\ inToken = FALSE
      /\ token = <<>> /\ resume = FALSE /\ part = 0 /\ output = <<>>
  BY DEF Init, Start
<1>2. file \in Seq(Chars)
  <2>1. file \in UNION {[1 .. m -> Chars] : m \in 0 .. MaxLen}
    BY DEF Init, BoundedSeq, SeqOf
  <2>2. PICK m \in 0 .. MaxLen : file \in [1 .. m -> Chars]
    BY <2>1
  <2>3. m \in Nat
    BY TemplateAssumption
  <2> QED
    BY <2>2, <2>3
<1>3. ~Running /\ Len(buff) = 0 /\ Chunk \in Nat \ {0} /\ MaxToken \in Nat /\ MaxParts \in Nat
  BY <1>1, TemplateAssumption DEF Running
<1>4. TypeOK
  <2>1. pos \in 0 .. Len(file) /\ Len(token) = 0
    BY <1>1, <1>2
  <2>2. buff \in Seq(Chars) /\ token \in Seq(Letters)
    BY <1>1
  <2>3. Len(buff) <= Chunk /\ Len(token) <= MaxToken
    BY <1>3, <2>1
  <2>4. x \in 1 .. Len(buff) + 1 /\ e \in 1 .. Len(buff) + 1 /\ sp \in 0 .. Len(buff)
        /\ part \in 0 .. MaxParts
    BY <1>1, <1>3
  <2>5. call = "none" /\ inToken \in BOOLEAN /\ resume \in BOOLEAN
    BY <1>1
  <2> QED
    BY <1>2, <2>1, <2>2, <2>3, <2>4, <2>5 DEF TypeOK
<1>5. BuffIsChunk /\ TextInv /\ ResumeInv /\ CallInv
  BY <1>1, <1>3 DEF BuffIsChunk, TextInv, ResumeInv, CallInv
<1>6. TokenInv(0)
  BY <1>1, SignsAtStart DEF TokenInv
<1>7. OutputInv(0)
  <2>1. Waits = <<>> /\ FirstParts(token, part) = <<>> /\ output \in Seq(Piece)
    BY <1>1, <1>3 DEF Waits, FirstParts
  <2> QED
    BY <1>1, <2>1, FlatEnds, Zenon DEF OutputInv
<1>8. SeenInv(0)
  <2>1. 0 = pos - Len(buff) + x - 1
    <3>1. pos = 0 /\ x = 1 /\ Len(buff) = 0
      BY <1>1, <1>3, Zenon
    <3> QED
      BY <3>1
  <2> QED
    BY <1>6, <1>7, <2>1, Zenon DEF SeenInv
<1> QED
  BY <1>4, <1>5, <1>8 DEF PageInv

\* Nothing changes.
LEMMA StutterKeepsInv ==
  ASSUME PageInv, UNCHANGED vars
  PROVE  PageInv'
<1>1. UNCHANGED <<file, pos, call, buff, x, e, sp, inToken, token, resume, part, output>>
  BY DEF vars, readVars
<1>2. PICK k \in Nat : SeenInv(k)
  BY DEF PageInv
<1>3. TypeOK' /\ BuffIsChunk' /\ TextInv' /\ ResumeInv' /\ CallInv'
  BY <1>1 DEF PageInv, TypeOK, BuffIsChunk, TextInv, ResumeInv, CallInv, Running, More, CallsFor
<1>4. TokenInv(k)'
  BY <1>1, <1>2, PageStays DEF SeenInv, TokenInv
<1>5. OutputInv(k)'
  BY <1>1, <1>2, PageStays DEF SeenInv, OutputInv, Waits, Running, Pending, FirstParts
<1> QED
  BY <1>1, <1>2, <1>3, <1>4, <1>5 DEF PageInv, SeenInv

\* A sequence that another begins with is a prefix of it.
LEMMA BeginningIsPrefix ==
  ASSUME NEW s \in Seq(Piece), NEW t \in Seq(Piece), NEW r \in Seq(Piece), t = s \o r
  PROVE  IsPrefix(s, t)
<1>1. Len(s) \in Nat /\ Len(r) \in Nat /\ Len(t) = Len(s) + Len(r)
  BY ConcatProperties, LenProperties
<1>2. \A i \in 1 .. Len(s) : t[i] = s[i]
  BY <1>1, ConcatProperties
<1>3. SubSeq(s, 1, Len(s)) = SubSeq(t, 1, Len(s))
  BY <1>1, <1>2
<1> QED
  BY <1>1, <1>3 DEF IsPrefix

\* Some of the parts of a token are the beginning of all of them.
LEMMA PartsBegin ==
  ASSUME NEW name \in Seq(Chars), NEW n \in Nat, NEW m \in Nat, m <= n
  PROVE  Begins(FirstParts(name, m), FirstParts(name, n))
<1>1. PICK a \in Seq(Piece), b \in Seq(Piece) : a = FirstParts(name, m) /\ b = FirstParts(name, n)
  <2>1. FirstParts(name, m) \in Seq(Piece) /\ FirstParts(name, n) \in Seq(Piece)
    BY PartsType
  <2> QED
    BY <2>1, Zenon
<1>2. Len(a) = m /\ Len(b) = n
  BY <1>1, PartsType
<1>3. \A i \in 1 .. m : a[i] = b[i]
  BY <1>1 DEF FirstParts
<1>4. PICK r \in Seq(Piece) : Len(r) = n - m /\ \A i \in 1 .. n - m : r[i] = b[m + i]
  <2> DEFINE s == SubSeq(b, m + 1, n)
  <2>1. s \in Seq(Piece) /\ Len(s) = n - m /\ \A i \in 1 .. n - m : s[i] = b[m + i]
    BY <1>2
  <2> HIDE DEF s
  <2> QED
    BY <2>1, Zenon
<1>5. b = a \o r
  <2>1. a \o r \in Seq(Piece) /\ Len(a \o r) = n
    <3>1. a \o r \in Seq(Piece) /\ Len(a \o r) = Len(a) + Len(r)
      BY ConcatProperties, Zenon
    <3>2. m + (n - m) = n
      OBVIOUS
    <3> QED
      BY <1>2, <1>4, <3>1, <3>2, Zenon
  <2>2. ASSUME NEW i \in 1 .. n PROVE b[i] = (a \o r)[i]
    <3>0. i \in 1 .. Len(a) + Len(r)
      BY <1>2, <1>4
    <3>1. (a \o r)[i] = IF i <= Len(a) THEN a[i] ELSE r[i - Len(a)]
      BY <3>0, ConcatProperties, Zenon
    <3>2. CASE i <= m
      BY <1>2, <1>3, <3>1, <3>2
    <3>3. CASE ~(i <= m)
      <4>1. i - m \in 1 .. n - m /\ m + (i - m) = i
        BY <3>3
      <4>2. r[i - m] = b[i]
        BY <1>4, <4>1
      <4> QED
        BY <1>2, <3>1, <3>3, <4>2, Zenon
    <3> QED
      BY <3>2, <3>3
  <2> QED
    BY <1>2, <2>1, <2>2, SeqEqual
<1> QED
  BY <1>1, <1>4, <1>5, Zenon DEF Begins

\* Beginnings compose.
LEMMA BeginsTrans ==
  ASSUME NEW s \in Seq(Piece), NEW t, NEW u, Begins(s, t), Begins(t, u)
  PROVE  Begins(s, u)
<1>1. PICK a \in Seq(Piece) : t = s \o a
  BY DEF Begins
<1>2. PICK b \in Seq(Piece) : u = t \o b
  BY DEF Begins
<1>3. (s \o a) \o b = s \o (a \o b) /\ a \o b \in Seq(Piece)
  OBVIOUS
<1>4. u = s \o (a \o b)
  BY <1>1, <1>2, <1>3, Zenon
<1> QED
  BY <1>3, <1>4, Zenon DEF Begins

\* What was sent is a beginning of the page.
LEMMA InvMeansPrefix ==
  ASSUME PageInv
  PROVE  IsPrefix(output, Page)
<1>1. PICK k \in Nat : /\ k = pos - Len(buff) + x - 1 /\ k \in 0 .. Len(file)
                       /\ TokenInv(k) /\ OutputInv(k) /\ Flat(k) \in Seq(Piece)
                       /\ file \in Seq(Chars) /\ Waits \in Seq(Piece)
  BY Seen
<1>2. output \in Seq(Piece) /\ output \o Waits = Flat(k) \o FirstParts(token, part)
  BY <1>1 DEF OutputInv
<1>3. Begins(output, Flat(k) \o FirstParts(token, part))
  BY <1>1, <1>2, Zenon DEF Begins
<1>4. Begins(Flat(k) \o FirstParts(token, part), Page)
  <2>1. CASE ~resume
    <3>1. FirstParts(token, part) = <<>>
      BY <2>1 DEF PageInv, ResumeInv, FirstParts
    <3>2. Flat(k) \o <<>> = Flat(k)
      BY <1>1
    <3>3. Begins(Flat(k), Page)
      BY <1>1, FlatIsPrefix
    <3> QED
      BY <3>1, <3>2, <3>3, Zenon
  <2>2. CASE resume
    <3>1. /\ inToken /\ token # <<>> /\ More /\ buff[x] = "%" /\ part < CallsFor(token)
          /\ TypeOK /\ BuffIsChunk
      BY <2>2 DEF PageInv, ResumeInv
    <3>2. k + 1 <= Len(file) /\ file[k + 1] = "%"
      BY <1>1, <3>1, NextChar
    <3>3. /\ token \in Seq(Chars) /\ Contribution(k + 1) = FirstParts(token, CallsFor(token))
          /\ CallsFor(token) \in 1 .. MaxParts
      BY <1>1, <3>1, <3>2, EndingSign
    <3>4. part \in Nat /\ CallsFor(token) \in Nat /\ part <= CallsFor(token)
      BY <3>1, <3>3, TemplateAssumption DEF TypeOK
    <3>5. PICK r \in Seq(Piece) : FirstParts(token, CallsFor(token)) = FirstParts(token, part) \o r
      BY <3>3, <3>4, PartsBegin DEF Begins
    <3>6. PICK f \in Seq(Piece), q \in Seq(Piece) : f = Flat(k) /\ q = FirstParts(token, part)
      <4>1. FirstParts(token, part) \in Seq(Piece)
        BY <3>3, <3>4, PartsType
      <4> QED
        BY <1>1, <4>1, Zenon
    <3>7. f \o (q \o r) = (f \o q) \o r /\ f \o q \in Seq(Piece)
      OBVIOUS
    <3>8. Flat(k + 1) = f \o (q \o r)
      <4>1. Flat(k + 1) = Flat(k) \o Contribution(k + 1)
        BY <1>1, <3>2, FlatNext
      <4> QED
        BY <3>3, <3>5, <3>6, <4>1, Zenon
    <3>9. Begins(f \o q, Flat(k + 1))
      BY <3>7, <3>8, Zenon DEF Begins
    <3>10. Begins(Flat(k + 1), Page)
      <4>1. k + 1 \in 0 .. Len(file)
        BY <1>1, <3>2
      <4> QED
        BY <1>1, <4>1, FlatIsPrefix
    <3>11. Begins(f \o q, Page)
      BY <3>7, <3>9, <3>10, BeginsTrans
    <3> QED
      BY <3>6, <3>11, Zenon
  <2> QED
    BY <2>1, <2>2
<1>5. Begins(output, Page)
  BY <1>2, <1>3, <1>4, BeginsTrans
<1>6. Page \in Seq(Piece)
  <2>1. Len(file) \in 0 .. Len(file)
    BY <1>1
  <2> QED
    BY <1>1, <2>1, FlatType, FlatEnds
<1> QED
  BY <1>2, <1>5, <1>6, BeginningIsPrefix DEF Begins

\* When the function is done, it is the page.
LEMMA InvMeansPage ==
  ASSUME PageInv, call = "done"
  PROVE  output = Page
<1>1. PICK k \in Nat : /\ k = pos - Len(buff) + x - 1 /\ OutputInv(k) /\ Flat(k) \in Seq(Piece)
  BY Seen
<1>2. ~Running /\ ~resume /\ pos = Len(file) /\ x = Len(buff) + 1 /\ part = 0
  BY DEF PageInv, CallInv, ResumeInv, Running
<1>3. k = Len(file)
  <2>1. Len(file) \in Nat /\ Len(buff) \in Nat
    BY DEF PageInv, TypeOK
  <2> QED
    BY <1>1, <1>2, <2>1
<1>4. Waits = <<>> /\ FirstParts(token, part) = <<>>
  BY <1>2 DEF Waits, FirstParts
<1>5. output \in Seq(Piece) /\ output \o <<>> = Flat(k) \o <<>>
  BY <1>1, <1>4 DEF OutputInv
<1>6. output \o <<>> = output /\ Flat(k) \o <<>> = Flat(k)
  BY <1>1, <1>5
<1> QED
  BY <1>3, <1>5, <1>6, FlatEnds, Zenon

\* Every action keeps the invariant.
LEMMA NextKeepsInv ==
  PageInv /\ [Next]_vars => PageInv'
<1> SUFFICES ASSUME PageInv, [Next]_vars PROVE PageInv'
  OBVIOUS
<1>1. CASE Call
  BY <1>1, ResumeKeepsInv, ReadKeepsInv
<1>2. CASE UNCHANGED vars
  BY <1>2, StutterKeepsInv
<1> QED
  BY <1>1, <1>2, IdleKeepsInv, TextKeepsInv, TokenBeginsKeepsInv, TokenCharKeepsInv,
     TokenEndKeepsInv, PauseKeepsInv, EndOfChunkKeepsInv DEF Next

\* A page with tokens is sent as it is, with what replaces its tokens: wherever
\* cgiEspFsTemplate cuts the chunks, within a token too, and however many calls the
\* callback takes for a token, what is sent is the beginning of the page at any time and
\* the page when the function is done.
THEOREM TemplatePage == Spec => []PageIsRight
<1>1. Init => PageInv
  BY InitEstablishesInv
<1>2. PageInv => PageIsRight
  BY InvMeansPrefix, InvMeansPage DEF PageIsRight
<1> QED
  BY <1>1, <1>2, NextKeepsInv, PTL DEF Spec

\* The variables of cgiEspFsTemplate keep their types: the chunk and the token fit their
\* buffers, and the position in the chunk stays within it.
THEOREM TemplateTypes == Spec => []TypeOK
<1>1. Init => PageInv
  BY InitEstablishesInv
<1>2. PageInv => TypeOK
  BY DEF PageInv
<1> QED
  BY <1>1, <1>2, NextKeepsInv, PTL DEF Spec

-----------------------------------------------------------------------------
(***************************************************************************)
(* Static files: the layout of the image.                                  *)
(***************************************************************************)

\* A file as any image may hold it, and what its builder made of it.
AnyFile == [name : FileNames, compressed : BOOLEAN, symbols : Seq(Nat)]
AnyImage ==
  /\ image \in Seq(AnyFile)
  /\ \A n \in 1 .. Len(image) :
       ~image[n].compressed => \A k \in 1 .. Len(image[n].symbols) : image[n].symbols[k] = 1

\* The remainders the layout needs.
LEMMA Remainders ==
  ASSUME NEW a \in Nat \ {0}
  PROVE  /\ \A end \in Nat : end % a \in 0 .. a - 1
         /\ \A r \in 0 .. a - 1 : r % a = r
         /\ a % a = 0
<1>1. \A end \in Nat : end % a \in 0 .. a - 1
  OBVIOUS
<1>2. \A r \in 0 .. a - 1 : r % a = r
  OBVIOUS
<1>3. a % a = 0
  OBVIOUS
<1> QED
  BY <1>1, <1>2, <1>3

\* The address behind a file is the one where its builder puts the next.
LEMMA AlignedUp ==
  ASSUME NEW end \in Nat
  PROVE  /\ Aligned(end) \in Nat /\ Aligned(end) >= end
         /\ Aligned(end) = IF end % Align # 0 THEN end + (Align - (end % Align)) ELSE end
<1> DEFINE r == end % Align
<1>1. Align \in Nat \ {0}
  BY StaticFileConstants
<1>2. r \in 0 .. Align - 1
  BY <1>1, Remainders
<1> HIDE DEF r
<1>3. CASE r = 0
  <2>1. (Align - r) % Align = 0
    BY <1>1, <1>3, Remainders
  <2>2. Aligned(end) = end
    BY <2>1 DEF Aligned, r
  <2> QED
    BY <1>3, <2>2 DEF r
<1>4. CASE r # 0
  <2>1. Align - r \in 0 .. Align - 1
    BY <1>1, <1>2, <1>4
  <2>2. (Align - r) % Align = Align - r
    BY <1>1, <2>1, Remainders
  <2>3. Aligned(end) = end + (Align - r)
    BY <2>2 DEF Aligned, r
  <2> QED
    BY <1>4, <2>1, <2>3 DEF r
<1> QED
  BY <1>3, <1>4

\* Where the first n files are put.
PlacedTo(n, f) ==
  f = [i \in 1 .. n |->
         IF i = 1 THEN 0 ELSE Aligned(f[i - 1] + FileHeader + Len(image[i - 1].symbols))]

LEMMA PlacesExist ==
  ASSUME NEW n \in Nat, n >= 1
  PROVE  \E f : PlacedTo(n, f)
<1> DEFINE T == {m \in 1 .. n : \E f : PlacedTo(m, f)}
<1>1. 1 \in T
  <2> DEFINE g == [i \in 1 .. 1 |-> 0]
  <2>1. g = [i \in 1 .. 1 |->
               IF i = 1 THEN 0 ELSE Aligned(g[i - 1] + FileHeader + Len(image[i - 1].symbols))]
    OBVIOUS
  <2> HIDE DEF g
  <2>2. PlacedTo(1, g)
    BY <2>1 DEF PlacedTo
  <2> QED
    BY <2>2
<1>2. ASSUME NEW m \in 1 .. n, m > 1, m - 1 \in T
      PROVE  m \in T
  <2>1. PICK f : PlacedTo(m - 1, f)
    BY <1>2
  <2> DEFINE next(v, i) == Aligned(v + FileHeader + Len(image[i - 1].symbols))
             g == [i \in 1 .. m |-> IF i = m THEN next(f[m - 1], m) ELSE f[i]]
  <2>2. \A i \in 1 .. m - 1 : f[i] = IF i = 1 THEN 0 ELSE next(f[i - 1], i)
    BY <2>1, Zenon DEF PlacedTo
  <2>3. \A i \in 1 .. m - 1 : g[i] = f[i]
    OBVIOUS
  <2>4. g[m] = next(f[m - 1], m)
    BY <1>2
  <2>5. g = [i \in 1 .. m |-> g[i]]
    OBVIOUS
  <2> HIDE DEF g, next
  <2>6. ASSUME NEW i \in 1 .. m
        PROVE  g[i] = IF i = 1 THEN 0 ELSE next(g[i - 1], i)
    <3>1. CASE i = m
      <4>1. i # 1 /\ i - 1 \in 1 .. m - 1
        BY <1>2, <3>1
      <4>2. g[i - 1] = f[i - 1]
        BY <2>3, <4>1
      <4> QED
        BY <2>4, <3>1, <4>1, <4>2
    <3>2. CASE i # m
      <4>1. i \in 1 .. m - 1 /\ (i # 1 => i - 1 \in 1 .. m - 1)
        BY <3>2
      <4>2. g[i] = f[i] /\ (i # 1 => g[i - 1] = f[i - 1])
        BY <2>3, <4>1, Zenon
      <4> QED
        BY <2>2, <4>1, <4>2, Zenon
    <3> QED
      BY <3>1, <3>2
  <2>7. g = [i \in 1 .. m |-> IF i = 1 THEN 0 ELSE next(g[i - 1], i)]
    BY <2>5, <2>6
  <2>8. PlacedTo(m, g)
    BY <2>7, Zenon DEF PlacedTo, next
  <2> QED
    BY <2>8
<1> HIDE DEF T
<1>3. n \in T
  BY <1>1, <1>2, UpTo
<1> QED
  BY <1>3 DEF T

\* Each file is put behind the one in front of it.
LEMMA PlaceIs ==
  ASSUME AnyImage
  PROVE  /\ Place[1] = 0
         /\ \A n \in 1 .. Len(image) :
              Place[n + 1] = Aligned(Place[n] + FileHeader + Len(image[n].symbols))
<1>1. Len(image) \in Nat
  BY DEF AnyImage
<1>2. PlacedTo(Len(image) + 1, Place)
  <2>1. \E f : PlacedTo(Len(image) + 1, f)
    BY <1>1, PlacesExist
  <2>2. Place = CHOOSE f : PlacedTo(Len(image) + 1, f)
    BY Zenon DEF Place, PlacedTo
  <2> QED
    BY <2>1, <2>2, Zenon
<1> DEFINE next(v, i) == Aligned(v + FileHeader + Len(image[i - 1].symbols))
<1>3. \A i \in 1 .. Len(image) + 1 : Place[i] = IF i = 1 THEN 0 ELSE next(Place[i - 1], i)
  BY <1>2, Zenon DEF PlacedTo
<1> HIDE DEF next
<1>4. Place[1] = 0
  BY <1>1, <1>3
<1>5. ASSUME NEW n \in 1 .. Len(image)
      PROVE  Place[n + 1] = Aligned(Place[n] + FileHeader + Len(image[n].symbols))
  <2>1. n + 1 \in 1 .. Len(image) + 1 /\ n + 1 # 1 /\ (n + 1) - 1 = n
    BY <1>1
  <2>2. Place[n + 1] = next(Place[(n + 1) - 1], n + 1)
    BY <1>3, <2>1, Zenon
  <2> QED
    BY <2>1, <2>2, Zenon DEF next
<1> QED
  BY <1>4, <1>5

\* Addresses are numbers, and grow.
LEMMA PlacesGrow ==
  ASSUME AnyImage
  PROVE  /\ \A j \in 1 .. Len(image) + 1 : Place[j] \in Nat
         /\ \A j \in 1 .. Len(image) + 1 : \A i \in 1 .. j - 1 : Place[i] < Place[j]
<1>1. Len(image) \in Nat /\ FileHeader \in Nat \ {0}
  BY StaticFileConstants DEF AnyImage
<1>2. ASSUME NEW n \in 1 .. Len(image), Place[n] \in Nat
      PROVE  Place[n + 1] \in Nat /\ Place[n] < Place[n + 1]
  <2>1. Len(image[n].symbols) \in Nat
    BY DEF AnyImage, AnyFile
  <2>2. Place[n] + FileHeader + Len(image[n].symbols) \in Nat
    BY <1>1, <1>2, <2>1
  <2>3. /\ Place[n + 1] \in Nat
        /\ Place[n + 1] >= Place[n] + FileHeader + Len(image[n].symbols)
    BY <2>2, AlignedUp, PlaceIs
  <2> QED
    BY <1>1, <1>2, <2>1, <2>3
<1> DEFINE T == {j \in 1 .. Len(image) + 1 :
                   Place[j] \in Nat /\ \A i \in 1 .. j - 1 : Place[i] \in Nat /\ Place[i] < Place[j]}
<1>3. 1 \in T
  BY <1>1, PlaceIs
<1>4. ASSUME NEW j \in 1 .. Len(image) + 1, j > 1, j - 1 \in T
      PROVE  j \in T
  <2>1. j - 1 \in 1 .. Len(image) /\ (j - 1) + 1 = j
    BY <1>1, <1>4
  <2>2. Place[j] \in Nat /\ Place[j - 1] \in Nat /\ Place[j - 1] < Place[j]
    BY <1>2, <1>4, <2>1
  <2>3. \A i \in 1 .. (j - 1) - 1 : Place[i] \in Nat /\ Place[i] < Place[j - 1]
    BY <1>4
  <2>4. ASSUME NEW i \in 1 .. j - 1 PROVE Place[i] \in Nat /\ Place[i] < Place[j]
    <3>1. i = j - 1 \/ i \in 1 .. (j - 1) - 1
      OBVIOUS
    <3> QED
      BY <2>2, <2>3, <3>1
  <2> QED
    BY <2>2, <2>4
<1> HIDE DEF T
<1>5. 1 .. Len(image) + 1 \subseteq T
  <2>1. Len(image) + 1 \in Nat
    BY <1>1
  <2> QED
    BY <1>3, <1>4, <2>1, UpTo
<1> QED
  BY <1>5 DEF T

-----------------------------------------------------------------------------
(***************************************************************************)
(* Looking a name up: the walk from header to header finds the first file  *)
(* that has it.                                                            *)
(***************************************************************************)

\* The files at an address, those of a name from file n on, and the first of them.
FilesAt(p) == {n \in 1 .. Len(image) : Place[n] = p}
NamedFrom(name, n) == {m \in n .. Len(image) : NameOf(m) = name}
FirstNamed(name, n) == IF NamedFrom(name, n) = {} THEN 0 ELSE Min(NamedFrom(name, n))

\* f is what the walk returns from each address.
Walks(name, f) ==
  f = [p \in 0 .. Place[Len(image) + 1] + Align |->
         IF FilesAt(p) = {} THEN 0
         ELSE LET n == CHOOSE m \in FilesAt(p) : TRUE
              IN  IF NameOf(n) = name THEN n ELSE f[Behind(p, n)]]

\* An address is that of one file, and the address behind it that of the next or the end mark.
LEMMA HeadersInOrder ==
  ASSUME AnyImage
  PROVE  /\ \A n \in 1 .. Len(image) : FilesAt(Place[n]) = {n}
         /\ FilesAt(Place[Len(image) + 1]) = {}
         /\ \A n \in 1 .. Len(image) : Behind(Place[n], n) = Place[n + 1]
         /\ \A n \in 1 .. Len(image) + 1 : Place[n] \in 0 .. Place[Len(image) + 1] + Align
<1>1. Len(image) \in Nat /\ FileHeader \in Nat \ {0} /\ Align \in Nat \ {0}
  BY StaticFileConstants DEF AnyImage
<1>2. /\ \A j \in 1 .. Len(image) + 1 : Place[j] \in Nat
      /\ \A j \in 1 .. Len(image) + 1 : \A i \in 1 .. j - 1 : Place[i] < Place[j]
  BY PlacesGrow, Zenon
<1>3. ASSUME NEW n \in 1 .. Len(image) + 1, NEW m \in 1 .. Len(image), Place[m] = Place[n]
      PROVE  m = n
  <2>1. n < m => Place[n] < Place[m]
    BY <1>1, <1>2
  <2>2. m < n => Place[m] < Place[n]
    BY <1>1, <1>2
  <2>3. Place[n] \in Nat /\ Place[m] \in Nat
    BY <1>1, <1>2
  <2> QED
    BY <1>1, <1>3, <2>1, <2>2, <2>3
<1>4. \A n \in 1 .. Len(image) : FilesAt(Place[n]) = {n}
  BY <1>1, <1>3 DEF FilesAt
<1>5. FilesAt(Place[Len(image) + 1]) = {}
  BY <1>1, <1>3 DEF FilesAt
<1>6. ASSUME NEW n \in 1 .. Len(image)
      PROVE  Behind(Place[n], n) = Place[n + 1]
  <2> DEFINE end == Place[n] + FileHeader + Len(image[n].symbols)
  <2>1. end \in Nat
    <3>1. Len(image[n].symbols) \in Nat
      BY DEF AnyImage, AnyFile
    <3> QED
      BY <1>1, <1>2, <3>1
  <2>2. Place[n + 1] = Aligned(end)
    BY PlaceIs, Zenon
  <2> HIDE DEF end
  <2>3. Behind(Place[n], n) = IF end % Align # 0 THEN end + (Align - (end % Align)) ELSE end
    BY Zenon DEF Behind, end
  <2> QED
    BY <2>1, <2>2, <2>3, AlignedUp
<1>7. ASSUME NEW n \in 1 .. Len(image) + 1
      PROVE  Place[n] \in 0 .. Place[Len(image) + 1] + Align
  <2>1. n = Len(image) + 1 \/ Place[n] < Place[Len(image) + 1]
    BY <1>1, <1>2
  <2>2. Place[n] \in Nat /\ Place[Len(image) + 1] \in Nat
    BY <1>1, <1>2
  <2> QED
    BY <1>1, <2>1, <2>2
<1> QED
  BY <1>4, <1>5, <1>6, <1>7

\* The first file of a name is this one or the first behind it.
LEMMA FirstNamedFrom ==
  ASSUME AnyImage, NEW name
  PROVE  /\ FirstNamed(name, Len(image) + 1) = 0
         /\ \A n \in 1 .. Len(image) :
              FirstNamed(name, n) = IF NameOf(n) = name THEN n ELSE FirstNamed(name, n + 1)
         /\ NamedFrom(name, 1) = {} => FirstNamed(name, 1) = 0
         /\ NamedFrom(name, 1) # {} => FirstNamed(name, 1) \in NamedFrom(name, 1)
<1>1. Len(image) \in Nat
  BY DEF AnyImage
<1>2. FirstNamed(name, Len(image) + 1) = 0
  BY <1>1 DEF FirstNamed, NamedFrom
<1>3. ASSUME NEW n \in 1 .. Len(image), NameOf(n) = name
      PROVE  FirstNamed(name, n) = n
  <2>1. n \in NamedFrom(name, n) /\ \A m \in NamedFrom(name, n) : n <= m /\ m \in Nat
    BY <1>1, <1>3 DEF NamedFrom
  <2>2. Min(NamedFrom(name, n)) = n
    <3> DEFINE S == NamedFrom(name, n)
               v == Min(S)
    <3>1. v \in S /\ \A y \in S : v =< y
      BY <2>1, Zenon DEF Min
    <3> HIDE DEF v
    <3>2. v <= n /\ n <= v /\ v \in Nat /\ n \in Nat
      BY <2>1, <3>1
    <3>3. v = n
      BY <3>2
    <3> QED
      BY <3>3 DEF v
  <2> QED
    BY <2>1, <2>2 DEF FirstNamed
<1>4. ASSUME NEW n \in 1 .. Len(image), NameOf(n) # name
      PROVE  FirstNamed(name, n) = FirstNamed(name, n + 1)
  <2>1. NamedFrom(name, n) = NamedFrom(name, n + 1)
    BY <1>1, <1>4 DEF NamedFrom
  <2> QED
    BY <2>1, Zenon DEF FirstNamed
<1>5. ASSUME NamedFrom(name, 1) # {} PROVE FirstNamed(name, 1) \in NamedFrom(name, 1)
  <2>1. NamedFrom(name, 1) \subseteq Nat
    BY <1>1 DEF NamedFrom
  <2>2. PICK v \in NamedFrom(name, 1) : \A y \in NamedFrom(name, 1) : v <= y
    BY <1>5, <2>1, LeastElement, Zenon
  <2>3. Min(NamedFrom(name, 1)) \in NamedFrom(name, 1)
    BY <2>2, Zenon DEF Min
  <2> QED
    BY <1>5, <2>3 DEF FirstNamed
<1> QED
  BY <1>2, <1>3, <1>4, <1>5 DEF FirstNamed

\* There is such a walk.
LEMMA WalkExists ==
  ASSUME AnyImage, NEW name
  PROVE  \E f : Walks(name, f)
<1> DEFINE D == 0 .. Place[Len(image) + 1] + Align
           g == [p \in D |-> IF FilesAt(p) = {} THEN 0
                             ELSE FirstNamed(name, CHOOSE m \in FilesAt(p) : TRUE)]
           step(p) == IF FilesAt(p) = {} THEN 0
                      ELSE LET n == CHOOSE m \in FilesAt(p) : TRUE
                           IN  IF NameOf(n) = name THEN n ELSE g[Behind(p, n)]
<1>1. Len(image) \in Nat
  BY DEF AnyImage
<1>2. ASSUME NEW n \in 1 .. Len(image) + 1 PROVE g[Place[n]] = FirstNamed(name, n)
  <2>1. Place[n] \in D
    BY HeadersInOrder
  <2>2. CASE n = Len(image) + 1
    <3>1. FilesAt(Place[n]) = {}
      BY <2>2, HeadersInOrder
    <3>2. FirstNamed(name, n) = 0
      BY <2>2, FirstNamedFrom
    <3> QED
      BY <2>1, <3>1, <3>2, Zenon
  <2>3. CASE n # Len(image) + 1
    <3>1. n \in 1 .. Len(image)
      BY <1>1, <2>3
    <3>2. FilesAt(Place[n]) = {n}
      BY <3>1, HeadersInOrder
    <3>3. (CHOOSE m \in FilesAt(Place[n]) : TRUE) = n
      BY <3>2
    <3> QED
      BY <2>1, <3>2, <3>3, Zenon
  <2> QED
    BY <2>2, <2>3
<1>3. g = [p \in D |-> g[p]] /\ \A p \in D : FilesAt(p) = {} => g[p] = 0
  OBVIOUS
<1> HIDE DEF g
<1>4. ASSUME NEW p \in D PROVE g[p] = step(p)
  <2>1. CASE FilesAt(p) = {}
    BY <1>3, <2>1
  <2>2. CASE FilesAt(p) # {}
    <3>1. PICK n \in 1 .. Len(image) : Place[n] = p
      BY <2>2 DEF FilesAt
    <3>2. FilesAt(p) = {n}
      BY <3>1, HeadersInOrder
    <3>3. (CHOOSE m \in FilesAt(p) : TRUE) = n
      BY <3>2
    <3>4. g[p] = FirstNamed(name, n)
      BY <1>1, <1>2, <3>1
    <3>5. g[Behind(p, n)] = FirstNamed(name, n + 1)
      <4>1. Behind(p, n) = Place[n + 1]
        BY <3>1, HeadersInOrder
      <4>2. n + 1 \in 1 .. Len(image) + 1
        BY <1>1
      <4> QED
        BY <1>2, <4>1, <4>2, Zenon
    <3>6. FirstNamed(name, n) = IF NameOf(n) = name THEN n ELSE FirstNamed(name, n + 1)
      BY FirstNamedFrom
    <3> QED
      BY <2>2, <3>3, <3>4, <3>5, <3>6, Zenon
  <2> QED
    BY <2>1, <2>2
<1>5. g = [p \in D |-> step(p)]
  <2> HIDE DEF D, step
  <2> QED
    BY <1>4, <1>3
<1>6. Walks(name, g)
  BY <1>5, Zenon DEF Walks
<1> QED
  BY <1>6

\* Whatever is such a walk finds the first file of that name.
LEMMA WalkFinds ==
  ASSUME AnyImage, NEW name, NEW f, Walks(name, f)
  PROVE  f[0] = FirstNamed(name, 1)
<1> DEFINE N == Len(image)
           at(j) == (N + 2) - j
           T == {j \in 1 .. N + 1 : f[Place[at(j)]] = FirstNamed(name, at(j))}
<1>1. N \in Nat
  BY DEF AnyImage
<1>2. ASSUME NEW p \in 0 .. Place[N + 1] + Align
      PROVE  f[p] = IF FilesAt(p) = {} THEN 0
                    ELSE LET n == CHOOSE m \in FilesAt(p) : TRUE
                         IN  IF NameOf(n) = name THEN n ELSE f[Behind(p, n)]
  BY Zenon DEF Walks
<1> HIDE DEF N
<1>3. 1 \in T
  <2>1. at(1) = N + 1
    BY <1>1
  <2>2. FilesAt(Place[N + 1]) = {} /\ Place[N + 1] \in 0 .. Place[N + 1] + Align
    <3>1. N + 1 \in 1 .. Len(image) + 1
      BY <1>1 DEF N
    <3> QED
      BY <3>1, HeadersInOrder DEF N
  <2>3. f[Place[N + 1]] = 0
    BY <1>2, <2>2, Zenon
  <2>4. FirstNamed(name, N + 1) = 0
    BY FirstNamedFrom, Zenon DEF N
  <2> QED
    BY <1>1, <2>1, <2>3, <2>4
<1>4. ASSUME NEW j \in 1 .. N + 1, j > 1, j - 1 \in T
      PROVE  j \in T
  <2> DEFINE n == at(j)
  <2>1. n \in 1 .. N /\ n + 1 = at(j - 1) /\ n \in 1 .. N + 1
    BY <1>1, <1>4
  <2> HIDE DEF n
  <2>2. f[Place[n + 1]] = FirstNamed(name, n + 1)
    BY <1>4, <2>1, Zenon
  <2>3. /\ FilesAt(Place[n]) = {n} /\ Behind(Place[n], n) = Place[n + 1]
        /\ Place[n] \in 0 .. Place[N + 1] + Align
    BY <2>1, HeadersInOrder DEF N
  <2>4. (CHOOSE m \in FilesAt(Place[n]) : TRUE) = n
    BY <2>3
  <2>5. f[Place[n]] = IF NameOf(n) = name THEN n ELSE f[Place[n + 1]]
    <3>1. FilesAt(Place[n]) # {}
      BY <2>3
    <3> QED
      BY <1>2, <2>3, <2>4, <3>1, Zenon
  <2>6. FirstNamed(name, n) = IF NameOf(n) = name THEN n ELSE FirstNamed(name, n + 1)
    BY <2>1, FirstNamedFrom DEF N
  <2>7. f[Place[n]] = FirstNamed(name, n)
    <3>1. CASE NameOf(n) = name
      BY <2>5, <2>6, <3>1, Zenon
    <3>2. CASE NameOf(n) # name
      BY <2>2, <2>5, <2>6, <3>2, Zenon
    <3> QED
      BY <3>1, <3>2
  <2>8. f[Place[at(j)]] = FirstNamed(name, at(j))
    BY <2>7, Zenon DEF n
  <2> HIDE DEF at
  <2> QED
    BY <2>8
<1> HIDE DEF T
<1>5. N + 1 \in T
  <2>1. N + 1 \in Nat /\ N + 1 \in 1 .. N + 1
    BY <1>1
  <2> QED
    BY <1>3, <1>4, <2>1, UpTo
<1>6. at(N + 1) = 1
  BY <1>1
<1>7. f[Place[1]] = FirstNamed(name, 1)
  BY <1>5, <1>6 DEF T
<1> QED
  BY <1>7, PlaceIs

\* espFsOpen finds the first file of a name, if there is one.
LEMMA FoundIs ==
  ASSUME AnyImage, NEW name
  PROVE  LET named == {n \in 1 .. Len(image) : NameOf(n) = name}
         IN  IF named = {} THEN Found(name) = 0 ELSE Found(name) \in named
<1>1. Found(name) = (CHOOSE f : Walks(name, f))[0]
  BY Zenon DEF Found, Walks, FilesAt
<1>2. Walks(name, CHOOSE f : Walks(name, f))
  BY WalkExists, Zenon
<1>3. Found(name) = FirstNamed(name, 1)
  BY <1>1, <1>2, WalkFinds
<1>4. NamedFrom(name, 1) = {n \in 1 .. Len(image) : NameOf(n) = name}
  BY DEF NamedFrom
<1> QED
  BY <1>3, <1>4, FirstNamedFrom, Zenon

-----------------------------------------------------------------------------
(***************************************************************************)
(* What symbols stand for, as parts of the content.                        *)
(***************************************************************************)

\* The bytes of each symbol, and how many the first n symbols stand for.
Parts(f) == [s \in 1 .. Len(f.symbols) |-> [k \in 1 .. f.symbols[s] |-> ByteOf(s, k)]]
To(f, n) == Reach(Parts(f), n)

\* The content is those, one behind the other.
LEMMA ContentIs ==
  ASSUME NEW f \in AnyFile
  PROVE  /\ Parts(f) \in Seq(Seq(Nat \X Nat)) /\ Len(Parts(f)) = Len(f.symbols)
         /\ f.symbols \in Seq(Nat) /\ Len(f.symbols) \in Nat
         /\ Content(f) = FlattenSeq(Parts(f)) /\ Content(f) \in Seq(Nat \X Nat)
         /\ Len(Content(f)) \in Nat
<1>1. f.symbols \in Seq(Nat) /\ Len(f.symbols) \in Nat
  BY LenProperties DEF AnyFile
<1>2. ASSUME NEW s \in 1 .. Len(f.symbols)
      PROVE  [k \in 1 .. f.symbols[s] |-> ByteOf(s, k)] \in Seq(Nat \X Nat)
  <2>1. f.symbols[s] \in Nat /\ s \in Nat
    BY <1>1
  <2>2. \A k \in 1 .. f.symbols[s] : ByteOf(s, k) \in Nat \X Nat
    BY <2>1 DEF ByteOf
  <2> QED
    BY <2>1, <2>2
<1>3. Parts(f) \in Seq(Seq(Nat \X Nat)) /\ Len(Parts(f)) = Len(f.symbols)
  <2>1. \A s \in 1 .. Len(f.symbols) : Parts(f)[s] \in Seq(Nat \X Nat)
    BY <1>2 DEF Parts
  <2>2. Parts(f) = [s \in 1 .. Len(f.symbols) |-> Parts(f)[s]]
    BY Zenon DEF Parts
  <2>3. Parts(f) \in [1 .. Len(f.symbols) -> Seq(Nat \X Nat)]
    BY <2>1, <2>2, Zenon
  <2>4. PICK n \in Nat : n = Len(f.symbols)
    BY <1>1
  <2>5. PICK w : w = Parts(f)
    OBVIOUS
  <2>6. w \in [1 .. n -> Seq(Nat \X Nat)]
    BY <2>3, <2>4, <2>5, Zenon
  <2>7. w \in Seq(Seq(Nat \X Nat)) /\ Len(w) = n
    BY <2>6
  <2> QED
    BY <2>4, <2>5, <2>7, Zenon
<1>4. Content(f) = FlattenSeq(Parts(f))
  BY Zenon DEF Content, Parts
<1> QED
  BY <1>1, <1>3, <1>4, FlattenType, LenProperties

\* As many bytes as symbols, if each stands for one.
LEMMA PlainContent ==
  ASSUME NEW f \in AnyFile, \A k \in 1 .. Len(f.symbols) : f.symbols[k] = 1
  PROVE  Len(Content(f)) = Len(f.symbols)
<1> DEFINE s == Parts(f)
           N == Len(f.symbols)
           T == {j \in 1 .. N + 1 : Reach(s, j - 1) = j - 1}
<1>1. s \in Seq(Seq(Nat \X Nat)) /\ Len(s) = N /\ N \in Nat /\ Content(f) = FlattenSeq(s)
  BY ContentIs, Zenon
<1>2. \A n \in 1 .. N : Len(s[n]) = 1
  BY DEF Parts
<1> HIDE DEF s, N
<1>3. /\ Reach(s, 0) = 0 /\ Reach(s, N) = Len(FlattenSeq(s))
      /\ \A n \in 1 .. N : Reach(s, n) = Reach(s, n - 1) + Len(s[n])
  BY <1>1, ReachGrows
<1>4. 1 \in T
  BY <1>1, <1>3
<1>5. ASSUME NEW j \in 1 .. N + 1, j > 1, j - 1 \in T
      PROVE  j \in T
  <2>1. j - 1 \in 1 .. N
    BY <1>1, <1>5
  <2>2. Reach(s, (j - 1) - 1) = (j - 1) - 1
    BY <1>5
  <2>3. Reach(s, j - 1) = Reach(s, (j - 1) - 1) + 1
    BY <1>2, <1>3, <2>1, Zenon
  <2>4. Reach(s, j - 1) = j - 1
    BY <2>1, <2>2, <2>3
  <2> QED
    BY <2>4
<1> HIDE DEF T
<1>6. N + 1 \in T
  <2>1. N + 1 \in Nat /\ N + 1 \in 1 .. N + 1
    BY <1>1
  <2> QED
    BY <1>4, <1>5, <2>1, UpTo
<1>7. Reach(s, N) = N
  <2>1. (N + 1) - 1 = N
    BY <1>1
  <2> QED
    BY <1>6, <2>1, Zenon DEF T
<1> QED
  BY <1>1, <1>3, <1>7 DEF N

\* q is symbols in a row, those behind the first b.
InARow(q, b) == \A i \in 1 .. Len(q) : q[i] = b + i

\* What symbols in a row stand for.
LEMMA OutputIs ==
  ASSUME File \in AnyFile, NEW b \in Nat, NEW q \in Seq(Nat), InARow(q, b),
         b + Len(q) <= Len(File.symbols)
  PROVE  /\ Output(q) \in Seq(Nat \X Nat) /\ To(File, b) \in Nat /\ To(File, b + Len(q)) \in Nat
         /\ To(File, b) <= To(File, b + Len(q)) /\ To(File, b + Len(q)) <= Len(Content(File))
         /\ Len(Output(q)) = To(File, b + Len(q)) - To(File, b)
         /\ \A m \in 1 .. Len(Output(q)) : Output(q)[m] = Content(File)[To(File, b) + m]
<1> DEFINE out == [s \in 1 .. Len(q) |->
                     [k \in 1 .. File.symbols[q[s]] |-> ByteOf(q[s], k)]]
<1>1. PICK parts \in Seq(Seq(Nat \X Nat)) : parts = Parts(File)
  BY ContentIs
<1>2. Len(parts) = Len(File.symbols) /\ Content(File) = FlattenSeq(parts) /\ Len(q) \in Nat
  BY <1>1, ContentIs, LenProperties
<1>3. b \in 0 .. Len(parts) /\ b + Len(q) <= Len(parts)
  BY <1>2
<1>4. ASSUME NEW i \in 1 .. Len(q) PROVE out[i] = parts[b + i]
  <2>1. q[i] = b + i
    BY DEF InARow
  <2>2. b + i \in 1 .. Len(File.symbols)
    BY <1>2
  <2>3. parts[b + i] = [k \in 1 .. File.symbols[b + i] |-> ByteOf(b + i, k)]
    BY <1>1, <2>2, Zenon DEF Parts
  <2> QED
    BY <2>1, <2>3, Zenon
<1>5. out = [s \in 1 .. Len(q) |-> out[s]]
  OBVIOUS
<1>6. Output(q) = FlattenSeq(out)
  BY Zenon DEF Output
<1> HIDE DEF out
<1>7. out \in Seq(Seq(Nat \X Nat)) /\ Len(out) = Len(q)
  <2>1. \A i \in 1 .. Len(q) : b + i \in 1 .. Len(parts)
    BY <1>2, <1>3
  <2>2. \A i \in 1 .. Len(q) : parts[b + i] \in Seq(Nat \X Nat)
    BY <2>1
  <2>3. \A i \in 1 .. Len(q) : out[i] \in Seq(Nat \X Nat)
    BY <1>4, <2>2
  <2> QED
    BY <1>2, <1>5, <2>3
<1>8. PICK z \in Seq(Seq(Nat \X Nat)) : z = out
  BY <1>7
<1>9. b + Len(z) <= Len(parts) /\ \A i \in 1 .. Len(z) : z[i] = parts[b + i]
  BY <1>3, <1>4, <1>7, <1>8
<1>10. /\ Reach(parts, b) \in Nat /\ Reach(parts, b + Len(z)) \in Nat
       /\ Reach(parts, b) <= Reach(parts, b + Len(z))
       /\ Reach(parts, b + Len(z)) <= Len(FlattenSeq(parts))
       /\ Len(FlattenSeq(z)) = Reach(parts, b + Len(z)) - Reach(parts, b)
       /\ \A m \in 1 .. Len(FlattenSeq(z)) :
            FlattenSeq(z)[m] = FlattenSeq(parts)[Reach(parts, b) + m]
  <2>1. IsPart(z, parts, b)
    BY <1>9, Zenon DEF IsPart
  <2> QED
    BY <1>3, <2>1, FlattenPart
<1>11. FlattenSeq(z) \in Seq(Nat \X Nat)
  BY FlattenType
<1>12. /\ Output(q) = FlattenSeq(z) /\ Len(z) = Len(q) /\ To(File, b) = Reach(parts, b)
       /\ To(File, b + Len(q)) = Reach(parts, b + Len(z))
  BY <1>1, <1>6, <1>7, <1>8, Zenon DEF To
<1> QED
  BY <1>2, <1>10, <1>11, <1>12, Zenon

\* A set of numbers with a bound has a greatest.
LEMMA GreatestElement ==
  ASSUME NEW n \in Nat, NEW T, T \subseteq 0 .. n, T # {}
  PROVE  Max(T) \in T
<1> DEFINE R == {n - v : v \in T}
<1>1. R \subseteq Nat /\ R # {}
  <2>1. ASSUME NEW v \in T PROVE n - v \in Nat
    OBVIOUS
  <2>2. R \subseteq Nat
    BY <2>1
  <2>3. PICK v \in T : TRUE
    OBVIOUS
  <2>4. n - v \in R
    BY <2>3
  <2> QED
    BY <2>2, <2>4
<1> HIDE DEF R
<1>2. PICK y \in R : \A z \in R : y <= z
  BY <1>1, LeastElement, Zenon
<1>3. PICK v \in T : y = n - v
  BY DEF R
<1>4. ASSUME NEW z \in T PROVE v >= z
  <2>1. n - z \in R
    BY DEF R
  <2>2. n - v <= n - z
    BY <1>2, <1>3, <2>1
  <2>3. v \in 0 .. n /\ z \in 0 .. n
    OBVIOUS
  <2> QED
    BY <2>2, <2>3
<1> QED
  BY <1>4, Zenon DEF Max

\* The symbols used up with the first n bytes are some of them, and stand for no more than n.
LEMMA UsedIs ==
  ASSUME File \in AnyFile, NEW b \in Nat, NEW q \in Seq(Nat), InARow(q, b),
         b + Len(q) <= Len(File.symbols), NEW n \in Nat
  PROVE  /\ Used(q, n) \in 0 .. Len(q) /\ Before(q, Used(q, n)) <= n
         /\ Before(q, Used(q, n)) = To(File, b + Used(q, n)) - To(File, b) /\ Before(q, Used(q, n)) \in Nat
         /\ To(File, b + Used(q, n)) \in Nat
<1>1. Len(q) \in Nat
  BY LenProperties
<1>2. ASSUME NEW s \in 0 .. Len(q)
      PROVE  Before(q, s) = To(File, b + s) - To(File, b) /\ To(File, b + s) \in Nat /\ Before(q, s) \in Nat
  <2>1. PICK p \in Seq(Nat) : p = SubSeq(q, 1, s)
    <3>1. SubSeq(q, 1, s) \in Seq(Nat)
      BY <1>1
    <3> QED
      BY <3>1
  <2>2. Len(p) = s /\ \A i \in 1 .. s : p[i] = q[i]
    BY <1>1, <2>1
  <2>3. InARow(p, b)
    <3>1. ASSUME NEW i \in 1 .. Len(p) PROVE p[i] = b + i
      <4>1. i \in 1 .. s /\ i \in 1 .. Len(q)
        BY <1>1, <2>2
      <4> QED
        BY <2>2, <4>1 DEF InARow
    <3> QED
      BY <3>1 DEF InARow
  <2>4. b + Len(p) <= Len(File.symbols)
    <3>1. Len(File.symbols) \in Nat
      BY ContentIs
    <3> QED
      BY <1>1, <2>2, <3>1
  <2>5. Len(Output(p)) = To(File, b + Len(p)) - To(File, b) /\ To(File, b + Len(p)) \in Nat
        /\ Output(p) \in Seq(Nat \X Nat)
    BY <2>3, <2>4, OutputIs, Zenon
  <2>6. Before(q, s) = Len(Output(p))
    BY <2>1, Zenon DEF Before
  <2> QED
    BY <2>2, <2>5, <2>6, LenProperties
<1> DEFINE T == {s \in 0 .. Len(q) : Before(q, s) <= n}
<1>3. 0 \in T
  <2>1. Before(q, 0) = To(File, b + 0) - To(File, b)
    BY <1>1, <1>2
  <2>2. b + 0 = b /\ To(File, b) \in Nat
    <3>1. b + 0 = b
      OBVIOUS
    <3> QED
      BY <3>1, OutputIs
  <2>3. Before(q, 0) = 0
    BY <2>1, <2>2
  <2> QED
    BY <1>1, <2>3
<1>4. Max(T) \in T
  BY <1>1, <1>3, GreatestElement
<1>5. Used(q, n) = Max(T)
  BY Zenon DEF Used
<1> HIDE DEF T
<1>6. Used(q, n) \in 0 .. Len(q) /\ Before(q, Used(q, n)) <= n
  BY <1>4, <1>5 DEF T
<1> QED
  BY <1>2, <1>6

-----------------------------------------------------------------------------
(***************************************************************************)
(* The inductive invariant: what was sent is the beginning of the content, *)
(* as far as the position in the file says; the decoder holds the last     *)
(* symbols that were read, in a row, and behind them nothing is lost.      *)
(***************************************************************************)

\* The path was looked up in all of the image.
LookedUp == IF Right = {} THEN fileCall = "notfound" ELSE serving \in Right

\* The first n bytes of the content of f were sent.
SentTo(f, n) ==
  /\ n <= Len(Content(f)) /\ body \in Seq(Nat \X Nat) /\ Len(body) = n
  /\ \A m \in 1 .. n : body[m] = Content(f)[m]

\* What the decoder has of f.
Decoder(f) ==
  /\ Len(pending) <= posComp /\ Len(pending) <= SinkSize
  /\ InARow(pending, posComp - Len(pending))
  /\ posDecomp = To(f, posComp - Len(pending)) + begun /\ posDecomp <= To(f, posComp)

\* f is read as far as its positions say.
ReadSoFar(f) ==
  /\ SentTo(f, posDecomp) /\ posComp <= Len(f.symbols)
  /\ IF f.compressed THEN Decoder(f) ELSE posDecomp = posComp

\* Nothing was done.
AtStart == posComp = 0 /\ pending = <<>> /\ begun = 0 /\ posDecomp = 0 /\ body = <<>>

FileInv ==
  /\ AnyImage /\ FileTypeOK
  /\ fileCall = "none" => serving = 0 /\ AtStart
  /\ fileCall # "none" => LookedUp
  /\ serving = 0 => fileCall \in {"none", "notfound"}
  /\ serving # 0 => ReadSoFar(File)
  /\ fileCall = "reading" => File.compressed
  /\ fileCall = "done" => posDecomp = Len(Content(File))
  /\ (opened = 1) = (fileCall \in {"waiting", "reading"})

\* The images of the model are images.
LEMMA ImagesAre ==
  ASSUME image \in Images
  PROVE  AnyImage
<1>1. \A f \in Files : f \in AnyFile
  <2>1. ASSUME NEW f \in Files PROVE f.symbols \in Seq(Nat)
    <3>1. f.symbols \in BoundedSeq(0 .. MaxExpand, MaxSymbols)
      BY DEF Files
    <3>2. PICK m \in 0 .. MaxSymbols : f.symbols \in [1 .. m -> 0 .. MaxExpand]
      BY <3>1, StaticFileConstants DEF BoundedSeq, SeqOf
    <3>3. m \in Nat /\ 0 .. MaxExpand \subseteq Nat
      BY StaticFileConstants
    <3> QED
      BY <3>2, <3>3
  <2> QED
    BY <2>1 DEF Files, AnyFile
<1> DEFINE Fit(f) == f \in AnyFile /\ (~f.compressed => \A k \in 1 .. Len(f.symbols) : f.symbols[k] = 1)
<1>2. \A f \in PlainFiles : Fit(f)
  BY <1>1 DEF PlainFiles
<1>3. \A f \in PlainFiles \cup {g \in Files : g.compressed} : Fit(f)
  BY <1>1, <1>2
<1> HIDE DEF Fit
<1>4. \/ \E f : Fit(f) /\ image = <<f>>
      \/ \E f, g : Fit(f) /\ Fit(g) /\ image = <<f, g>>
  BY <1>2, <1>3 DEF Images
<1>5. CASE \E f : Fit(f) /\ image = <<f>>
  <2>1. PICK f : Fit(f) /\ image = <<f>>
    BY <1>5
  <2>2. Len(image) = 1 /\ image[1] = f /\ f \in AnyFile
    BY <2>1 DEF Fit
  <2>3. image \in Seq(AnyFile)
    BY <2>1, <2>2
  <2> QED
    BY <2>1, <2>2, <2>3 DEF AnyImage, Fit
<1>6. CASE \E f, g : Fit(f) /\ Fit(g) /\ image = <<f, g>>
  <2>1. PICK f, g : Fit(f) /\ Fit(g) /\ image = <<f, g>>
    BY <1>6
  <2>2. Len(image) = 2 /\ image[1] = f /\ image[2] = g /\ f \in AnyFile /\ g \in AnyFile
    BY <2>1 DEF Fit
  <2>3. image \in Seq(AnyFile)
    BY <2>1, <2>2
  <2>4. \A n \in 1 .. Len(image) : n = 1 \/ n = 2
    BY <2>2
  <2> QED
    BY <2>1, <2>2, <2>3, <2>4 DEF AnyImage, Fit
<1> QED
  BY <1>4, <1>5, <1>6

\* The file that is served.
LEMMA FileIs ==
  ASSUME AnyImage, serving \in 1 .. Len(image)
  PROVE  /\ File \in AnyFile
         /\ ~File.compressed => Len(Content(File)) = Len(File.symbols)
<1>1. File \in AnyFile
  BY DEF File, AnyImage
<1>2. ~File.compressed => \A k \in 1 .. Len(File.symbols) : File.symbols[k] = 1
  BY DEF File, AnyImage
<1> QED
  BY <1>1, <1>2, PlainContent

\* It holds at first.
LEMMA FileInvInit == FileInit => FileInv
<1> SUFFICES ASSUME FileInit PROVE FileInv
  OBVIOUS
<1>1. AnyImage
  BY ImagesAre DEF FileInit
<1>2. AtStart /\ serving = 0 /\ fileCall = "none" /\ opened = 0 /\ decoded = 0
  BY DEF FileInit, FileStart, AtStart
<1>3. FileTypeOK
  <2>1. Len(image) \in Nat /\ ReadSize \in Nat
    BY <1>1, StaticFileConstants DEF AnyImage
  <2> QED
    BY <1>2, <2>1 DEF AtStart, FileTypeOK
<1> QED
  BY <1>1, <1>2, <1>3 DEF FileInv

\* The names that are looked up are numbered.
LEMMA CandidatesAre == DOMAIN Candidates(wanted) \subseteq Nat
<1> DEFINE own == <<Stripped(wanted)>>
           directory == IF Last(wanted) = Slash THEN wanted ELSE Append(wanted, Slash)
           indexes == [k \in DOMAIN IndexNames |-> Stripped(directory \o IndexNames[k])]
           others == IF \E n \in DOMAIN wanted : wanted[n] = "." THEN <<>> ELSE indexes
<1> HIDE DEF directory
<1>1. \E S : own \in Seq(S) /\ others \in Seq(S)
  <2>1. DOMAIN IndexNames = 1 .. 3
    BY DEF IndexNames
  <2> DEFINE all == {Stripped(wanted)} \cup {indexes[k] : k \in 1 .. 3}
  <2>2. own \in Seq(all)
    OBVIOUS
  <2>3. indexes \in Seq(all)
    BY <2>1
  <2>4. others \in Seq(all)
    BY <2>3
  <2> QED
    BY <2>2, <2>4
<1>2. Candidates(wanted) = own \o others
  BY Zenon DEF Candidates, directory
<1> HIDE DEF own, others
<1>3. DOMAIN (own \o others) = 1 .. Len(own) + Len(others) /\ Len(own) \in Nat /\ Len(others) \in Nat
  BY <1>1
<1> QED
  BY <1>2, <1>3

\* Opening finds a file of the first name for which there is one.
LEMMA OpenedIs ==
  ASSUME AnyImage
  PROVE  IF Right = {} THEN Opened = 0 ELSE Opened \in Right /\ Opened # 0
<1>1. \A v : IF Named(v) = {} THEN Found(v) = 0 ELSE Found(v) \in Named(v)
  BY FoundIs, Zenon DEF Named
<1>2. \A v : Named(v) # {} => Found(v) # 0
  <2>1. \A v : 0 \notin Named(v)
    BY DEF Named
  <2> QED
    BY <1>1, <2>1, Zenon
<1>3. PICK names : names = Candidates(wanted)
  OBVIOUS
<1>4. PICK hits : hits = {k \in DOMAIN names : Named(names[k]) # {}}
  OBVIOUS
<1>5. hits = {k \in DOMAIN names : Found(names[k]) # 0}
  BY <1>1, <1>2, <1>4
<1>6. Right = IF hits = {} THEN {} ELSE Named(names[Min(hits)])
  BY <1>3, <1>4, Zenon DEF Right
<1>7. Opened = IF hits = {} THEN 0 ELSE Found(names[Min(hits)])
  BY <1>3, <1>5, Zenon DEF Opened
<1>8. hits # {} => Min(hits) \in hits
  <2>1. hits \subseteq Nat
    <3>1. DOMAIN names \subseteq Nat
      BY <1>3, CandidatesAre
    <3> QED
      BY <1>4, <3>1
  <2>2. ASSUME hits # {} PROVE \E v \in hits : \A y \in hits : v <= y
    BY <2>1, <2>2, LeastElement, Zenon
  <2> QED
    BY <2>2, Zenon DEF Min
<1>9. hits # {} => Named(names[Min(hits)]) # {}
  BY <1>4, <1>8
<1> QED
  BY <1>1, <1>2, <1>6, <1>7, <1>9, Zenon

\* Nothing about the files that may be served changes with the answer.
LEMMA RightStays ==
  ASSUME UNCHANGED <<image, wanted>>
  PROVE  Right' = Right
BY DEF Right, Named, NameOf

\* At the start of a file that is what was read.
LEMMA StartIsRead ==
  ASSUME NEW f \in AnyFile, AtStart
  PROVE  ReadSoFar(f)
<1>1. /\ Parts(f) \in Seq(Seq(Nat \X Nat)) /\ Len(Content(f)) \in Nat
      /\ Len(f.symbols) \in Nat
  BY ContentIs
<1>2. To(f, 0) = 0
  BY <1>1, ReachGrows DEF To
<1>3. SentTo(f, 0)
  BY <1>1 DEF SentTo, AtStart
<1>4. Decoder(f)
  <2>1. Len(pending) = 0
    BY DEF AtStart
  <2> QED
    BY <1>2, <2>1, StaticFileConstants DEF Decoder, AtStart, InARow
<1> QED
  BY <1>1, <1>3, <1>4 DEF ReadSoFar, AtStart

LEMMA OpenKeepsFileInv ==
  ASSUME FileInv, OpenFile
  PROVE  FileInv'
<1>1. /\ fileCall = "none" /\ serving' = Opened
      /\ UNCHANGED <<image, wanted, posComp, pending, begun, posDecomp, decoded, body>>
  BY DEF OpenFile, positions
<1>2. \/ Opened = 0 /\ fileCall' = "notfound" /\ opened' = 0
      \/ Opened # 0 /\ fileCall' = "refused" /\ opened' = 0
      \/ Opened # 0 /\ fileCall' = "waiting" /\ opened' = 1
  BY DEF OpenFile
<1>3. AnyImage /\ AtStart /\ FileTypeOK
  BY <1>1 DEF FileInv
<1>4. AnyImage' /\ AtStart'
  <2>1. AnyImage'
    BY <1>1, <1>3 DEF AnyImage
  <2> QED
    BY <1>1, <1>3, <2>1 DEF AtStart
<1>5. Opened \in 0 .. Len(image) /\ LookedUp'
  <2>1. IF Right = {} THEN Opened = 0 ELSE Opened \in Right /\ Opened # 0
    BY <1>3, OpenedIs, Zenon
  <2>2. Right \subseteq 1 .. Len(image) /\ Len(image) \in Nat
    BY <1>3 DEF AnyImage, Right, Named
  <2>3. IF Right = {} THEN fileCall' = "notfound" ELSE serving' \in Right
    BY <1>1, <1>2, <2>1
  <2>4. LookedUp'
    BY <1>1, <2>3, RightStays, Zenon DEF LookedUp
  <2>5. Opened = 0 \/ Opened \in 1 .. Len(image)
    BY <2>1, <2>2
  <2>6. Opened \in 0 .. Len(image)
    BY <2>2, <2>5
  <2> QED
    BY <2>4, <2>6
<1>6. serving' # 0 => File' \in AnyFile
  BY <1>1, <1>3, <1>5 DEF File, AnyImage
<1>7. serving' # 0 => ReadSoFar(File)'
  <2> SUFFICES ASSUME serving' # 0 PROVE ReadSoFar(File)'
    OBVIOUS
  <2>1. PICK f \in AnyFile : f = File'
    BY <1>6
  <2>2. ReadSoFar(f)
    BY <1>3, StartIsRead
  <2> QED
    BY <1>1, <2>1, <2>2, Zenon DEF ReadSoFar, SentTo, Decoder
<1>8. FileTypeOK'
  BY <1>1, <1>2, <1>3, <1>5 DEF FileTypeOK
<1> QED
  BY <1>1, <1>2, <1>4, <1>5, <1>7, <1>8 DEF FileInv

\* Reading changes nothing about the file that was found.
LEMMA StillFound ==
  ASSUME FileInv, fileCall \in {"waiting", "reading"}, UNCHANGED <<image, wanted, serving>>,
         fileCall' \in {"waiting", "reading", "done", "aborted"}
  PROVE  /\ serving \in 1 .. Len(image) /\ File \in AnyFile /\ File' = File /\ ReadSoFar(File)
         /\ AnyImage' /\ LookedUp' /\ Len(image) \in Nat
<1>1. AnyImage /\ LookedUp /\ fileCall # "notfound" /\ fileCall # "none" /\ serving # 0
  BY DEF FileInv
<1>2. File' = File /\ AnyImage' /\ Len(image) \in Nat
  BY <1>1 DEF File, AnyImage
<1>3. LookedUp'
  <2>1. IF Right = {} THEN fileCall = "notfound" ELSE serving \in Right
    BY <1>1, Zenon DEF LookedUp
  <2>2. Right' = Right
    BY RightStays
  <2> QED
    BY <1>1, <2>1, <2>2 DEF LookedUp
<1>4. serving \in 1 .. Len(image) /\ File \in AnyFile /\ ReadSoFar(File)
  <2>1. serving \in 0 .. Len(image)
    BY DEF FileInv, FileTypeOK
  <2>2. serving \in 1 .. Len(image)
    BY <1>1, <1>2, <2>1
  <2> QED
    BY <1>1, <2>2, FileIs DEF FileInv
<1> QED
  BY <1>1, <1>2, <1>3, <1>4

\* What a step that reads has to show.
LEMMA ReadingKeepsFileInv ==
  ASSUME FileInv, fileCall \in {"waiting", "reading"}, UNCHANGED <<image, wanted, serving>>,
         fileCall' \in {"waiting", "reading", "done", "aborted"},
         posComp' \in Nat, pending' \in Seq(Nat), begun' \in Nat, posDecomp' \in Nat,
         decoded' \in 0 .. ReadSize,
         ReadSoFar(File)',
         fileCall' = "reading" => File.compressed,
         fileCall' = "done" => posDecomp' = Len(Content(File)),
         opened' = IF fileCall' \in {"waiting", "reading"} THEN 1 ELSE 0
  PROVE  FileInv'
<1>1. /\ serving \in 1 .. Len(image) /\ File' = File /\ AnyImage' /\ LookedUp'
      /\ Len(image) \in Nat
  BY StillFound, Zenon
<1>2. FileTypeOK'
  BY <1>1 DEF FileTypeOK
<1>3. /\ fileCall' # "none" /\ serving' # 0 /\ (opened' = 1) = (fileCall' \in {"waiting", "reading"})
  BY <1>1
<1>4. fileCall' = "done" => posDecomp' = Len(Content(File)')
  BY <1>1, Zenon
<1>5. fileCall' = "reading" => File'.compressed
  BY <1>1, Zenon
<1> QED
  BY <1>1, <1>2, <1>3, <1>4, <1>5 DEF FileInv

\* What the call is about after it returned n bytes.
LEMMA FinishIs ==
  ASSUME NEW n, Finish(n), opened = 1
  PROVE  /\ n = ReadSize => fileCall' = "waiting" /\ opened' = 1
         /\ n # ReadSize => fileCall' = "done" /\ opened' = 0
BY DEF Finish

\* More bytes of the content come out behind what was sent.
LEMMA SendsOn ==
  ASSUME NEW f \in AnyFile, NEW n \in Nat, SentTo(f, n), NEW more \in Seq(Nat \X Nat),
         n + Len(more) <= Len(Content(f)),
         \A m \in 1 .. Len(more) : more[m] = Content(f)[n + m],
         body' = body \o more
  PROVE  SentTo(f, n + Len(more))'
<1>1. body \in Seq(Nat \X Nat) /\ Len(body) = n /\ \A m \in 1 .. n : body[m] = Content(f)[m]
  BY DEF SentTo
<1>2. PICK c : c = body \o more
  OBVIOUS
<1>3. /\ c \in Seq(Nat \X Nat) /\ Len(c) = n + Len(more)
      /\ \A m \in 1 .. n : c[m] = body[m]
      /\ \A m \in 1 .. Len(more) : c[n + m] = more[m]
  <2>1. PICK b \in Seq(Nat \X Nat) : b = body /\ c = b \o more
    BY <1>1, <1>2
  <2>2. /\ c \in Seq(Nat \X Nat) /\ Len(c) = Len(b) + Len(more)
        /\ \A m \in 1 .. Len(b) : c[m] = b[m]
        /\ \A m \in 1 .. Len(more) : c[Len(b) + m] = more[m]
    BY <2>1, ConcatMember, ConcatProperties, SMTT(30)
  <2>3. Len(b) = n
    BY <1>1, <2>1
  <2> QED
    BY <2>1, <2>2, <2>3, Zenon
<1>4. Len(more) \in Nat
  BY LenProperties
<1>5. ASSUME NEW m \in 1 .. n + Len(more) PROVE c[m] = Content(f)[m]
  <2>1. CASE m <= n
    <3>1. m \in 1 .. n
      BY <2>1
    <3> QED
      BY <1>1, <1>3, <3>1, Zenon
  <2>2. CASE m > n
    <3>1. m - n \in 1 .. Len(more) /\ n + (m - n) = m
      BY <1>4, <2>2
    <3>2. c[n + (m - n)] = more[m - n] /\ more[m - n] = Content(f)[n + (m - n)]
      BY <1>3, <3>1, Zenon
    <3> QED
      BY <3>1, <3>2
  <2> QED
    BY <2>1, <2>2
<1>6. body' = c
  BY <1>2
<1> QED
  BY <1>3, <1>5, <1>6 DEF SentTo

\* A part of a sequence.
LEMMA PartOf ==
  ASSUME NEW S, NEW c \in Seq(S), NEW a \in Nat, NEW k \in Nat, a + k <= Len(c)
  PROVE  /\ SubSeq(c, a + 1, a + k) \in Seq(S) /\ Len(SubSeq(c, a + 1, a + k)) = k
         /\ \A m \in 1 .. k : SubSeq(c, a + 1, a + k)[m] = c[a + m]
<1>1. Len(c) \in Nat
  BY LenProperties
<1>2. PICK i \in Int, j \in Int : i = a + 1 /\ j = a + k
  OBVIOUS
<1>3. /\ SubSeq(c, i, j) \in Seq(S)
      /\ Len(SubSeq(c, i, j)) = IF i <= j THEN j - i + 1 ELSE 0
      /\ \A m \in 1 .. j - i + 1 : SubSeq(c, i, j)[m] = c[i + m - 1]
  <2>1. \A v \in i .. j : c[v] \in S
    BY <1>1, <1>2
  <2> QED
    BY <2>1, SubSeqProperties
<1>4. Len(SubSeq(c, i, j)) = k
  BY <1>2, <1>3
<1>5. ASSUME NEW m \in 1 .. k PROVE SubSeq(c, i, j)[m] = c[a + m]
  <2>1. m \in 1 .. j - i + 1 /\ i + m - 1 = a + m
    BY <1>2
  <2> QED
    BY <1>3, <2>1, Zenon
<1> QED
  BY <1>2, <1>3, <1>4, <1>5, Zenon

LEMMA PlainKeepsFileInv ==
  ASSUME FileInv, ReadPlain
  PROVE  FileInv'
<1>1. PICK n : /\ n = AtMost(ReadSize, Unread)
               /\ body' = body \o SubSeq(Content(File), posComp + 1, posComp + n)
               /\ posComp' = posComp + n /\ posDecomp' = posDecomp + n /\ Finish(n)
  BY Zenon DEF ReadPlain
<1>2. /\ fileCall = "waiting" /\ ~File.compressed
      /\ UNCHANGED <<image, wanted, serving, pending, begun, decoded>>
  BY DEF ReadPlain
<1>3. /\ opened = 1 /\ posComp \in Nat /\ pending \in Seq(Nat) /\ begun \in Nat /\ posDecomp \in Nat
      /\ decoded \in 0 .. ReadSize /\ ReadSize \in Nat \ {0}
  BY <1>2, StaticFileConstants DEF FileInv, FileTypeOK
<1>4. /\ n = ReadSize => fileCall' = "waiting" /\ opened' = 1
      /\ n # ReadSize => fileCall' = "done" /\ opened' = 0
  BY <1>1, <1>3, FinishIs, Zenon
<1>5. fileCall' \in {"waiting", "reading", "done", "aborted"}
  BY <1>4
<1>6. serving \in 1 .. Len(image) /\ File \in AnyFile /\ File' = File /\ ReadSoFar(File) /\ AnyImage
  BY <1>2, <1>5, StillFound DEF FileInv
<1>7. /\ Len(Content(File)) = Len(File.symbols) /\ Len(File.symbols) \in Nat
      /\ Content(File) \in Seq(Nat \X Nat)
  BY <1>2, <1>6, FileIs, ContentIs
<1>8. /\ SentTo(File, posDecomp) /\ posDecomp = posComp /\ posComp <= Len(File.symbols)
  BY <1>2, <1>6 DEF ReadSoFar
<1>9. /\ n \in Nat /\ posComp + n <= Len(File.symbols)
      /\ n # ReadSize => posComp + n = Len(File.symbols)
  BY <1>1, <1>3, <1>7, <1>8 DEF AtMost, Unread
<1>10. PICK more \in Seq(Nat \X Nat) :
         /\ more = SubSeq(Content(File), posComp + 1, posComp + n) /\ Len(more) = n
         /\ \A m \in 1 .. n : more[m] = Content(File)[posComp + m]
  <2>1. PICK c \in Seq(Nat \X Nat) : c = Content(File)
    BY <1>7
  <2>2. /\ SubSeq(c, posComp + 1, posComp + n) \in Seq(Nat \X Nat)
        /\ Len(SubSeq(c, posComp + 1, posComp + n)) = n
        /\ \A m \in 1 .. n : SubSeq(c, posComp + 1, posComp + n)[m] = c[posComp + m]
    <3>1. PICK a \in Nat, k \in Nat : a = posComp /\ k = n
      BY <1>3, <1>9
    <3>2. Len(c) \in Nat /\ a + k <= Len(c)
      BY <1>7, <1>9, <2>1, <3>1
    <3>3. /\ SubSeq(c, a + 1, a + k) \in Seq(Nat \X Nat) /\ Len(SubSeq(c, a + 1, a + k)) = k
          /\ \A m \in 1 .. k : SubSeq(c, a + 1, a + k)[m] = c[a + m]
      BY <3>2, PartOf
    <3> QED
      BY <3>1, <3>3, Zenon
  <2> QED
    BY <2>1, <2>2, Zenon
<1>11. SentTo(File, posDecomp)'
  <2>1. PICK f \in AnyFile : f = File
    BY <1>6
  <2>2. body' = body \o more
    BY <1>1, <1>10
  <2>3. posDecomp + Len(more) <= Len(Content(f))
    BY <1>7, <1>8, <1>9, <1>10, <2>1
  <2>4. \A m \in 1 .. Len(more) : more[m] = Content(f)[posDecomp + m]
    BY <1>8, <1>10, <2>1
  <2>5. PICK k \in Nat : k = posDecomp
    BY <1>3
  <2>6. SentTo(f, k + Len(more))'
    <3>1. SentTo(f, k)
      BY <1>8, <2>1, <2>5, Zenon
    <3> QED
      BY <2>2, <2>3, <2>4, <2>5, <3>1, SendsOn
  <2>7. posDecomp' = k + Len(more) /\ f = File'
    BY <1>1, <1>6, <1>10, <2>1, <2>5
  <2> QED
    BY <2>6, <2>7, Zenon DEF SentTo
<1>12. ReadSoFar(File)'
  BY <1>1, <1>2, <1>6, <1>8, <1>9, <1>11 DEF ReadSoFar
<1>13. fileCall' = "done" => posDecomp' = Len(Content(File))
  BY <1>1, <1>4, <1>7, <1>8, <1>9
<1>14. posComp' \in Nat /\ posDecomp' \in Nat
  <2>1. posComp' = posComp + n /\ posDecomp' = posDecomp + n
    BY <1>1, Zenon
  <2>2. posComp \in Nat /\ posDecomp \in Nat /\ n \in Nat
    BY <1>3, <1>9, Zenon
  <2> QED
    BY <2>1, <2>2
<1> QED
  BY <1>2, <1>3, <1>4, <1>5, <1>12, <1>13, <1>14, ReadingKeepsFileInv

LEMMA CompressedKeepsFileInv ==
  ASSUME FileInv, ReadCompressed
  PROVE  FileInv'
<1>1. /\ fileCall = "waiting" /\ File.compressed /\ decoded' = 0
      /\ UNCHANGED <<image, wanted, serving, posComp, pending, begun, posDecomp, body>>
  BY DEF ReadCompressed
<1>2. /\ opened = 1 /\ posComp \in Nat /\ pending \in Seq(Nat) /\ begun \in Nat /\ posDecomp \in Nat
      /\ ReadSize \in Nat \ {0}
  BY <1>1, StaticFileConstants DEF FileInv, FileTypeOK
<1>3. \/ fileCall' = "done" /\ opened' = 0 /\ posDecomp = Len(Content(File))
      \/ fileCall' = "reading" /\ opened' = 1
  BY <1>2, FinishIs DEF ReadCompressed
<1>4. fileCall' \in {"waiting", "reading", "done", "aborted"}
  BY <1>3
<1>5. File' = File /\ ReadSoFar(File)
  BY <1>1, <1>4, StillFound
<1>6. ReadSoFar(File)'
  BY <1>1, <1>5, Zenon DEF ReadSoFar, SentTo, Decoder
<1>7. decoded' \in 0 .. ReadSize
  BY <1>1, <1>2
<1> QED
  BY <1>1, <1>2, <1>3, <1>4, <1>6, <1>7, ReadingKeepsFileInv

LEMMA CloseKeepsFileInv ==
  ASSUME FileInv, CloseFile
  PROVE  FileInv'
<1>1. /\ fileCall = "waiting" /\ fileCall' = "aborted" /\ opened' = 0
      /\ UNCHANGED <<image, wanted, serving, posComp, pending, begun, posDecomp, decoded, body>>
  BY DEF CloseFile, positions
<1>2. /\ posComp \in Nat /\ pending \in Seq(Nat) /\ begun \in Nat /\ posDecomp \in Nat
      /\ decoded \in 0 .. ReadSize
  BY DEF FileInv, FileTypeOK
<1>3. File' = File /\ ReadSoFar(File)
  BY <1>1, StillFound
<1>4. ReadSoFar(File)'
  BY <1>1, <1>3, Zenon DEF ReadSoFar, SentTo, Decoder
<1> QED
  BY <1>1, <1>2, <1>4, ReadingKeepsFileInv

\* What is fed to the decoder keeps its symbols in a row, up to the new position.
LEMMA FedIs ==
  ASSUME File \in AnyFile, posComp \in Nat, pending \in Seq(Nat), posComp <= Len(File.symbols),
         Decoder(File)
  PROVE  /\ Sunk \in Nat /\ posComp + Sunk <= Len(File.symbols)
         /\ Unread = 0 => Sunk = 0 /\ posComp = Len(File.symbols)
         /\ Fed \in Seq(Nat) /\ Len(Fed) = Len(pending) + Sunk /\ Len(Fed) <= SinkSize
         /\ InARow(Fed, posComp - Len(pending))
<1>1. /\ Len(File.symbols) \in Nat /\ Len(pending) \in Nat /\ SinkSize \in Nat \ {0}
      /\ Len(pending) <= posComp /\ Len(pending) <= SinkSize
      /\ InARow(pending, posComp - Len(pending))
  BY ContentIs, StaticFileConstants, LenProperties DEF Decoder
<1>2. /\ Sunk \in Nat /\ Sunk <= Len(File.symbols) - posComp /\ Sunk <= SinkSize - Len(pending)
  BY <1>1 DEF Sunk, AtMost, Unread
<1>3. Unread = 0 => Sunk = 0 /\ posComp = Len(File.symbols)
  BY <1>1 DEF Sunk, AtMost, Unread
<1>4. PICK s \in Nat, p \in Nat, c \in Nat : s = Sunk /\ p = posComp /\ c = Len(pending)
  BY <1>1, <1>2
<1>5. PICK more \in Seq(Nat) : /\ more = [k \in 1 .. Sunk |-> posComp + k]
                               /\ Len(more) = s /\ \A k \in 1 .. s : more[k] = p + k
  <2> DEFINE r == [k \in 1 .. s |-> p + k]
  <2>1. r \in Seq(Nat) /\ Len(r) = s /\ \A k \in 1 .. s : r[k] = p + k
    OBVIOUS
  <2>2. r = [k \in 1 .. Sunk |-> posComp + k]
    BY <1>4
  <2> QED
    BY <2>1, <2>2, Zenon
<1>6. PICK q : q = Fed /\ q = pending \o more
  BY <1>5, Zenon DEF Fed
<1>7. /\ q \in Seq(Nat) /\ Len(q) = c + s /\ \A m \in 1 .. c : q[m] = pending[m]
      /\ \A m \in 1 .. s : q[c + m] = more[m]
  BY <1>4, <1>5, <1>6, ConcatMember, ConcatProperties
<1>8. ASSUME NEW i \in 1 .. Len(q) PROVE q[i] = (p - c) + i
  <2>1. CASE i <= c
    <3>1. i \in 1 .. c
      BY <2>1
    <3>2. pending[i] = (p - c) + i
      BY <1>1, <1>4, <3>1 DEF InARow
    <3> QED
      BY <1>7, <3>1, <3>2, Zenon
  <2>2. CASE i > c
    <3>1. i - c \in 1 .. s /\ c + (i - c) = i /\ p + (i - c) = (p - c) + i
      BY <1>7, <2>2
    <3>2. q[c + (i - c)] = p + (i - c)
      BY <1>5, <1>7, <3>1, Zenon
    <3> QED
      BY <3>1, <3>2, Zenon
  <2> QED
    BY <2>1, <2>2
<1>9. InARow(Fed, posComp - Len(pending))
  BY <1>4, <1>6, <1>8, Zenon DEF InARow
<1>10. c + s <= SinkSize /\ p + s <= Len(File.symbols)
  BY <1>1, <1>2, <1>4
<1> QED
  BY <1>2, <1>3, <1>4, <1>6, <1>7, <1>9, <1>10, Zenon

\* A turn, in numbers: b symbols are used up, and the decoder has d symbols; all bytes up to r can be
\* handed out, n of them are, and u symbols are used up with them.
LEMMA TurnIs ==
  ASSUME FileInv, ReadTurn, serving \in 1 .. Len(image), File \in AnyFile, ReadSoFar(File)
  PROVE  \E b \in Nat, n \in Nat, u \in Nat :
           /\ b = posComp - Len(pending)
           /\ Sunk \in Nat /\ posComp' = posComp + Sunk /\ posComp + Sunk <= Len(File.symbols)
           /\ u \in 0 .. Len(Fed) /\ b + Len(Fed) = posComp + Sunk /\ Len(Fed) <= SinkSize
           /\ Fed \in Seq(Nat) /\ InARow(Fed, b) /\ pending' = SubSeq(Fed, u + 1, Len(Fed))
           /\ To(File, b + u) \in Nat /\ begun' \in Nat
           /\ posDecomp' = posDecomp + n /\ posDecomp' = To(File, b + u) + begun'
           /\ posDecomp + n <= To(File, posComp + Sunk)
           /\ To(File, posComp + Sunk) <= Len(Content(File))
           /\ SentTo(File, posDecomp)'
           /\ decoded' = decoded + n /\ decoded + n <= ReadSize
           /\ Unread = 0 /\ decoded + n # ReadSize =>
                posComp = Len(File.symbols) /\ Sunk = 0 /\ posDecomp + n = To(File, posComp)
           /\ IF Unread = 0 \/ decoded + n = ReadSize THEN Finish(decoded + n)
              ELSE UNCHANGED <<fileCall, opened>>
<1>1. /\ fileCall = "reading" /\ File.compressed /\ posComp \in Nat /\ pending \in Seq(Nat)
      /\ begun \in Nat /\ posDecomp \in Nat /\ decoded \in 0 .. ReadSize /\ ReadSize \in Nat
  BY StaticFileConstants DEF FileInv, FileTypeOK, ReadTurn
<1>2. SentTo(File, posDecomp) /\ posComp <= Len(File.symbols) /\ Decoder(File)
  BY <1>1 DEF ReadSoFar
<1>3. /\ Len(pending) <= posComp /\ Len(pending) \in Nat
      /\ posDecomp = To(File, posComp - Len(pending)) + begun /\ posDecomp <= To(File, posComp)
  BY <1>1, <1>2, LenProperties DEF Decoder
<1>4. /\ Sunk \in Nat /\ posComp + Sunk <= Len(File.symbols)
      /\ Unread = 0 => Sunk = 0 /\ posComp = Len(File.symbols)
      /\ Fed \in Seq(Nat) /\ Len(Fed) = Len(pending) + Sunk /\ Len(Fed) <= SinkSize
      /\ InARow(Fed, posComp - Len(pending))
  BY <1>1, <1>2, FedIs, Zenon
<1>5. PICK b \in Nat : b = posComp - Len(pending)
  BY <1>1, <1>3
<1>6. b + Len(Fed) = posComp + Sunk
  BY <1>1, <1>3, <1>4, <1>5
<1>7. /\ Output(Fed) \in Seq(Nat \X Nat) /\ To(File, b) \in Nat /\ To(File, posComp + Sunk) \in Nat
      /\ To(File, posComp + Sunk) <= Len(Content(File))
      /\ Len(Output(Fed)) = To(File, posComp + Sunk) - To(File, b)
      /\ \A m \in 1 .. Len(Output(Fed)) : Output(Fed)[m] = Content(File)[To(File, b) + m]
  <2>1. InARow(Fed, b) /\ b + Len(Fed) <= Len(File.symbols) /\ Fed \in Seq(Nat)
    BY <1>4, <1>5, <1>6
  <2> QED
    BY <1>6, <2>1, OutputIs, Zenon
<1>8. To(File, posComp) <= To(File, posComp + Sunk) /\ To(File, posComp) \in Nat
  <2> DEFINE r == [k \in 1 .. Sunk |-> posComp + k]
  <2>1. r \in Seq(Nat) /\ Len(r) = Sunk /\ \A k \in 1 .. Sunk : r[k] = posComp + k
    BY <1>1, <1>4
  <2>2. InARow(r, posComp) /\ posComp + Len(r) <= Len(File.symbols)
    BY <1>4, <2>1 DEF InARow
  <2> HIDE DEF r
  <2>3. To(File, posComp) <= To(File, posComp + Len(r)) /\ To(File, posComp) \in Nat
    BY <1>1, <2>1, <2>2, OutputIs, Zenon
  <2> QED
    BY <2>1, <2>3
<1>9. PICK v \in Nat, r \in Nat, d \in Nat, g \in Nat :
        /\ v = To(File, b) /\ r = To(File, posComp + Sunk) /\ d = posDecomp /\ g = begun
        /\ d = v + g /\ d <= r /\ Len(Output(Fed)) = r - v
  <2>1. posDecomp = To(File, b) + begun
    BY <1>3, <1>5
  <2>2. posDecomp <= To(File, posComp + Sunk)
    BY <1>1, <1>3, <1>7, <1>8
  <2> QED
    BY <1>1, <1>7, <2>1, <2>2
<1>10. d = v + g /\ d <= r
  BY <1>9, Zenon
<1>11. PICK ready \in Seq(Nat \X Nat) :
         /\ ready = SubSeq(Output(Fed), begun + 1, Len(Output(Fed))) /\ Len(ready) = r - d
         /\ \A m \in 1 .. r - d : ready[m] = Content(File)[d + m]
  <2>1. PICK o \in Seq(Nat \X Nat) : o = Output(Fed)
    BY <1>7
  <2>2. r - d \in Nat /\ g + (r - d) = Len(o) /\ g + (r - d) <= Len(o)
    <3>1. Len(o) = r - v
      BY <1>9, <2>1, Zenon
    <3> QED
      BY <1>10, <3>1
  <2>3. /\ SubSeq(o, g + 1, g + (r - d)) \in Seq(Nat \X Nat)
        /\ Len(SubSeq(o, g + 1, g + (r - d))) = r - d
        /\ \A m \in 1 .. r - d : SubSeq(o, g + 1, g + (r - d))[m] = o[g + m]
    <3>1. PICK k \in Nat : k = r - d
      BY <2>2
    <3>2. g + k <= Len(o)
      BY <2>2, <3>1
    <3>3. /\ SubSeq(o, g + 1, g + k) \in Seq(Nat \X Nat) /\ Len(SubSeq(o, g + 1, g + k)) = k
          /\ \A m \in 1 .. k : SubSeq(o, g + 1, g + k)[m] = o[g + m]
      BY <3>2, PartOf, SMTT(30)
    <3> QED
      BY <3>1, <3>3, Zenon
  <2>4. ASSUME NEW m \in 1 .. r - d PROVE o[g + m] = Content(File)[d + m]
    <3>1. g + m \in 1 .. Len(o) /\ v + (g + m) = d + m
      BY <1>10, <2>2
    <3>2. o[g + m] = Content(File)[v + (g + m)]
      BY <1>7, <1>9, <2>1, <3>1, Zenon
    <3> QED
      BY <3>1, <3>2, Zenon
  <2>5. SubSeq(Output(Fed), begun + 1, Len(Output(Fed))) = SubSeq(o, g + 1, g + (r - d))
    BY <1>9, <2>1, <2>2, Zenon
  <2> QED
    BY <2>3, <2>4, <2>5, Zenon
<1>12. PICK n : n = AtMost(Len(ready), ReadSize - decoded)
  OBVIOUS
<1>13. /\ n \in Nat /\ n <= r - d /\ decoded + n <= ReadSize
       /\ decoded + n # ReadSize => n = r - d
  <2>1. Len(ready) = r - d /\ r - d \in Nat
    BY <1>11, <1>10
  <2>2. PICK z \in Nat : z = Len(ready) /\ z = r - d
    BY <2>1
  <2>3. n = IF z < ReadSize - decoded THEN z ELSE ReadSize - decoded
    BY <1>12, <2>2, Zenon DEF AtMost
  <2>4. n \in Nat /\ n <= z /\ decoded + n <= ReadSize /\ (decoded + n # ReadSize => n = z)
    BY <1>1, <2>3
  <2> QED
    BY <2>2, <2>4, Zenon
<1>14. PICK u : u = Used(Fed, begun + n)
  OBVIOUS
<1>15. /\ u \in 0 .. Len(Fed) /\ Before(Fed, u) <= begun + n /\ Before(Fed, u) \in Nat
       /\ Before(Fed, u) = To(File, b + u) - To(File, b) /\ To(File, b + u) \in Nat
  <2>1. InARow(Fed, b) /\ b + Len(Fed) <= Len(File.symbols) /\ Fed \in Seq(Nat)
    BY <1>4, <1>5, <1>6
  <2>2. begun + n \in Nat
    BY <1>1, <1>13
  <2> QED
    BY <1>14, <2>1, <2>2, UsedIs, Zenon
<1>16. /\ posComp' = posComp + Sunk /\ pending' = SubSeq(Fed, u + 1, Len(Fed))
       /\ begun' = begun + n - Before(Fed, u)
       /\ posDecomp' = posDecomp + n /\ decoded' = decoded + n
       /\ body' = body \o SubSeq(ready, 1, n)
       /\ IF Unread = 0 \/ decoded + n = ReadSize THEN Finish(decoded + n)
          ELSE UNCHANGED <<fileCall, opened>>
       /\ UNCHANGED <<image, wanted, serving>>
  BY <1>11, <1>12, <1>14, Zenon DEF ReadTurn
<1>17. begun' \in Nat /\ posDecomp' = To(File, b + u) + begun'
  <2>1. PICK y \in Nat, z \in Nat : y = Before(Fed, u) /\ z = To(File, b + u) /\ y = z - v /\ y <= g + n
    BY <1>9, <1>15
  <2>2. begun' = g + n - y /\ posDecomp' = d + n
    BY <1>9, <1>16, <2>1
  <2>3. g + n - y \in Nat /\ d + n = z + (g + n - y)
    <3>1. n \in Nat /\ y = z - v /\ y <= g + n
      BY <1>13, <2>1, Zenon
    <3> QED
      BY <1>10, <3>1
  <2> QED
    BY <2>1, <2>2, <2>3
<1>18. SentTo(File, posDecomp)'
  <2>1. PICK more \in Seq(Nat \X Nat) : /\ more = SubSeq(ready, 1, n) /\ Len(more) = n
                                        /\ \A m \in 1 .. n : more[m] = ready[m]
    <3>1. n <= Len(ready) /\ n \in Nat
      BY <1>11, <1>13
    <3>2. /\ SubSeq(ready, 1, n) \in Seq(Nat \X Nat) /\ Len(SubSeq(ready, 1, n)) = n
          /\ \A m \in 1 .. n : SubSeq(ready, 1, n)[m] = ready[m]
      BY <3>1
    <3> QED
      BY <3>2, Zenon
  <2>2. \A m \in 1 .. Len(more) : more[m] = Content(File)[d + m]
    <3>1. ASSUME NEW m \in 1 .. n PROVE more[m] = Content(File)[d + m]
      <4>1. m \in 1 .. r - d
        <5>1. n \in Nat /\ n <= r - d
          BY <1>13, Zenon
        <5> QED
          BY <1>10, <5>1
      <4> QED
        BY <1>11, <2>1, <4>1, Zenon
    <3> QED
      BY <2>1, <3>1, Zenon
  <2>3. d + Len(more) <= Len(Content(File))
    <3>1. Len(Content(File)) \in Nat
      BY ContentIs
    <3> QED
      <4>1. r <= Len(Content(File)) /\ n \in Nat /\ n <= r - d /\ Len(more) = n
        BY <1>7, <1>9, <1>13, <2>1, Zenon
      <4> QED
        BY <3>1, <4>1
  <2>4. PICK f \in AnyFile : f = File
    OBVIOUS
  <2>5. body' = body \o more
    BY <1>16, <2>1
  <2>6. SentTo(f, d + Len(more))'
    <3>1. SentTo(f, d)
      BY <1>2, <1>9, <2>4, Zenon
    <3>2. d + Len(more) <= Len(Content(f))
      BY <2>3, <2>4
    <3>3. \A m \in 1 .. Len(more) : more[m] = Content(f)[d + m]
      BY <2>2, <2>4
    <3> QED
      BY <2>5, <3>1, <3>2, <3>3, SendsOn
  <2>7. f = File'
    BY <1>16, <2>4 DEF File
  <2>8. posDecomp' = d + Len(more)
    BY <1>9, <1>16, <2>1
  <2> QED
    BY <2>6, <2>7, <2>8, Zenon DEF SentTo
<1>19. /\ posDecomp + n <= To(File, posComp + Sunk)
       /\ decoded + n # ReadSize => posDecomp + n = To(File, posComp + Sunk)
  <2>1. n \in Nat /\ n <= r - d
    BY <1>13, Zenon
  <2>2. d + n <= r
    BY <2>1
  <2>3. n = r - d => d + n = r
    BY <1>10
  <2> QED
    BY <1>9, <1>13, <2>2, <2>3, Zenon
<1>20. Unread = 0 /\ decoded + n # ReadSize =>
         posComp = Len(File.symbols) /\ Sunk = 0 /\ posDecomp + n = To(File, posComp)
  <2> SUFFICES ASSUME Unread = 0, decoded + n # ReadSize
               PROVE  posComp = Len(File.symbols) /\ Sunk = 0 /\ posDecomp + n = To(File, posComp)
    OBVIOUS
  <2>1. posComp = Len(File.symbols) /\ Sunk = 0
    BY <1>4
  <2>2. posComp + Sunk = posComp
    BY <1>1, <2>1
  <2> QED
    BY <1>19, <2>1, <2>2
<1>21. u \in Nat /\ n \in Nat
  BY <1>4, <1>13, <1>15
<1> QED
  BY <1>4, <1>5, <1>6, <1>7, <1>13, <1>15, <1>16, <1>17, <1>18, <1>19, <1>20, <1>21

LEMMA TurnKeepsFileInv ==
  ASSUME FileInv, ReadTurn
  PROVE  FileInv'
<1>1. /\ fileCall = "reading" /\ opened = 1 /\ File.compressed
      /\ UNCHANGED <<image, wanted, serving>>
      /\ decoded \in 0 .. ReadSize /\ ReadSize \in Nat \ {0}
  BY StaticFileConstants DEF ReadTurn, FileInv, FileTypeOK
<1>2. \/ fileCall' = "reading" /\ opened' = 1
      \/ fileCall' = "waiting" /\ opened' = 1
      \/ fileCall' = "done" /\ opened' = 0
  <2>1. \/ \E n : Finish(n)
        \/ UNCHANGED <<fileCall, opened>>
    BY Zenon DEF ReadTurn
  <2> QED
    BY <1>1, <2>1, FinishIs
<1>3. fileCall' \in {"waiting", "reading", "done", "aborted"}
  BY <1>2
<1>4. /\ serving \in 1 .. Len(image) /\ File \in AnyFile /\ File' = File /\ ReadSoFar(File)
  BY <1>1, <1>3, StillFound
<1>5. PICK b \in Nat, n \in Nat, u \in Nat :
           /\ b = posComp - Len(pending)
           /\ Sunk \in Nat /\ posComp' = posComp + Sunk /\ posComp + Sunk <= Len(File.symbols)
           /\ u \in 0 .. Len(Fed) /\ b + Len(Fed) = posComp + Sunk /\ Len(Fed) <= SinkSize
           /\ Fed \in Seq(Nat) /\ InARow(Fed, b) /\ pending' = SubSeq(Fed, u + 1, Len(Fed))
           /\ To(File, b + u) \in Nat /\ begun' \in Nat
           /\ posDecomp' = posDecomp + n /\ posDecomp' = To(File, b + u) + begun'
           /\ posDecomp + n <= To(File, posComp + Sunk)
           /\ To(File, posComp + Sunk) <= Len(Content(File))
           /\ SentTo(File, posDecomp)'
           /\ decoded' = decoded + n /\ decoded + n <= ReadSize
           /\ Unread = 0 /\ decoded + n # ReadSize =>
                posComp = Len(File.symbols) /\ Sunk = 0 /\ posDecomp + n = To(File, posComp)
           /\ IF Unread = 0 \/ decoded + n = ReadSize THEN Finish(decoded + n)
              ELSE UNCHANGED <<fileCall, opened>>
  BY <1>1, <1>4, TurnIs, Zenon
<1>6. posComp \in Nat /\ posDecomp \in Nat /\ posComp' \in Nat /\ posDecomp' \in Nat
  <2>1. posComp \in Nat /\ posDecomp \in Nat
    BY DEF FileInv, FileTypeOK
  <2>2. posComp' = posComp + Sunk /\ posDecomp' = posDecomp + n /\ Sunk \in Nat
    BY <1>5, Zenon
  <2> QED
    BY <2>1, <2>2
<1>7. PICK q \in Seq(Nat) : q = Fed /\ u \in 0 .. Len(q) /\ InARow(q, b)
  BY <1>5, Zenon
<1>8. PICK p \in Seq(Nat) : /\ p = pending' /\ Len(p) = Len(q) - u
                            /\ \A i \in 1 .. Len(p) : p[i] = (b + u) + i
  <2>1. PICK k \in Nat : k = Len(q) - u /\ u + k = Len(q) /\ u + k <= Len(q)
    BY <1>7, LenProperties
  <2>2. /\ SubSeq(q, u + 1, u + k) \in Seq(Nat) /\ Len(SubSeq(q, u + 1, u + k)) = k
        /\ \A i \in 1 .. k : SubSeq(q, u + 1, u + k)[i] = q[u + i]
    BY <2>1, PartOf
  <2>3. pending' = SubSeq(q, u + 1, u + k)
    BY <1>5, <1>7, <2>1, Zenon
  <2>4. ASSUME NEW i \in 1 .. k PROVE q[u + i] = (b + u) + i
    <3>1. u + i \in 1 .. Len(q) /\ b + (u + i) = (b + u) + i
      BY <2>1
    <3> QED
      BY <1>7, <3>1, Zenon DEF InARow
  <2> QED
    BY <2>1, <2>2, <2>3, <2>4, Zenon
<1>9. posComp' - Len(pending') = b + u
  <2>1. posComp' = b + Len(q)
    BY <1>5, <1>7
  <2>2. Len(q) \in Nat
    BY LenProperties
  <2> QED
    BY <1>8, <2>1, <2>2
<1>10. Decoder(File)'
  <2>1. Len(pending') <= posComp' /\ Len(pending') <= SinkSize
    <3>1. Len(p) = Len(q) - u /\ u \in Nat /\ b \in Nat /\ Len(q) \in Nat
      BY <1>8, LenProperties
    <3>2. posComp' = b + Len(q) /\ Len(q) <= SinkSize /\ pending' = p
      BY <1>5, <1>7, <1>8
    <3>3. SinkSize \in Nat
      BY StaticFileConstants
    <3> QED
      BY <3>1, <3>2, <3>3
  <2>2. InARow(pending', posComp' - Len(pending'))
    BY <1>8, <1>9, Zenon DEF InARow
  <2>3. /\ posDecomp' = To(File', posComp' - Len(pending')) + begun'
        /\ posDecomp' <= To(File', posComp')
    <3>1. posDecomp' = To(File, b + u) + begun' /\ posDecomp' <= To(File, posComp')
      BY <1>5, Zenon
    <3> QED
      BY <1>4, <1>9, <3>1, Zenon
  <2> QED
    BY <2>1, <2>2, <2>3, Zenon DEF Decoder, InARow
<1>11. ReadSoFar(File)'
  <2>1. posComp' <= Len(File'.symbols)
    BY <1>4, <1>5, Zenon
  <2>2. SentTo(File, posDecomp)'
    BY <1>5, Zenon
  <2>3. File'.compressed
    BY <1>1, <1>4, Zenon
  <2> QED
    BY <1>10, <2>1, <2>2, <2>3, Zenon DEF ReadSoFar
<1>12. ASSUME fileCall' = "done" PROVE posDecomp' = Len(Content(File))
  <2>1. Unread = 0 \/ decoded + n = ReadSize
    BY <1>1, <1>5, <1>12
  <2>2. Finish(decoded + n)
    BY <1>5, <2>1, Zenon
  <2>3. decoded + n # ReadSize
    BY <1>1, <1>12, <2>2, FinishIs
  <2>4. posComp = Len(File.symbols) /\ posDecomp + n = To(File, posComp)
    BY <1>5, <2>1, <2>3, Zenon
  <2>5. To(File, Len(File.symbols)) = Len(Content(File))
    <3>1. PICK s \in Seq(Seq(Nat \X Nat)) : s = Parts(File)
      BY <1>4, ContentIs
    <3>2. Reach(s, Len(s)) = Len(FlattenSeq(s))
      BY ReachGrows
    <3>3. Len(s) = Len(File.symbols) /\ Content(File) = FlattenSeq(s)
      BY <1>4, <3>1, ContentIs, Zenon
    <3> QED
      BY <3>1, <3>2, <3>3, Zenon DEF To
  <2> QED
    BY <1>5, <2>4, <2>5, Zenon
<1>13. decoded' \in 0 .. ReadSize
  <2>1. decoded' = decoded + n /\ decoded + n <= ReadSize
    BY <1>5, Zenon
  <2> QED
    BY <1>1, <2>1
<1>14. pending' \in Seq(Nat) /\ begun' \in Nat
  BY <1>5, <1>8, Zenon
<1>15. opened' = IF fileCall' \in {"waiting", "reading"} THEN 1 ELSE 0
  BY <1>2
<1> QED
  BY <1>1, <1>3, <1>6, <1>11, <1>12, <1>13, <1>14, <1>15, ReadingKeepsFileInv

LEMMA FileInvStep == FileInv /\ [FileNext]_fileVars => FileInv'
<1> SUFFICES ASSUME FileInv, [FileNext]_fileVars PROVE FileInv'
  OBVIOUS
<1>1. CASE OpenFile
  BY <1>1, OpenKeepsFileInv
<1>2. CASE ReadPlain
  BY <1>2, PlainKeepsFileInv
<1>3. CASE ReadCompressed
  BY <1>3, CompressedKeepsFileInv
<1>4. CASE ReadTurn
  BY <1>4, TurnKeepsFileInv
<1>5. CASE CloseFile
  BY <1>5, CloseKeepsFileInv
<1>6. CASE UNCHANGED fileVars
  <2>1. UNCHANGED <<image, wanted, serving, fileCall, posComp, pending, begun, posDecomp, decoded,
                    opened, body>>
    BY <1>6 DEF fileVars, positions
  <2>2. (AnyImage /\ FileTypeOK)'
    BY <2>1 DEF FileInv, AnyImage, FileTypeOK
  <2>3. File' = File
    BY <2>1 DEF File
  <2>4. (serving # 0 => ReadSoFar(File))'
    BY <2>1, <2>3, Zenon DEF FileInv, ReadSoFar, SentTo, Decoder
  <2>5. (fileCall # "none" => LookedUp)'
    BY <2>1, RightStays, Zenon DEF FileInv, LookedUp
  <2>6. (fileCall = "none" => serving = 0 /\ AtStart)'
    BY <2>1 DEF FileInv, AtStart
  <2>7. /\ (serving = 0 => fileCall \in {"none", "notfound"})'
        /\ (fileCall = "reading" => File.compressed)'
        /\ (fileCall = "done" => posDecomp = Len(Content(File)))'
        /\ ((opened = 1) = (fileCall \in {"waiting", "reading"}))'
    BY <2>1, <2>3 DEF FileInv
  <2> QED
    BY <2>2, <2>4, <2>5, <2>6, <2>7 DEF FileInv
<1> QED
  BY <1>1, <1>2, <1>3, <1>4, <1>5, <1>6 DEF FileNext

\* What it says of the file.
LEMMA FileInvIsWhole == FileInv => FileReadWhole
<1> SUFFICES ASSUME FileInv PROVE FileReadWhole
  OBVIOUS
<1>1. fileCall # "none" => LookedUp
  BY DEF FileInv
<1>2. ASSUME serving # 0
      PROVE  /\ IsPrefix(body, Content(File))
             /\ fileCall = "done" => body = Content(File)
  <2>1. AnyImage /\ serving \in 1 .. Len(image)
    <3>1. AnyImage /\ serving \in 0 .. Len(image)
      BY DEF FileInv, FileTypeOK
    <3>2. Len(image) \in Nat
      BY <3>1 DEF AnyImage
    <3> QED
      BY <1>2, <3>1, <3>2
  <2>2. PICK c \in Seq(Nat \X Nat) : c = Content(File)
    BY <2>1, FileIs, ContentIs
  <2>3. SentTo(File, posDecomp) /\ posDecomp \in Nat
    BY <1>2 DEF FileInv, ReadSoFar, FileTypeOK
  <2>4. PICK a \in Seq(Nat \X Nat), n \in Nat :
          a = body /\ Len(a) = n /\ n = posDecomp /\ n <= Len(c) /\ \A m \in 1 .. n : a[m] = c[m]
    BY <2>2, <2>3, Zenon DEF SentTo
  <2>5. /\ SubSeq(a, 1, n) \in Seq(Nat \X Nat) /\ Len(SubSeq(a, 1, n)) = n
        /\ SubSeq(c, 1, n) \in Seq(Nat \X Nat) /\ Len(SubSeq(c, 1, n)) = n
        /\ \A m \in 1 .. n : SubSeq(a, 1, n)[m] = a[m] /\ SubSeq(c, 1, n)[m] = c[m]
    BY <2>4
  <2>6. SubSeq(a, 1, n) = SubSeq(c, 1, n)
    BY <2>4, <2>5, SeqEqual
  <2>7. fileCall = "done" => n = Len(c)
    BY <2>2, <2>4 DEF FileInv
  <2>8. n = Len(c) => a = c
    BY <2>4, SeqEqual
  <2> QED
    BY <2>2, <2>4, <2>6, <2>7, <2>8, Zenon DEF IsPrefix
<1>3. fileCall = "done" => serving # 0
  BY DEF FileInv
<1>4. (opened = 1) = (fileCall \in {"waiting", "reading"})
  BY DEF FileInv
<1>5. /\ serving # 0 => IsPrefix(body, Content(File))
      /\ fileCall = "done" => body = Content(File)
  BY <1>2, <1>3
<1> QED
  BY <1>1, <1>4, <1>5, Zenon DEF FileReadWhole, LookedUp

\* espFsOpen, espFsRead and serveStaticFile keep to their types.
THEOREM FileTypes == FileSpec => []FileTypeOK
<1>1. FileInv => FileTypeOK
  BY DEF FileInv
<1> QED
  BY <1>1, FileInvInit, FileInvStep, PTL DEF FileSpec

\* A client gets the file it asked for, or the index in its place, from its first byte to its last,
\* however long reads are, wherever symbols are cut and whatever room the decoder has
\* (espFsOpen, espFsRead, serveStaticFile); the file struct is freed.
THEOREM FilesAreWhole == FileSpec => []FileReadWhole
<1> QED
  BY FileInvInit, FileInvStep, FileInvIsWhole, PTL DEF FileSpec
=============================================================================
