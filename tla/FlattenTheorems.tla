--------------------------- MODULE FlattenTheorems ---------------------------
(***************************************************************************)
(* Facts about FlattenSeq, with which the models say what a sequence of    *)
(* packets, chunks or pieces amounts to. FlattenSeq is defined by a        *)
(* recursive function, so they need induction. The induction theorems of   *)
(* the library take the formula as a parameter; here the least element of  *)
(* a set of numbers takes their place: the least number for which          *)
(* something fails.                                                        *)
(***************************************************************************)
EXTENDS Integers, Sequences, SequencesExt, SequenceTheorems, WellFoundedInduction, TLAPS

\* A set of natural numbers that is not empty has a least element.
LEMMA LeastElement ==
  ASSUME NEW T, T \subseteq Nat, T # {}
  PROVE  \E x \in T : \A y \in T : x <= y
<1>1. IsWellFoundedOn(OpToRel(<, Nat), Nat)
  BY NatLessThanWellFounded, Zenon
<1>2. PICK x \in T : \A y \in T : ~ (<<y, x>> \in OpToRel(<, Nat))
  BY <1>1, WFMin, Zenon
<1>3. ASSUME NEW y \in T PROVE x <= y
  <2>1. ~ (<<y, x>> \in {ss \in Nat \X Nat : ss[1] < ss[2]})
    BY <1>2 DEF OpToRel
  <2> QED
    BY <2>1
<1> QED
  BY <1>3

\* Induction from 1 to n, for a set: what holds of the first and of each behind one for which it
\* holds, holds of all.
LEMMA UpTo ==
  ASSUME NEW n \in Nat, NEW T,
         n >= 1 => 1 \in T,
         \A i \in 1 .. n : i > 1 /\ i - 1 \in T => i \in T
  PROVE  1 .. n \subseteq T
<1> DEFINE Bad == {i \in 1 .. n : i \notin T}
<1>1. SUFFICES ASSUME Bad # {} PROVE FALSE
  OBVIOUS
<1>2. Bad \subseteq Nat
  OBVIOUS
<1>3. PICK m \in Bad : \A y \in Bad : m <= y
  BY <1>1, <1>2, LeastElement
<1>4. m > 1
  BY <1>3
<1>5. m - 1 \in T
  BY <1>3, <1>4
<1> QED
  BY <1>3, <1>4, <1>5

\* f[i] is the first i members of s, one behind the other.
IsFlattening(f, s) ==
  f = [i \in 1 .. Len(s) |-> IF i = 1 THEN s[i] ELSE f[i - 1] \o s[i]]

\* What that says of the first value and of every other one.
LEMMA FlatteningFirst ==
  ASSUME NEW s, NEW f, IsFlattening(f, s), 1 \in 1 .. Len(s)
  PROVE  f[1] = s[1]
BY Zenon DEF IsFlattening

\* Each further value appends the next sequence.
LEMMA FlatteningNext ==
  ASSUME NEW s, NEW f, IsFlattening(f, s), NEW i \in 1 .. Len(s), i # 1
  PROVE  f[i] = f[i - 1] \o s[i]
BY Zenon DEF IsFlattening

\* There is such a function.
LEMMA FlatteningExists ==
  ASSUME NEW S, NEW s \in Seq(S)
  PROVE  \E f : IsFlattening(f, s)
<1> DEFINE Upto(n, f) == f = [i \in 1 .. n |-> IF i = 1 THEN s[i] ELSE f[i - 1] \o s[i]]
           T == {n \in 1 .. Len(s) : \E f : Upto(n, f)}
<1>1. CASE s = <<>>
  <2> DEFINE g == [i \in 1 .. Len(s) |-> s[i]]
  <2>1. IsFlattening(g, s)
    BY <1>1 DEF IsFlattening
  <2> QED
    BY <2>1
<1>2. CASE s # <<>>
  <2>1. Len(s) \in Nat /\ Len(s) >= 1
    BY <1>2
  <2>2. 1 \in T
    <3> DEFINE g == [i \in 1 .. 1 |-> s[1]]
    <3>1. Upto(1, g)
      OBVIOUS
    <3>2. 1 \in 1 .. Len(s)
      BY <2>1
    <3> HIDE DEF g, Upto
    <3>3. \E f : Upto(1, f)
      BY <3>1
    <3> QED
      BY <3>2, <3>3
  <2>3. ASSUME NEW n \in 1 .. Len(s), n > 1, n - 1 \in T
        PROVE  n \in T
    <3>1. PICK f : Upto(n - 1, f)
      BY <2>3
    <3> DEFINE g == [i \in 1 .. n |-> IF i = n THEN f[n - 1] \o s[n] ELSE f[i]]
    <3>2. ASSUME NEW i \in 1 .. n
          PROVE  g[i] = IF i = 1 THEN s[i] ELSE g[i - 1] \o s[i]
      <4>1. CASE i = n
        <5>0. i # 1
          BY <4>1, <2>3
        <5>1. g[i] = f[n - 1] \o s[n]
          BY <4>1, Zenon
        <5>2. g[i - 1] = f[n - 1]
          BY <4>1, <2>3
        <5> HIDE DEF g
        <5> QED
          BY <4>1, <5>0, <5>1, <5>2
      <4>2. CASE i # n
        <5>1. i \in 1 .. (n - 1) /\ g[i] = f[i]
          BY <4>2
        <5>2. f[i] = IF i = 1 THEN s[i] ELSE f[i - 1] \o s[i]
          BY <3>1, <5>1
        <5>3. i # 1 => g[i - 1] = f[i - 1]
          BY <4>2
        <5> QED
          BY <5>1, <5>2, <5>3
      <4> QED
        BY <4>1, <4>2
    <3> HIDE DEF g
    <3>3. Upto(n, g)
      <4>1. g = [i \in 1 .. n |-> g[i]]
        BY DEF g
      <4> QED
        BY <3>2, <4>1
    <3> QED
      BY <3>3
  <2> HIDE DEF T
  <2>4. Len(s) \in T
    BY <2>1, <2>2, <2>3, UpTo
  <2>5. PICK f : Upto(Len(s), f)
    BY <2>4 DEF T
  <2> QED
    BY <2>5 DEF IsFlattening
<1> QED
  BY <1>1, <1>2

\* FlattenSeq is its last value.
LEMMA FlattenSeqDef ==
  ASSUME NEW S, NEW s \in Seq(S), s # <<>>
  PROVE  \E f : IsFlattening(f, s) /\ FlattenSeq(s) = f[Len(s)]
<1> DEFINE g == CHOOSE f : f = [i \in 1 .. Len(s) |-> IF i = 1 THEN s[i] ELSE f[i - 1] \o s[i]]
<1>1. Len(s) # 0
  OBVIOUS
<1>2. FlattenSeq(s) = g[Len(s)]
  BY <1>1 DEF FlattenSeq
<1>3. \E f : f = [i \in 1 .. Len(s) |-> IF i = 1 THEN s[i] ELSE f[i - 1] \o s[i]]
  BY FlatteningExists DEF IsFlattening
<1>4. g = [i \in 1 .. Len(s) |-> IF i = 1 THEN s[i] ELSE g[i - 1] \o s[i]]
  BY <1>3
<1>5. IsFlattening(g, s)
  BY <1>4 DEF IsFlattening
<1> QED
  BY <1>2, <1>5

\* Its values are sequences of what the members of s are sequences of.
LEMMA FlatteningType ==
  ASSUME NEW S, NEW s \in Seq(Seq(S)), NEW f, IsFlattening(f, s)
  PROVE  \A i \in 1 .. Len(s) : f[i] \in Seq(S)
<1> DEFINE T == {i \in 1 .. Len(s) : f[i] \in Seq(S)}
<1>1. Len(s) \in Nat /\ \A i \in 1 .. Len(s) : s[i] \in Seq(S)
  BY ElementOfSeq, LenProperties
<1>3. Len(s) >= 1 => 1 \in T
  BY <1>1, FlatteningFirst
<1>4. ASSUME NEW i \in 1 .. Len(s), i > 1, i - 1 \in T
      PROVE  i \in T
  <2>1. f[i] = f[i - 1] \o s[i]
    <3>1. i # 1
      BY <1>4
    <3> QED
      BY <3>1, FlatteningNext, Zenon
  <2>2. f[i - 1] \in Seq(S) /\ s[i] \in Seq(S)
    BY <1>1, <1>4
  <2>3. f[i] \in Seq(S)
    BY <2>1, <2>2, ConcatProperties
  <2> QED
    BY <2>3
<1> HIDE DEF T
<1>5. 1 .. Len(s) \subseteq T
  BY <1>1, <1>3, <1>4, UpTo
<1> QED
  BY <1>5 DEF T

\* f and g begin with the same n values.
AlikeUpTo(f, g, n) == \A i \in 1 .. n : f[i] = g[i]

\* Two sequences that begin alike are flattened alike so far.
LEMMA FlatteningsAgree ==
  ASSUME NEW s, NEW t, NEW f, NEW g, IsFlattening(f, s), IsFlattening(g, t),
         NEW n \in Nat, 1 .. n \subseteq 1 .. Len(s), 1 .. n \subseteq 1 .. Len(t),
         AlikeUpTo(s, t, n)
  PROVE  AlikeUpTo(f, g, n)
<1> DEFINE T == {i \in 1 .. n : f[i] = g[i]}
<1>1. \A i \in 1 .. n : s[i] = t[i]
  BY DEF AlikeUpTo
<1>3. n >= 1 => 1 \in T
  <2> SUFFICES ASSUME n >= 1 PROVE f[1] = g[1]
    OBVIOUS
  <2>1. 1 \in 1 .. n
    OBVIOUS
  <2>2. f[1] = s[1] /\ g[1] = t[1] /\ s[1] = t[1]
    BY <1>1, <2>1, FlatteningFirst, Zenon
  <2> QED
    BY <2>2
<1>4. ASSUME NEW i \in 1 .. n, i > 1, i - 1 \in T
      PROVE  i \in T
  <2>1. f[i] = f[i - 1] \o s[i] /\ g[i] = g[i - 1] \o t[i]
    <3>1. i # 1 /\ i \in 1 .. Len(s) /\ i \in 1 .. Len(t)
      BY <1>4
    <3> QED
      BY <3>1, FlatteningNext, Zenon
  <2>2. f[i - 1] = g[i - 1] /\ s[i] = t[i]
    BY <1>1, <1>4
  <2>3. f[i] = g[i]
    BY <2>1, <2>2, Zenon
  <2> QED
    BY <2>3
<1> HIDE DEF T
<1>5. 1 .. n \subseteq T
  BY <1>3, <1>4, UpTo
<1> QED
  BY <1>5 DEF T, AlikeUpTo

-----------------------------------------------------------------------------
\* Nothing is flattened to nothing.
LEMMA FlattenEmpty == FlattenSeq(<<>>) = <<>>
BY DEF FlattenSeq

\* A sequence of sequences is flattened to a sequence.
LEMMA FlattenType ==
  ASSUME NEW S, NEW s \in Seq(Seq(S))
  PROVE  FlattenSeq(s) \in Seq(S)
<1>1. CASE s = <<>>
  BY <1>1, FlattenEmpty, EmptySeq
<1>2. CASE s # <<>>
  <2>1. PICK f : IsFlattening(f, s) /\ FlattenSeq(s) = f[Len(s)]
    BY <1>2, FlattenSeqDef
  <2>2. Len(s) \in 1 .. Len(s)
    BY <1>2, EmptySeq
  <2> QED
    BY <2>1, <2>2, FlatteningType
<1> QED
  BY <1>1, <1>2

\* A member behind the others is flattened behind them.
LEMMA FlattenAppend ==
  ASSUME NEW S, NEW s \in Seq(Seq(S)), NEW b \in Seq(S)
  PROVE  FlattenSeq(Append(s, b)) = FlattenSeq(s) \o b
<1> DEFINE t == Append(s, b)
<1>1. /\ t \in Seq(Seq(S)) /\ t # <<>> /\ Len(t) = Len(s) + 1 /\ t[Len(s) + 1] = b
      /\ \A i \in 1 .. Len(s) : t[i] = s[i]
  BY AppendProperties
<1> HIDE DEF t
<1>2. PICK g : IsFlattening(g, t) /\ FlattenSeq(t) = g[Len(t)]
  BY <1>1, FlattenSeqDef
<1>3. Len(s) \in Nat
  BY LenProperties
<1>5. CASE s = <<>>
  <2>1. g[Len(t)] = b
    BY <1>1, <1>2, <1>5, FlatteningFirst
  <2>2. FlattenSeq(s) \o b = b
    BY <1>5, FlattenEmpty, ConcatEmptySeq
  <2> QED
    BY <1>2, <2>1, <2>2 DEF t
<1>6. CASE s # <<>>
  <2>1. Len(s) >= 1
    BY <1>3, <1>6, EmptySeq
  <2>2. PICK f : IsFlattening(f, s) /\ FlattenSeq(s) = f[Len(s)]
    BY <1>6, FlattenSeqDef
  <2>3. f[Len(s)] = g[Len(s)]
    <3>1. 1 .. Len(s) \subseteq 1 .. Len(s) /\ 1 .. Len(s) \subseteq 1 .. Len(t)
      BY <1>1, <1>3
    <3>2. \A i \in 1 .. Len(s) : f[i] = g[i]
      <4>1. AlikeUpTo(s, t, Len(s))
        BY <1>1 DEF AlikeUpTo
      <4>2. AlikeUpTo(f, g, Len(s))
        BY <1>2, <1>3, <2>2, <3>1, <4>1, FlatteningsAgree, Zenon
      <4> QED
        BY <4>2 DEF AlikeUpTo
    <3>3. Len(s) \in 1 .. Len(s)
      BY <1>3, <2>1
    <3> QED
      BY <3>2, <3>3, Zenon
  <2>4. g[Len(t)] = g[Len(s)] \o b
    <3>1. Len(t) \in 1 .. Len(t) /\ Len(t) # 1 /\ Len(t) - 1 = Len(s) /\ t[Len(t)] = b
      BY <1>1, <1>3, <2>1
    <3> QED
      BY <1>2, <3>1, FlatteningNext, Zenon
  <2> QED
    BY <1>2, <2>2, <2>3, <2>4 DEF t
<1> QED
  BY <1>5, <1>6

\* The first member is flattened in front of the others.
LEMMA FlattenHead ==
  ASSUME NEW S, NEW s \in Seq(Seq(S)), s # <<>>
  PROVE  FlattenSeq(s) = Head(s) \o FlattenSeq(Tail(s))
<1> DEFINE t == Tail(s)
           n == Len(t)
<1>1. /\ s[1] \in Seq(S) /\ Head(s) = s[1]
      /\ t \in Seq(Seq(S)) /\ Len(s) = n + 1 /\ n \in Nat
      /\ \A i \in 1 .. n : t[i] = s[i + 1] /\ t[i] \in Seq(S)
  BY HeadTailProperties, ElementOfSeq, LenProperties
<1> HIDE DEF t, n
<1>2. PICK f : IsFlattening(f, s) /\ FlattenSeq(s) = f[Len(s)]
  BY FlattenSeqDef
<1>3. f[1] = s[1]
  <2>1. 1 \in 1 .. Len(s)
    BY <1>1
  <2> QED
    BY <1>2, <2>1, FlatteningFirst, Zenon
<1>4. CASE n = 0
  <2>1. t = <<>>
    BY <1>1, <1>4, EmptySeq DEF n
  <2>2. FlattenSeq(s) = s[1]
    BY <1>1, <1>2, <1>3, <1>4
  <2> QED
    BY <1>1, <2>1, <2>2, FlattenEmpty, ConcatEmptySeq DEF t
<1>5. CASE n # 0
  <2>0. t # <<>>
    BY <1>5, EmptySeq DEF n
  <2>1. PICK g : IsFlattening(g, t) /\ FlattenSeq(t) = g[Len(t)]
    BY <1>1, <2>0, FlattenSeqDef
  <2>3. \A i \in 1 .. n : g[i] \in Seq(S)
    BY <1>1, <2>1, FlatteningType DEF n
  <2> DEFINE T == {i \in 1 .. n : f[i + 1] = s[1] \o g[i]}
  <2>4. n >= 1 => 1 \in T
    <3>1. ASSUME n >= 1 PROVE f[2] = s[1] \o g[1]
      <4>1. 2 \in 1 .. Len(s) /\ 2 # 1 /\ 2 - 1 = 1
        BY <1>1, <3>1
      <4>2. f[2] = f[1] \o s[2]
        BY <1>2, <4>1, FlatteningNext, Zenon
      <4>3. g[1] = t[1] /\ t[1] = s[2]
        BY <1>1, <2>1, <3>1, FlatteningFirst DEF n
      <4> QED
        BY <1>3, <4>2, <4>3, Zenon
    <3>2. n >= 1 => 1 \in 1 .. n /\ 1 + 1 = 2
      BY <1>1
    <3> QED
      BY <3>1, <3>2, Zenon
  <2>5. ASSUME NEW i \in 1 .. n, i > 1, i - 1 \in T
        PROVE  i \in T
    <3>1. f[i] = s[1] \o g[i - 1]
      <4>1. f[(i - 1) + 1] = s[1] \o g[i - 1]
        BY <2>5
      <4>2. (i - 1) + 1 = i
        BY <1>1
      <4> QED
        BY <4>1, <4>2, Zenon
    <3>2. f[i + 1] = f[i] \o s[i + 1]
      <4>1. i + 1 \in 1 .. Len(s) /\ i + 1 # 1 /\ (i + 1) - 1 = i
        BY <1>1
      <4>2. f[i + 1] = f[(i + 1) - 1] \o s[i + 1]
        BY <1>2, <4>1, FlatteningNext, Zenon
      <4> QED
        BY <4>1, <4>2, Zenon
    <3>3. g[i] = g[i - 1] \o t[i] /\ t[i] = s[i + 1]
      <4>1. i \in 1 .. Len(t) /\ i # 1
        BY <2>5 DEF n
      <4>2. g[i] = g[i - 1] \o t[i]
        BY <2>1, <4>1, FlatteningNext, Zenon
      <4> QED
        BY <1>1, <4>2, Zenon
    <3>4. g[i - 1] \in Seq(S) /\ t[i] \in Seq(S)
      <4>1. i - 1 \in 1 .. n
        BY <1>1, <2>5
      <4> QED
        BY <1>1, <2>3, <4>1
    <3>5. (s[1] \o g[i - 1]) \o t[i] = s[1] \o (g[i - 1] \o t[i])
      <4>1. PICK a \in Seq(S), b \in Seq(S), c \in Seq(S) :
                   a = s[1] /\ b = g[i - 1] /\ c = t[i]
        BY <1>1, <3>4, Zenon
      <4>2. (a \o b) \o c = a \o (b \o c)
        BY SMT
      <4> QED
        BY <4>1, <4>2, Zenon
    <3>6. f[i + 1] = s[1] \o g[i]
      BY <3>1, <3>2, <3>3, <3>5, Zenon
    <3> QED
      BY <3>6
  <2> HIDE DEF T
  <2>6. 1 .. n \subseteq T
    BY <1>1, <2>4, <2>5, UpTo
  <2>7. f[n + 1] = s[1] \o g[n]
    <3>1. n \in T
      BY <1>1, <1>5, <2>6
    <3> QED
      BY <3>1 DEF T
  <2> QED
    BY <1>1, <1>2, <2>1, <2>7 DEF t, n
<1> QED
  BY <1>4, <1>5

\* Flattening the first n members is flattening n - 1 of them with the last one behind.
LEMMA FlattenPrefix ==
  ASSUME NEW S, NEW s \in Seq(Seq(S)), NEW n \in 1 .. Len(s)
  PROVE  FlattenSeq(SubSeq(s, 1, n)) = FlattenSeq(SubSeq(s, 1, n - 1)) \o s[n]
<1> DEFINE p == SubSeq(s, 1, n - 1)
           q == SubSeq(s, 1, n)
<1>1. /\ p \in Seq(Seq(S)) /\ q \in Seq(Seq(S)) /\ Len(p) = n - 1 /\ Len(q) = n
      /\ \A i \in 1 .. n - 1 : p[i] = s[i]
      /\ \A i \in 1 .. n : q[i] = s[i]
      /\ s[n] \in Seq(S)
  OBVIOUS
<1>2. q = Append(p, s[n])
  <2>1. Append(p, s[n]) \in Seq(Seq(S)) /\ Len(Append(p, s[n])) = n
    BY <1>1, AppendProperties
  <2>2. \A i \in 1 .. n : Append(p, s[n])[i] = q[i]
    BY <1>1, AppendProperties
  <2> QED
    BY <1>1, <2>1, <2>2, SeqEqual
<1> HIDE DEF p, q
<1>3. FlattenSeq(Append(p, s[n])) = FlattenSeq(p) \o s[n]
  BY <1>1, FlattenAppend
<1> QED
  BY <1>2, <1>3 DEF p, q

\* The members of two sequences, one behind the other.
LEMMA ConcatMember ==
  ASSUME NEW S, NEW a \in Seq(S), NEW b \in Seq(S), NEW c, c = a \o b
  PROVE  /\ \A m \in 1 .. Len(a) : c[m] = a[m]
         /\ \A m \in 1 .. Len(b) : c[Len(a) + m] = b[m]
BY ConcatProperties, LenProperties

\* How long the first n members are, one behind the other.
Reach(s, n) == Len(FlattenSeq(SubSeq(s, 1, n)))

\* It grows by a member at a time.
LEMMA ReachGrows ==
  ASSUME NEW S, NEW s \in Seq(Seq(S))
  PROVE  /\ \A n \in 0 .. Len(s) : Reach(s, n) \in Nat
         /\ Reach(s, 0) = 0 /\ Reach(s, Len(s)) = Len(FlattenSeq(s))
         /\ \A n \in 1 .. Len(s) : Reach(s, n) = Reach(s, n - 1) + Len(s[n])
<1>1. ASSUME NEW n \in 0 .. Len(s)
      PROVE  FlattenSeq(SubSeq(s, 1, n)) \in Seq(S) /\ Reach(s, n) \in Nat
  <2>1. SubSeq(s, 1, n) \in Seq(Seq(S))
    OBVIOUS
  <2> QED
    BY <2>1, FlattenType, LenProperties DEF Reach
<1>2. Reach(s, 0) = 0
  <2>1. SubSeq(s, 1, 0) = <<>>
    BY SubSeqEmpty
  <2>2. Reach(s, 0) = Len(<<>>)
    BY <2>1, FlattenEmpty, Zenon DEF Reach
  <2> QED
    BY <2>2
<1>3. Reach(s, Len(s)) = Len(FlattenSeq(s))
  <2>1. SubSeq(s, 1, Len(s)) = s
    OBVIOUS
  <2> QED
    BY <2>1 DEF Reach
<1>4. ASSUME NEW n \in 1 .. Len(s)
      PROVE  Reach(s, n) = Reach(s, n - 1) + Len(s[n])
  <2>1. FlattenSeq(SubSeq(s, 1, n)) = FlattenSeq(SubSeq(s, 1, n - 1)) \o s[n]
    BY FlattenPrefix
  <2>2. FlattenSeq(SubSeq(s, 1, n - 1)) \in Seq(S) /\ s[n] \in Seq(S)
    <3>1. n - 1 \in 0 .. Len(s)
      OBVIOUS
    <3> QED
      BY <1>1, <3>1, ElementOfSeq
  <2> QED
    BY <2>1, <2>2, ConcatProperties DEF Reach
<1> QED
  BY <1>1, <1>2, <1>3, <1>4

\* Where each member lies in the whole.
LEMMA FlattenMember ==
  ASSUME NEW S, NEW s \in Seq(Seq(S))
  PROVE  \A n \in 1 .. Len(s) :
           /\ Reach(s, n) <= Len(FlattenSeq(s))
           /\ \A m \in 1 .. Len(s[n]) : FlattenSeq(s)[Reach(s, n - 1) + m] = s[n][m]
<1> DEFINE Flat(k) == FlattenSeq(SubSeq(s, 1, k))
           Good(k) == \A n \in 1 .. k :
                        /\ Reach(s, n) <= Reach(s, k)
                        /\ \A m \in 1 .. Len(s[n]) : Flat(k)[Reach(s, n - 1) + m] = s[n][m]
           T == {k \in 1 .. Len(s) : Good(k)}
<1>1. Len(s) \in Nat
  BY LenProperties
<1>2. /\ \A n \in 0 .. Len(s) : Reach(s, n) \in Nat /\ Flat(n) \in Seq(S) /\ Len(Flat(n)) = Reach(s, n)
      /\ Reach(s, 0) = 0
      /\ \A n \in 1 .. Len(s) : /\ Reach(s, n) = Reach(s, n - 1) + Len(s[n])
                                /\ s[n] \in Seq(S) /\ Len(s[n]) \in Nat
  <2>1. ASSUME NEW n \in 0 .. Len(s)
        PROVE  Flat(n) \in Seq(S)
    <3>1. SubSeq(s, 1, n) \in Seq(Seq(S))
      OBVIOUS
    <3> QED
      BY <3>1, FlattenType
  <2>2. \A n \in 1 .. Len(s) : s[n] \in Seq(S) /\ Len(s[n]) \in Nat
    BY ElementOfSeq, LenProperties
  <2>3. \A n \in 0 .. Len(s) : Len(Flat(n)) = Reach(s, n)
    BY DEF Reach
  <2> HIDE DEF Flat
  <2> QED
    BY <2>1, <2>2, <2>3, ReachGrows
<1>3. ASSUME NEW k \in 1 .. Len(s)
      PROVE  Flat(k) = Flat(k - 1) \o s[k]
  BY FlattenPrefix
<1> HIDE DEF Flat
<1>4. ASSUME NEW k \in 1 .. Len(s), k > 1 => Good(k - 1)
      PROVE  Good(k)
  <2>1. /\ k - 1 \in 0 .. Len(s) /\ Flat(k - 1) \in Seq(S) /\ s[k] \in Seq(S)
        /\ Len(Flat(k - 1)) = Reach(s, k - 1)
        /\ Reach(s, k) = Reach(s, k - 1) + Len(s[k])
        /\ Len(s[k]) \in Nat /\ Reach(s, k - 1) \in Nat
    BY <1>1, <1>2
  <2>2. /\ \A m \in 1 .. Reach(s, k - 1) : Flat(k)[m] = Flat(k - 1)[m]
        /\ \A m \in 1 .. Len(s[k]) : Flat(k)[Reach(s, k - 1) + m] = s[k][m]
    <3>1. PICK c : c = Flat(k - 1) \o s[k]
      OBVIOUS
    <3>2. /\ \A m \in 1 .. Len(Flat(k - 1)) : c[m] = Flat(k - 1)[m]
          /\ \A m \in 1 .. Len(s[k]) : c[Len(Flat(k - 1)) + m] = s[k][m]
      BY <2>1, <3>1, ConcatMember
    <3>3. Flat(k) = c
      BY <1>3, <3>1
    <3> QED
      BY <2>1, <3>2, <3>3, Zenon
  <2>3. ASSUME NEW n \in 1 .. k, n # k
        PROVE  /\ Reach(s, n) <= Reach(s, k)
               /\ \A m \in 1 .. Len(s[n]) : Flat(k)[Reach(s, n - 1) + m] = s[n][m]
    <3>1. k > 1 /\ n \in 1 .. k - 1 /\ n \in 1 .. Len(s) /\ n - 1 \in 0 .. Len(s) /\ n \in 0 .. Len(s)
      BY <1>1, <2>3
    <3>2. /\ Reach(s, n) <= Reach(s, k - 1)
          /\ \A m \in 1 .. Len(s[n]) : Flat(k - 1)[Reach(s, n - 1) + m] = s[n][m]
      BY <1>4, <3>1
    <3>3. Reach(s, n) \in Nat /\ Reach(s, n - 1) \in Nat /\ Reach(s, n) = Reach(s, n - 1) + Len(s[n])
      BY <1>2, <3>1
    <3>4. ASSUME NEW m \in 1 .. Len(s[n])
          PROVE  Reach(s, n - 1) + m \in 1 .. Reach(s, k - 1)
      <4>1. Len(s[n]) \in Nat
        BY <1>2, <3>1
      <4>2. \A p, q, r, l \in Nat : q = p + l /\ q <= r => \A y \in 1 .. l : p + y \in 1 .. r
        OBVIOUS
      <4> QED
        BY <2>1, <3>2, <3>3, <4>1, <4>2, Zenon
    <3>5. \A m \in 1 .. Len(s[n]) : Flat(k)[Reach(s, n - 1) + m] = Flat(k - 1)[Reach(s, n - 1) + m]
      BY <2>2, <3>4, Zenon
    <3>6. Reach(s, n) <= Reach(s, k)
      BY <2>1, <3>2, <3>3
    <3> QED
      BY <3>2, <3>5, <3>6, Zenon
  <2>4. \A n \in 1 .. k :
           /\ Reach(s, n) <= Reach(s, k)
           /\ \A m \in 1 .. Len(s[n]) : Flat(k)[Reach(s, n - 1) + m] = s[n][m]
    BY <2>1, <2>2, <2>3
  <2> QED
    BY <2>4
<1> HIDE DEF Good
<1>5. 1 .. Len(s) \subseteq T
  <2>1. 1 <= Len(s) => 1 \in T
    BY <1>1, <1>4
  <2>2. \A k \in 1 .. Len(s) : k > 1 /\ k - 1 \in T => k \in T
    BY <1>4
  <2> HIDE DEF T
  <2> QED
    BY <1>1, <2>1, <2>2, UpTo
<1>6. CASE Len(s) >= 1
  <2>1. Good(Len(s))
    <3>1. Len(s) \in T
      BY <1>1, <1>5, <1>6
    <3> QED
      BY <3>1
  <2>2. Flat(Len(s)) = FlattenSeq(s) /\ Reach(s, Len(s)) = Len(FlattenSeq(s))
    <3>1. SubSeq(s, 1, Len(s)) = s
      OBVIOUS
    <3> QED
      BY <3>1 DEF Flat, Reach
  <2> QED
    BY <2>1, <2>2, Zenon DEF Good
<1> QED
  BY <1>1, <1>6

\* t is what is left of s behind the first a members.
IsRest(t, s, a) == Len(t) = Len(s) - a /\ \A i \in 1 .. Len(t) : t[i] = s[a + i]

\* The next k members are flattened behind the first a of them.
LEMMA FlattenSplit ==
  ASSUME NEW S, NEW s \in Seq(Seq(S)), NEW a \in 0 .. Len(s),
         NEW t \in Seq(Seq(S)), IsRest(t, s, a)
  PROVE  \A k \in 0 .. Len(t) :
           FlattenSeq(SubSeq(s, 1, a + k)) = FlattenSeq(SubSeq(s, 1, a)) \o FlattenSeq(SubSeq(t, 1, k))
<1> DEFINE P(n) == FlattenSeq(SubSeq(s, 1, n))
           Q(n) == FlattenSeq(SubSeq(t, 1, n))
           T == {j \in 1 .. Len(t) + 1 : P(a + (j - 1)) = P(a) \o Q(j - 1)}
<1>1. Len(s) \in Nat /\ Len(t) \in Nat /\ a \in Nat /\ Len(t) = Len(s) - a
  BY LenProperties DEF IsRest
<1>2. \A n \in 0 .. Len(s) : P(n) \in Seq(S)
  <2> SUFFICES ASSUME NEW n \in 0 .. Len(s) PROVE P(n) \in Seq(S)
    OBVIOUS
  <2>1. SubSeq(s, 1, n) \in Seq(Seq(S))
    BY <1>1
  <2> QED
    BY <2>1, FlattenType
<1>3. \A n \in 0 .. Len(t) : Q(n) \in Seq(S)
  <2> SUFFICES ASSUME NEW n \in 0 .. Len(t) PROVE Q(n) \in Seq(S)
    OBVIOUS
  <2>1. SubSeq(t, 1, n) \in Seq(Seq(S))
    BY <1>1
  <2> QED
    BY <2>1, FlattenType
<1>4. \A n \in 1 .. Len(s) : P(n) = P(n - 1) \o s[n]
  BY FlattenPrefix
<1>5. \A n \in 1 .. Len(t) : Q(n) = Q(n - 1) \o t[n]
  BY FlattenPrefix
<1>6. Q(0) = <<>>
  <2>1. SubSeq(t, 1, 0) = <<>>
    BY <1>1, SubSeqProperties
  <2> QED
    BY <2>1, FlattenEmpty
<1>7. \A n \in 1 .. Len(t) : t[n] \in Seq(S)
  BY ElementOfSeq
<1> HIDE DEF P, Q
<1>8. 1 \in T
  <2>1. P(a) \o Q(0) = P(a)
    BY <1>1, <1>2, <1>6, ConcatEmptySeq
  <2>2. a + (1 - 1) = a /\ 1 - 1 = 0 /\ 1 \in 1 .. Len(t) + 1
    BY <1>1
  <2> QED
    BY <2>1, <2>2
<1>9. ASSUME NEW j \in 1 .. Len(t) + 1, j > 1, j - 1 \in T
      PROVE  j \in T
  <2> DEFINE k == j - 1
  <2>1. /\ k \in 1 .. Len(t) /\ a + k \in 1 .. Len(s) /\ (a + k) - 1 = a + (k - 1)
        /\ k - 1 \in 0 .. Len(t) /\ a \in 0 .. Len(s)
    BY <1>1, <1>9
  <2> HIDE DEF k
  <2>2. P(a + (k - 1)) = P(a) \o Q(k - 1)
    BY <1>9 DEF k
  <2>3. P(a + k) = P(a + (k - 1)) \o s[a + k]
    BY <1>4, <2>1, Zenon
  <2>4. Q(k) = Q(k - 1) \o t[k] /\ t[k] = s[a + k]
    BY <1>5, <2>1, Zenon DEF IsRest
  <2>5. P(a) \in Seq(S) /\ Q(k - 1) \in Seq(S) /\ t[k] \in Seq(S)
    BY <1>2, <1>3, <1>7, <2>1, Zenon
  <2>6. (P(a) \o Q(k - 1)) \o t[k] = P(a) \o (Q(k - 1) \o t[k])
    <3>1. PICK x \in Seq(S), y \in Seq(S), z \in Seq(S) : x = P(a) /\ y = Q(k - 1) /\ z = t[k]
      BY <2>5, Zenon
    <3>2. (x \o y) \o z = x \o (y \o z)
      BY SMT
    <3> QED
      BY <3>1, <3>2, Zenon
  <2>7. P(a + k) = P(a) \o Q(k)
    BY <2>2, <2>3, <2>4, <2>6, Zenon
  <2> QED
    BY <2>7 DEF k
<1> HIDE DEF T
<1>10. 1 .. Len(t) + 1 \subseteq T
  <2>1. Len(t) + 1 \in Nat
    BY <1>1
  <2> QED
    BY <1>8, <1>9, <2>1, UpTo
<1>11. ASSUME NEW k \in 0 .. Len(t) PROVE P(a + k) = P(a) \o Q(k)
  <2>1. k + 1 \in 1 .. Len(t) + 1 /\ (k + 1) - 1 = k
    BY <1>1
  <2>2. P(a + ((k + 1) - 1)) = P(a) \o Q((k + 1) - 1)
    BY <1>10, <2>1 DEF T
  <2> QED
    BY <2>1, <2>2, Zenon
<1> QED
  BY <1>11 DEF P, Q

\* The sequence of sequences cut in two.
LEMMA FlattenRest ==
  ASSUME NEW S, NEW s \in Seq(Seq(S)), NEW b \in 0 .. Len(s),
         NEW u \in Seq(Seq(S)), IsRest(u, s, b)
  PROVE  FlattenSeq(s) = FlattenSeq(SubSeq(s, 1, b)) \o FlattenSeq(u)
<1> DEFINE P(n) == FlattenSeq(SubSeq(s, 1, n))
<1>1. \A i \in 0 .. Len(u) : P(b + i) = P(b) \o FlattenSeq(SubSeq(u, 1, i))
  BY FlattenSplit
<1>2. Len(u) = Len(s) - b
  BY Zenon DEF IsRest
<1>3. Len(u) \in 0 .. Len(u) /\ b + Len(u) = Len(s)
  BY <1>2, LenProperties
<1>4. SubSeq(u, 1, Len(u)) = u /\ SubSeq(s, 1, Len(s)) = s
  OBVIOUS
<1>5. P(b + Len(u)) = P(b) \o FlattenSeq(SubSeq(u, 1, Len(u)))
  BY <1>1, <1>3, Zenon
<1> QED
  BY <1>3, <1>4, <1>5, Zenon

\* q is members of s in a row, those behind the first a.
IsPart(q, s, a) == a + Len(q) <= Len(s) /\ \A i \in 1 .. Len(q) : q[i] = s[a + i]

\* What members in a row are flattened to, as a part of the whole.
LEMMA FlattenPart ==
  ASSUME NEW S, NEW s \in Seq(Seq(S)), NEW a \in 0 .. Len(s), NEW q \in Seq(Seq(S)),
         IsPart(q, s, a)
  PROVE  /\ Reach(s, a) \in Nat /\ Reach(s, a + Len(q)) \in Nat
         /\ Reach(s, a) <= Reach(s, a + Len(q)) /\ Reach(s, a + Len(q)) <= Len(FlattenSeq(s))
         /\ Len(FlattenSeq(q)) = Reach(s, a + Len(q)) - Reach(s, a)
         /\ \A m \in 1 .. Len(FlattenSeq(q)) : FlattenSeq(q)[m] = FlattenSeq(s)[Reach(s, a) + m]
<1> DEFINE P(n) == FlattenSeq(SubSeq(s, 1, n))
           k == Len(q)
<1>1. Len(s) \in Nat /\ k \in Nat /\ a \in Nat /\ a + k \in 0 .. Len(s)
  BY LenProperties DEF IsPart
<1>2. PICK t \in Seq(Seq(S)) : Len(t) = Len(s) - a /\ \A i \in 1 .. Len(t) : t[i] = s[a + i]
  <2> DEFINE r == SubSeq(s, a + 1, Len(s))
  <2>1. r \in Seq(Seq(S)) /\ Len(r) = Len(s) - a /\ \A i \in 1 .. Len(r) : r[i] = s[a + i]
    BY <1>1
  <2> QED
    BY <2>1, Zenon
<1>3. PICK u \in Seq(Seq(S)) :
        Len(u) = Len(s) - (a + k) /\ \A i \in 1 .. Len(u) : u[i] = s[(a + k) + i]
  <2> DEFINE r == SubSeq(s, (a + k) + 1, Len(s))
  <2>1. r \in Seq(Seq(S)) /\ Len(r) = Len(s) - (a + k)
        /\ \A i \in 1 .. Len(r) : r[i] = s[(a + k) + i]
    BY <1>1
  <2> QED
    BY <2>1, Zenon
<1>4. SubSeq(t, 1, k) = q
  <2>1. SubSeq(t, 1, k) \in Seq(Seq(S)) /\ Len(SubSeq(t, 1, k)) = k
    BY <1>1, <1>2
  <2>2. \A i \in 1 .. k : SubSeq(t, 1, k)[i] = q[i]
    <3>1. \A i \in 1 .. k : q[i] = s[a + i]
      BY Zenon DEF IsPart
    <3> QED
      BY <1>1, <1>2, <3>1
  <2> QED
    BY <2>1, <2>2, SeqEqual
<1>5. SubSeq(u, 1, Len(u)) = u /\ SubSeq(s, 1, Len(s)) = s
  BY <1>1, <1>3
<1>6. P(a + k) = P(a) \o FlattenSeq(q)
  <2>1. k \in 0 .. Len(t)
    BY <1>1, <1>2
  <2>2. \A i \in 0 .. Len(t) : P(a + i) = P(a) \o FlattenSeq(SubSeq(t, 1, i))
    <3>1. IsRest(t, s, a)
      BY <1>2, Zenon DEF IsRest
    <3> QED
      BY <3>1, FlattenSplit
  <2> QED
    BY <1>4, <2>1, <2>2, Zenon
<1>7. FlattenSeq(s) = P(a + k) \o FlattenSeq(u)
  <2>1. PICK b \in 0 .. Len(s) : b = a + k
    BY <1>1
  <2>2. IsRest(u, s, b)
    BY <1>3, <2>1, Zenon DEF IsRest
  <2>3. FlattenSeq(s) = FlattenSeq(SubSeq(s, 1, b)) \o FlattenSeq(u)
    BY <2>2, FlattenRest
  <2> QED
    BY <2>1, <2>3, Zenon
<1>8. /\ P(a) \in Seq(S) /\ P(a + k) \in Seq(S) /\ FlattenSeq(q) \in Seq(S)
      /\ FlattenSeq(u) \in Seq(S)
  <2>1. SubSeq(s, 1, a) \in Seq(Seq(S)) /\ SubSeq(s, 1, a + k) \in Seq(Seq(S))
    BY <1>1
  <2> QED
    BY <1>3, <2>1, FlattenType
<1>9. Reach(s, a) = Len(P(a)) /\ Reach(s, a + k) = Len(P(a + k))
  BY DEF Reach
<1> HIDE DEF P, k
<1>10. /\ Len(P(a + k)) = Len(P(a)) + Len(FlattenSeq(q))
       /\ Len(FlattenSeq(s)) = Len(P(a + k)) + Len(FlattenSeq(u))
       /\ Len(P(a)) \in Nat /\ Len(FlattenSeq(q)) \in Nat /\ Len(FlattenSeq(u)) \in Nat
       /\ Len(P(a + k)) \in Nat
  BY <1>6, <1>7, <1>8, ConcatProperties, LenProperties
<1>11. ASSUME NEW m \in 1 .. Len(FlattenSeq(q))
       PROVE  FlattenSeq(q)[m] = FlattenSeq(s)[Reach(s, a) + m]
  <2>1. P(a + k)[Len(P(a)) + m] = FlattenSeq(q)[m]
    BY <1>6, <1>8, ConcatMember
  <2>2. Len(P(a)) + m \in 1 .. Len(P(a + k))
    BY <1>10
  <2>3. FlattenSeq(s)[Len(P(a)) + m] = P(a + k)[Len(P(a)) + m]
    BY <1>7, <1>8, <2>2, ConcatMember
  <2> QED
    BY <1>9, <2>1, <2>3
<1>12. /\ Reach(s, a) \in Nat /\ Reach(s, a + k) \in Nat
       /\ Reach(s, a) <= Reach(s, a + k) /\ Reach(s, a + k) <= Len(FlattenSeq(s))
       /\ Len(FlattenSeq(q)) = Reach(s, a + k) - Reach(s, a)
  <2> DEFINE x == Len(P(a))
             y == Len(P(a + k))
             z == Len(FlattenSeq(q))
             w == Len(FlattenSeq(s))
             v == Len(FlattenSeq(u))
  <2>1. y = x + z /\ w = y + v /\ x \in Nat /\ z \in Nat /\ v \in Nat /\ y \in Nat
    BY <1>10, Zenon
  <2> HIDE DEF x, y, z, w, v
  <2>2. x \in Nat /\ y \in Nat /\ x <= y /\ y <= w /\ z = y - x
    BY <2>1
  <2> QED
    BY <1>9, <2>2, Zenon DEF x, y, z, w
<1> QED
  BY <1>11, <1>12 DEF k
=============================================================================
