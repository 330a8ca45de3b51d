----------------------------- MODULE StreamProofs -----------------------------
(***************************************************************************)
(* What comes in and goes out piece by piece: uploads (Upload), responses  *)
(* in chunks (ChunkFraming), websocket frames (WebSocket) and the list of  *)
(* the open websockets (WebsocketList). They share no state.               *)
(***************************************************************************)
EXTENDS Upload, ChunkFraming, WebSocket, FlattenTheorems, FiniteSetTheorems, SequenceTheorems, TLAPS

----------------------------------------------------------------------------
(***************************************************************************)
(* What is in flash after an upload, for every size of the pages, the      *)
(* sectors and the post buffers, every place of the images and every       *)
(* upload. The inductive invariant says, for each state of the function,   *)
(* how far it is: in "WRITE" the pages written are full ones, the rest of  *)
(* a page continues them, and together with what is left to write they are *)
(* the image. The sectors erased are those from the first one of the image *)
(* on, as many as the pages written have begun.                            *)
(***************************************************************************)

\* The bytes of the image a page holds that is full, and a page in flash.
FullPage(k) ==
  [address |-> ImagePos + (k - 1) * PageLen, bytes |-> Bytes(ImageStart + (k - 1) * PageLen, PageLen)]
InFlash == [address : Nat, bytes : Seq(Nat)]

\* How much is written.
Pages == Len(flash)
Full == Pages * PageLen

Types ==
  /\ upload \in Uploads
  /\ UploadTypeOK
  /\ page \in Seq(Nat) /\ flash \in Seq(InFlash) /\ erased \in Seq(Nat)

Complete ==
  \/ flash = PagesOf(ImageStart, ImageLen, ImagePos)
  \/ ImageLen = 0 /\ \A k \in 1 .. Pages : flash[k].bytes = <<>>

\* Nothing was looked at; the other image is passed over, before or behind; the image is written;
\* it is.
WhileStart ==
  state = "START" =>
    /\ page = <<>> /\ flash = <<>> /\ erased = <<>> /\ data = 0 /\ skip = 0
    /\ received = IF running \/ answer = "starved" THEN Less(PostBuf, upload.total) ELSE 0
WhileSkip ==
  state = "SKIP" =>
    IF upload.user1 THEN Complete /\ len = 0
    ELSE /\ page = <<>> /\ flash = <<>>
         /\ len = ImageLen /\ data + skip = ImageStart /\ address = ImagePos
WhileWrite ==
  state = "WRITE" =>
    /\ \A k \in 1 .. Pages : flash[k] = FullPage(k)
    /\ address = ImagePos + Full
    /\ page = Bytes(ImageStart + Full, Len(page))
    /\ data = ImageStart + Full + Len(page)
    /\ Full + Len(page) + len = ImageLen
    /\ len > 0 \/ Pages = 0
    /\ ~upload.user1 => skip = 0
WhenDone ==
  /\ state = "DONE" => Complete
  /\ answer # "none" => ~running
  /\ answer = "ok" => state = "DONE"

\* The sectors erased are those the pages written begin.
ErasedSoFar ==
  /\ \A k \in 1 .. Pages : flash[k].address = ImagePos + (k - 1) * PageLen
  /\ \A t \in 1 .. Len(erased) : erased[t] = ImagePos \div SectorLen + t - 1
  /\ Full <= Len(erased) * SectorLen
  /\ Len(erased) * SectorLen < Full + SectorLen

UploadInv == Types /\ WhileStart /\ WhileSkip /\ WhileWrite /\ WhenDone /\ ErasedSoFar

----------------------------------------------------------------------------
\* Arithmetic.

\* A whole multiple that is less than another is less by the factor.
LEMMA TimesLess ==
  ASSUME NEW a \in Int, NEW b \in Int, NEW p \in Nat, a < b
  PROVE  a * p + p <= b * p
<1>1. PICK d \in Nat : b = a + 1 + d
  <2>1. b - a - 1 \in Nat /\ b = a + 1 + (b - a - 1)
    OBVIOUS
  <2> QED
    BY <2>1
<1>2. b * p = a * p + p + d * p
  BY <1>1
<1>3. d * p >= 0
  BY <1>1
<1> QED
  BY <1>2, <1>3

\* The converse, for multiples.
LEMMA TimesLessConverse ==
  ASSUME NEW a \in Int, NEW b \in Int, NEW p \in Nat \ {0}, a * p < b * p
  PROVE  a < b
<1> SUFFICES ASSUME ~(a < b) PROVE FALSE
  OBVIOUS
<1>1. a = b \/ b < a
  OBVIOUS
<1>2. b < a => b * p + p <= a * p
  BY TimesLess
<1>3. a * p \in Int /\ b * p \in Int
  OBVIOUS
<1> QED
  BY <1>1, <1>2, <1>3

\* The next multiple.
LEMMA TimesNext ==
  ASSUME NEW m \in Nat, NEW p \in Nat
  PROVE  m * p \in Nat /\ (m + 1) * p = m * p + p
OBVIOUS

\* The quotient is the number whose multiple is the next one below.
LEMMA Quotient ==
  ASSUME NEW q \in Nat, NEW r \in Nat, NEW b \in Nat \ {0}, r < b
  PROVE  (q * b + r) \div b = q /\ (q * b + r) % b = r
OBVIOUS

\* A multiple is the quotient times the divisor.
LEMMA WholeQuotient ==
  ASSUME NEW a \in Nat, NEW b \in Nat \ {0}, a % b = 0
  PROVE  a \div b \in Nat /\ a = (a \div b) * b
OBVIOUS

\* The pages n were written, which begin e sectors from the sector f on. If the next page is the
\* first of a sector, it begins the next one; else it lies in a sector begun.
NextPageBegins(n, e, f, p, s) ==
  /\ (f * s + n * p) % s = 0 =>
       /\ (f * s + n * p) \div s = f + e
       /\ n * p + p <= (e + 1) * s /\ (e + 1) * s < n * p + p + s
  /\ (f * s + n * p) % s # 0 =>
       /\ n * p + p <= e * s /\ e * s < n * p + p + s

\* Which it does, since a sector is a whole number of pages.
LEMMA NextPage ==
  ASSUME NEW n \in Nat, NEW e \in Nat, NEW f \in Nat, NEW p \in Nat \ {0}, NEW s \in Nat \ {0}, s % p = 0,
         n * p <= e * s, e * s < n * p + s
  PROVE  NextPageBegins(n, e, f, p, s)
<1> USE DEF NextPageBegins
<1>1. PICK m \in Nat : s = m * p
  BY WholeQuotient
<1>2. n * p \in Nat /\ e * s \in Nat /\ f * s \in Nat /\ e * m \in Nat
  OBVIOUS
<1>3. m >= 1 /\ p <= s
  <2>1. m # 0
    BY <1>1
  <2>2. 0 < m
    BY <2>1
  <2>3. 0 * p + p <= m * p
    BY <2>2, TimesLess
  <2> QED
    BY <1>1, <2>2, <2>3
<1>4. e * s = (e * m) * p /\ (e + 1) * s = e * s + s
  BY <1>1
<1>5. CASE n * p = e * s
  <2>1. f * s + n * p = (f + e) * s + 0 /\ f + e \in Nat
    BY <1>5
  <2>2. (f * s + n * p) % s = 0 /\ (f * s + n * p) \div s = f + e
    BY <2>1, Quotient
  <2> QED
    BY <1>2, <1>3, <1>4, <1>5, <2>2
<1>6. CASE n * p < e * s
  <2>1. n < e * m
    BY <1>2, <1>4, <1>6, TimesLessConverse
  <2>2. n * p + p <= e * s
    BY <1>2, <1>4, <2>1, TimesLess
  <2>3. e >= 1
    <3>1. e = 0 => e * s = 0
      OBVIOUS
    <3> QED
      BY <1>2, <1>6, <3>1
  <2>4. PICK r \in Nat : r = s - (e * s - n * p)
    <3>1. s - (e * s - n * p) \in Nat
      BY <1>2, <1>6
    <3> QED
      BY <3>1
  <2>5. r # 0 /\ r < s
    BY <1>2, <1>6, <2>4
  <2>6. f + e - 1 \in Nat /\ (f + e - 1) * s = f * s + e * s - s
    BY <2>3
  <2>7. f * s + n * p = (f + e - 1) * s + r
    BY <1>2, <2>4, <2>6
  <2>8. (f * s + n * p) % s = r
    BY <2>5, <2>6, <2>7, Quotient
  <2> QED
    BY <1>2, <1>6, <2>2, <2>5, <2>8
<1> QED
  BY <1>2, <1>5, <1>6

\* The page j lies in one of the e sectors from the sector f on.
PageLiesIn(j, e, f, p, s) == \E q \in 0 .. e - 1 : (f * s + j * p) \div s = f + q

\* As a page does that begins below their end.
LEMMA PageInSector ==
  ASSUME NEW j \in Nat, NEW e \in Nat, NEW f \in Nat, NEW p \in Nat \ {0}, NEW s \in Nat \ {0}, j * p < e * s
  PROVE  PageLiesIn(j, e, f, p, s)
<1>1. j * p \in Nat /\ e * s \in Nat
  OBVIOUS
<1>2. PICK q \in Nat, r \in Nat : j * p = q * s + r /\ r < s
  <2>1. (j * p) \div s \in Nat /\ (j * p) % s \in Nat /\ (j * p) % s < s
        /\ j * p = ((j * p) \div s) * s + ((j * p) % s)
    BY <1>1
  <2> QED
    BY <2>1
<1>3. q * s < e * s
  <2>1. q * s \in Nat
    OBVIOUS
  <2> QED
    BY <1>1, <1>2, <2>1
<1>4. q < e
  BY <1>3, TimesLessConverse
<1>5. f * s + j * p = (f + q) * s + r /\ f + q \in Nat
  BY <1>1, <1>2
<1>6. (f * s + j * p) \div s = f + q
  BY <1>2, <1>5, Quotient
<1> QED
  BY <1>4, <1>6 DEF PageLiesIn

----------------------------------------------------------------------------
\* The operators of the model.

\* Bytes of the body.
LEMMA BytesType ==
  ASSUME NEW a \in Nat, NEW n \in Nat
  PROVE  /\ Bytes(a, n) \in Seq(Nat) /\ Len(Bytes(a, n)) = n
         /\ \A i \in 1 .. n : Bytes(a, n)[i] = a + i
         /\ n = 0 => Bytes(a, n) = <<>>
<1>1. Bytes(a, n) \in Seq(Nat) /\ Len(Bytes(a, n)) = n /\ \A i \in 1 .. n : Bytes(a, n)[i] = a + i
  BY DEF Bytes
<1>2. n = 0 => Bytes(a, n) = <<>>
  BY <1>1
<1> QED
  BY <1>1, <1>2

\* Bytes that follow others continue them.
LEMMA BytesGoOn ==
  ASSUME NEW a \in Nat, NEW m \in Nat, NEW n \in Nat
  PROVE  Bytes(a, m) \o Bytes(a + m, n) = Bytes(a, m + n)
<1>1. /\ Bytes(a, m) \in Seq(Nat) /\ Len(Bytes(a, m)) = m /\ \A i \in 1 .. m : Bytes(a, m)[i] = a + i
      /\ Bytes(a + m, n) \in Seq(Nat) /\ Len(Bytes(a + m, n)) = n
      /\ \A i \in 1 .. n : Bytes(a + m, n)[i] = a + m + i
      /\ Bytes(a, m + n) \in Seq(Nat) /\ Len(Bytes(a, m + n)) = m + n
      /\ \A i \in 1 .. m + n : Bytes(a, m + n)[i] = a + i
  <2>1. a + m \in Nat /\ m + n \in Nat
    OBVIOUS
  <2> QED
    BY <2>1, BytesType, Zenon
<1>2. PICK b \in Seq(Nat), c \in Seq(Nat), d \in Seq(Nat) :
        b = Bytes(a, m) /\ c = Bytes(a + m, n) /\ d = Bytes(a, m + n)
  BY <1>1
<1>3. /\ Len(b) = m /\ \A i \in 1 .. m : b[i] = a + i
      /\ Len(c) = n /\ \A i \in 1 .. n : c[i] = a + m + i
      /\ Len(d) = m + n /\ \A i \in 1 .. m + n : d[i] = a + i
  BY <1>1, <1>2, Zenon
<1>4. /\ b \o c \in Seq(Nat) /\ Len(b \o c) = Len(b) + Len(c)
      /\ \A i \in 1 .. Len(b) + Len(c) : (b \o c)[i] = IF i <= Len(b) THEN b[i] ELSE c[i - Len(b)]
  OBVIOUS
<1>5. ASSUME NEW i \in 1 .. m + n PROVE (b \o c)[i] = d[i]
  <2>1. (b \o c)[i] = IF i <= m THEN b[i] ELSE c[i - m]
    BY <1>3, <1>4, Zenon
  <2>2. CASE i <= m
    BY <1>3, <2>1, <2>2
  <2>3. CASE ~(i <= m)
    <3>1. i - m \in 1 .. n /\ a + m + (i - m) = a + i
      BY <2>3
    <3> QED
      BY <1>3, <2>1, <2>3, <3>1
  <2> QED
    BY <2>2, <2>3
<1>6. b \o c = d
  <2>1. Len(b \o c) = m + n /\ Len(d) = m + n
    BY <1>3, <1>4, Zenon
  <2> QED
    BY <1>4, <1>5, <2>1, SeqEqual, Zenon
<1> QED
  BY <1>2, <1>6, Zenon

\* The lesser of two numbers.
LEMMA LessIs ==
  ASSUME NEW a \in Int, NEW b \in Int
  PROVE  /\ Less(a, b) \in {a, b} /\ Less(a, b) <= a /\ Less(a, b) <= b
BY DEF Less

\* What an upload is made of.
LEMMA UploadFacts ==
  ASSUME upload \in Uploads
  PROVE  /\ PageLen \in Nat \ {0} /\ SectorLen \in Nat \ {0} /\ SectorLen % PageLen = 0
         /\ PostBuf \in Nat \ {0} /\ HeaderLen \in Nat \ {0} /\ HeaderLen <= PostBuf /\ FwSize \in Nat
         /\ upload.total \in Nat \ {0} /\ upload.len1 \in 0 .. FwSize /\ upload.len2 \in 0 .. FwSize
         /\ upload.kind = "ota" => upload.total >= HeaderLen
         /\ upload.kind # "ota" => upload.user1
         /\ upload.user1 \in BOOLEAN
         /\ ImageStart \in Nat /\ ImageLen \in Nat /\ ImagePos \in Nat /\ ImagePos % SectorLen = 0
         /\ Fw1Pos \in Nat /\ Fw2Pos \in Nat
<1>1. /\ PageLen \in Nat \ {0} /\ SectorLen \in Nat \ {0} /\ SectorLen % PageLen = 0
      /\ PostBuf \in Nat \ {0} /\ HeaderLen \in 1 .. PostBuf /\ FwSize \in Nat
      /\ Fw1Pos \in Nat /\ Fw1Pos % SectorLen = 0 /\ Fw2Pos \in Nat /\ Fw2Pos % SectorLen = 0
  BY UploadAssumption
<1>2. /\ upload.total \in 1 .. HeaderLen + 2 * FwSize + 1
      /\ upload.len1 \in 0 .. FwSize /\ upload.len2 \in 0 .. FwSize
      /\ upload.kind = "ota" => upload.total >= HeaderLen
      /\ upload.kind # "ota" => upload.user1
      /\ upload.user1 \in BOOLEAN
  BY DEF Uploads
<1>3. ImageStart \in Nat /\ ImageLen \in Nat /\ ImagePos \in Nat /\ ImagePos % SectorLen = 0
  BY <1>1, <1>2 DEF ImageStart, ImageLen, ImagePos
<1> QED
  BY <1>1, <1>2, <1>3

\* The page k of n bytes from first on, from the address at on, when it is full.
FullPageOf(first, at, k) ==
  [address |-> at + (k - 1) * PageLen, bytes |-> Bytes(first + (k - 1) * PageLen, PageLen)]

\* Full pages, and one with the bytes that are left, are the pages of the image.
LEMMA PagesAreAll ==
  ASSUME PageLen \in Nat \ {0}, NEW first \in Nat, NEW at \in Nat, NEW n \in Nat,
         NEW m \in Nat, m * PageLen < n, n <= m * PageLen + PageLen,
         NEW s \in Seq(InFlash), Len(s) = m + 1,
         \A k \in 1 .. m : s[k] = FullPageOf(first, at, k),
         s[m + 1] = [address |-> at + m * PageLen, bytes |-> Bytes(first + m * PageLen, n - m * PageLen)]
  PROVE  s = PagesOf(first, n, at)
<1> DEFINE pg(k) == [address |-> at + (k - 1) * PageLen,
                     bytes |-> Bytes(first + (k - 1) * PageLen, Less(PageLen, n - (k - 1) * PageLen))]
<1>1. (n + PageLen - 1) \div PageLen = m + 1
  <2>1. m * PageLen \in Nat /\ (m + 1) * PageLen = m * PageLen + PageLen
    <3>1. m \in Nat /\ PageLen \in Nat
      OBVIOUS
    <3> QED
      BY <3>1, TimesNext, Zenon
  <2>2. PICK r \in Nat : r = n - m * PageLen - 1
    <3>1. n - m * PageLen - 1 \in Nat
      BY <2>1
    <3> QED
      BY <3>1
  <2>3. r < PageLen /\ n + PageLen - 1 = (m + 1) * PageLen + r
    BY <2>1, <2>2
  <2>4. ((m + 1) * PageLen + r) \div PageLen = m + 1
    <3>1. m + 1 \in Nat
      OBVIOUS
    <3> QED
      BY <2>3, <3>1, Quotient
  <2> QED
    BY <2>3, <2>4
<1>2. PagesOf(first, n, at) = [k \in 1 .. m + 1 |-> pg(k)]
  BY <1>1 DEF PagesOf
<1>3. ASSUME NEW k \in 1 .. m + 1 PROVE s[k] = pg(k)
  <2>1. CASE k = m + 1
    <3>1. (k - 1) * PageLen = m * PageLen /\ m * PageLen \in Nat
      <4>1. (m + 1) - 1 = m
        OBVIOUS
      <4>2. (k - 1) * PageLen = m * PageLen
        BY <2>1, <4>1, Zenon
      <4>3. m \in Nat /\ PageLen \in Nat
        OBVIOUS
      <4>4. m * PageLen \in Nat
        BY <4>3, TimesNext, Zenon
      <4> QED
        BY <4>2, <4>4, Zenon
    <3>2. Less(PageLen, n - m * PageLen) = n - m * PageLen
      BY <3>1 DEF Less
    <3>3. pg(k) = [address |-> at + m * PageLen, bytes |-> Bytes(first + m * PageLen, n - m * PageLen)]
      BY <3>1, <3>2, Zenon
    <3> QED
      BY <2>1, <3>3, Zenon
  <2>2. CASE k # m + 1
    <3>1. k \in 1 .. m /\ k - 1 < m /\ k - 1 \in Int /\ m \in Int
      BY <2>2
    <3>2. (k - 1) * PageLen + PageLen <= m * PageLen
      BY <3>1, TimesLess
    <3>3. (k - 1) * PageLen \in Int /\ m * PageLen \in Int
      BY <3>1
    <3>4. Less(PageLen, n - (k - 1) * PageLen) = PageLen
      <4>1. ~(n - (k - 1) * PageLen < PageLen)
        BY <3>2, <3>3
      <4> QED
        BY <4>1, <3>2, <3>3 DEF Less
    <3>5. pg(k) = FullPageOf(first, at, k)
      BY <3>4, Zenon DEF FullPageOf
    <3> QED
      BY <3>1, <3>5, Zenon
  <2> QED
    BY <2>1, <2>2
<1>4. s = [k \in 1 .. m + 1 |-> s[k]]
  <2>1. DOMAIN s = 1 .. m + 1
    <3>1. DOMAIN s = 1 .. Len(s)
      OBVIOUS
    <3> QED
      BY <3>1
  <2>2. s = [k \in DOMAIN s |-> s[k]]
    BY SMT, s \in Seq(InFlash)
  <2> QED
    BY <2>1, <2>2, Zenon
<1> HIDE DEF pg
<1>5. [k \in 1 .. m + 1 |-> s[k]] = [k \in 1 .. m + 1 |-> pg(k)]
  BY <1>3
<1> QED
  BY <1>2, <1>4, <1>5, Zenon

----------------------------------------------------------------------------
\* Every step keeps the invariant.

\* Most steps write nothing.
LEMMA NothingWritten ==
  ASSUME UNCHANGED <<upload, flashVars>>
  PROVE  /\ ImageStart' = ImageStart /\ ImageLen' = ImageLen /\ ImagePos' = ImagePos
         /\ Pages' = Pages /\ Full' = Full
         /\ \A k : FullPage(k)' = FullPage(k)
         /\ Complete' <=> Complete
         /\ ErasedSoFar' <=> ErasedSoFar
BY DEF flashVars, ImageStart, ImageLen, ImagePos, Pages, Full, FullPage, Complete, ErasedSoFar

\* An upload begins with the invariant.
LEMMA InitUpload ==
  ASSUME UploadInit
  PROVE  UploadInv
<1>1. upload \in Uploads /\ UploadStart
  BY DEF UploadInit
<1>2. PageLen \in Nat \ {0} /\ SectorLen \in Nat \ {0} /\ FwSize \in Nat /\ upload.total \in Nat \ {0}
  BY <1>1, UploadFacts
<1>3. Len(page) = 0 /\ Len(flash) = 0 /\ Len(erased) = 0
  BY <1>1 DEF UploadStart
<1>4. Types
  <2>1. page \in Seq(Nat) /\ flash \in Seq(InFlash) /\ erased \in Seq(Nat)
    BY <1>1 DEF UploadStart
  <2>2. /\ received = 0 /\ data = 0 /\ running = FALSE /\ state = "START" /\ len = 0 /\ skip = 0
        /\ address = 0 /\ answer = "none" /\ flashFailed = FALSE
    BY <1>1 DEF UploadStart
  <2>3. received \in 0 .. upload.total /\ len \in 0 .. upload.total + FwSize /\ skip \in 0 .. FwSize
    BY <1>2, <2>2
  <2>4. data \in 0 .. received /\ address \in Nat /\ Len(page) < PageLen
    BY <1>2, <1>3, <2>2
  <2>5. UploadTypeOK
    BY <2>2, <2>3, <2>4 DEF UploadTypeOK
  <2> QED
    BY <1>1, <2>1, <2>5 DEF Types
<1>5. WhileStart /\ WhileSkip /\ WhileWrite /\ WhenDone
  BY <1>1 DEF UploadStart, WhileStart, WhileSkip, WhileWrite, WhenDone
<1>6. ErasedSoFar
  BY <1>1, <1>2, <1>3 DEF UploadStart, ErasedSoFar, Full, Pages
<1> QED
  BY <1>4, <1>5, <1>6 DEF UploadInv

\* A part of the body arrives.
LEMMA DeliverKeepsInv ==
  ASSUME UploadInv, Deliver
  PROVE  UploadInv'
<1>1. upload \in Uploads /\ UploadTypeOK
  BY DEF UploadInv, Types
<1>2. /\ ~running /\ answer = "none" /\ received < upload.total
      /\ received' = received + Less(PostBuf, upload.total - received) /\ running' = TRUE
      /\ UNCHANGED <<upload, data, state, len, skip, address, page, flash, erased, flashFailed, answer>>
  BY DEF Deliver, HandOver, stateVars, flashVars
<1>3. UNCHANGED <<upload, flashVars>>
  BY <1>2 DEF flashVars
<1>4. /\ PostBuf \in Nat \ {0} /\ upload.total \in Nat \ {0} /\ received \in 0 .. upload.total
      /\ data \in 0 .. received
  BY <1>1, UploadFacts DEF UploadTypeOK
<1>5. received' \in received .. upload.total
  BY <1>2, <1>4 DEF Less
<1>6. Types'
  BY <1>1, <1>2, <1>4, <1>5 DEF UploadInv, Types, UploadTypeOK
<1>7. WhileStart'
  <2>1. state = "START" => received = 0
    BY <1>2 DEF UploadInv, WhileStart
  <2>2. received = 0 => received' = Less(PostBuf, upload.total)
    BY <1>2, <1>4 DEF Less
  <2> QED
    BY <1>2, <2>1, <2>2 DEF UploadInv, WhileStart
<1>8. WhileSkip' /\ WhileWrite' /\ WhenDone' /\ ErasedSoFar'
  BY <1>2, <1>3, NothingWritten DEF UploadInv, WhileSkip, WhileWrite, WhenDone
<1> QED
  BY <1>6, <1>7, <1>8 DEF UploadInv

\* An upload that is refused.
LEMMA RefuseKeepsInv ==
  ASSUME UploadInv, Refuse
  PROVE  UploadInv'
<1>1. /\ state' = "ERROR" /\ running
      /\ UNCHANGED <<upload, received, data, running, len, skip, address, page, flash, erased, flashFailed, answer>>
  BY DEF Refuse, Loop, flashVars
<1>2. UNCHANGED <<upload, flashVars>>
  BY <1>1 DEF flashVars
<1>3. Types'
  <2>1. UploadTypeOK'
    BY <1>1 DEF UploadInv, Types, UploadTypeOK
  <2> QED
    BY <1>1, <2>1 DEF UploadInv, Types
<1>4. ErasedSoFar'
  BY <1>2, NothingWritten DEF UploadInv
<1>5. WhileStart' /\ WhileSkip' /\ WhileWrite' /\ WhenDone'
  BY <1>1 DEF UploadInv, WhileStart, WhileSkip, WhileWrite, WhenDone
<1> QED
  BY <1>3, <1>4, <1>5 DEF UploadInv

\* Two images behind a header.
LEMMA StartOtaKeepsInv ==
  ASSUME UploadInv, StartOta
  PROVE  UploadInv'
<1>1. upload \in Uploads /\ UploadTypeOK
  BY DEF UploadInv, Types
<1>2. /\ running /\ state = "START" /\ upload.kind = "ota" /\ data' = data + HeaderLen
      /\ UNCHANGED <<upload, received, running, page, flash, erased, flashFailed, answer>>
      /\ \/ /\ upload.user1 /\ len' = upload.len1 /\ skip' = upload.len2
            /\ state' = "WRITE" /\ address' = Fw1Pos
         \/ /\ ~upload.user1 /\ len' = upload.len2 /\ skip' = upload.len1
            /\ state' = "SKIP" /\ address' = Fw2Pos
  BY DEF StartOta, Loop, flashVars
<1>3. /\ page = <<>> /\ flash = <<>> /\ erased = <<>> /\ data = 0
      /\ received = Less(PostBuf, upload.total)
  BY <1>2 DEF UploadInv, WhileStart
<1>4. /\ PageLen \in Nat \ {0} /\ SectorLen \in Nat \ {0} /\ PostBuf \in Nat /\ HeaderLen \in Nat
      /\ HeaderLen <= PostBuf /\ FwSize \in Nat
      /\ upload.total \in Nat /\ upload.total >= HeaderLen
      /\ upload.len1 \in 0 .. FwSize /\ upload.len2 \in 0 .. FwSize /\ Fw1Pos \in Nat /\ Fw2Pos \in Nat
  BY <1>1, <1>2, UploadFacts
<1>5. received >= HeaderLen
  BY <1>3, <1>4 DEF Less
<1>6. UNCHANGED <<upload, flashVars>>
  BY <1>2 DEF flashVars
<1>7. Types'
  <2>1. received' \in 0 .. upload'.total /\ data' \in 0 .. received'
    BY <1>1, <1>2, <1>3, <1>4, <1>5 DEF UploadTypeOK
  <2>2. len' \in 0 .. upload'.total + FwSize /\ skip' \in 0 .. FwSize /\ address' \in Nat
    BY <1>2, <1>4
  <2>3. state' \in {"START", "WRITE", "SKIP", "DONE", "ERROR"}
    BY <1>2
  <2> QED
    BY <1>2, <2>1, <2>2, <2>3 DEF UploadInv, Types, UploadTypeOK
<1>8. ErasedSoFar'
  BY <1>6, NothingWritten DEF UploadInv
<1>9. Len(page) = 0 /\ Pages = 0 /\ Full = 0
  BY <1>3, <1>4 DEF Pages, Full
<1>10. CASE upload.user1
  <2>1. ImageStart = HeaderLen /\ ImageLen = upload.len1 /\ ImagePos = Fw1Pos
    BY <1>2, <1>10 DEF ImageStart, ImageLen, ImagePos
  <2>2. state' = "WRITE" /\ len' = upload.len1 /\ address' = Fw1Pos /\ data' = HeaderLen
    BY <1>2, <1>3, <1>4, <1>10
  <2>3. Bytes(ImageStart + Full, 0) = <<>>
    BY <1>4, <1>9, <2>1, BytesType
  <2>4. /\ address' = ImagePos + Full /\ data' = ImageStart + Full + Len(page)
        /\ Full + Len(page) + len' = ImageLen
    BY <1>4, <1>9, <2>1, <2>2
  <2>5. WhileWrite'
    <3>1. /\ \A k \in 1 .. Pages' : flash'[k] = FullPage(k)'
          /\ Pages' = 0
      BY <1>6, <1>9, NothingWritten
    <3>2. /\ address' = ImagePos' + Full'
          /\ page' = Bytes(ImageStart' + Full', Len(page'))
          /\ data' = ImageStart' + Full' + Len(page')
          /\ Full' + Len(page') + len' = ImageLen'
      BY <1>2, <1>3, <1>6, <1>9, <2>3, <2>4, NothingWritten
    <3>3. ~upload'.user1 => skip' = 0
      BY <1>2, <1>10
    <3> QED
      BY <3>1, <3>2, <3>3 DEF WhileWrite
  <2> QED
    BY <1>2, <1>7, <1>8, <2>2, <2>5 DEF UploadInv, WhileStart, WhileSkip, WhenDone
<1>11. CASE ~upload.user1
  <2>1. ImageStart = HeaderLen + upload.len1 /\ ImageLen = upload.len2 /\ ImagePos = Fw2Pos
    BY <1>2, <1>11 DEF ImageStart, ImageLen, ImagePos
  <2>2. /\ state' = "SKIP" /\ len' = upload.len2 /\ skip' = upload.len1 /\ address' = Fw2Pos
        /\ data' = HeaderLen
    BY <1>2, <1>3, <1>4, <1>11
  <2>3. WhileSkip'
    <3>1. len' = ImageLen' /\ data' + skip' = ImageStart' /\ address' = ImagePos'
      BY <1>6, <2>1, <2>2, NothingWritten
    <3> QED
      BY <1>2, <1>3, <1>11, <3>1 DEF WhileSkip
  <2> QED
    BY <1>2, <1>7, <1>8, <2>2, <2>3 DEF UploadInv, WhileStart, WhileWrite, WhenDone
<1> QED
  BY <1>10, <1>11

\* One image, the whole body.
LEMMA StartImageKeepsInv ==
  ASSUME UploadInv, StartImage
  PROVE  UploadInv'
<1>1. upload \in Uploads /\ UploadTypeOK
  BY DEF UploadInv, Types
<1>2. /\ running /\ state = "START" /\ upload.kind # "ota"
      /\ len' = upload.total /\ state' = "WRITE" /\ address' = Fw1Pos
      /\ UNCHANGED <<upload, received, data, running, skip, page, flash, erased, flashFailed, answer>>
  BY DEF StartImage, Loop, flashVars
<1>3. page = <<>> /\ flash = <<>> /\ erased = <<>> /\ data = 0
  BY <1>2 DEF UploadInv, WhileStart
<1>4. FwSize \in Nat /\ upload.total \in Nat /\ Fw1Pos \in Nat /\ upload.user1 /\ PageLen \in Nat
  BY <1>1, <1>2, UploadFacts
<1>5. UNCHANGED <<upload, flashVars>>
  BY <1>2 DEF flashVars
<1>6. Types'
  <2>1. len' \in 0 .. upload'.total + FwSize /\ address' \in Nat
    BY <1>2, <1>4
  <2>2. UploadTypeOK'
    BY <1>1, <1>2, <2>1 DEF UploadTypeOK
  <2> QED
    BY <1>2, <2>2 DEF UploadInv, Types
<1>7. ErasedSoFar'
  BY <1>5, NothingWritten DEF UploadInv
<1>8. Len(page) = 0 /\ Pages = 0 /\ Full = 0
  BY <1>3, <1>4 DEF Pages, Full
<1>9. ImageStart = 0 /\ ImageLen = upload.total /\ ImagePos = Fw1Pos
  BY <1>2, <1>4 DEF ImageStart, ImageLen, ImagePos
<1>10. WhileWrite'
  <2>1. Bytes(ImageStart + Full, 0) = <<>>
    BY <1>8, <1>9, BytesType
  <2>2. /\ \A k \in 1 .. Pages' : flash'[k] = FullPage(k)'
        /\ Pages' = 0
    BY <1>5, <1>8, NothingWritten
  <2>3. /\ address' = ImagePos' + Full'
        /\ page' = Bytes(ImageStart' + Full', Len(page'))
        /\ data' = ImageStart' + Full' + Len(page')
        /\ Full' + Len(page') + len' = ImageLen'
    BY <1>2, <1>3, <1>4, <1>5, <1>8, <1>9, <2>1, NothingWritten
  <2> QED
    BY <1>2, <1>4, <2>2, <2>3 DEF WhileWrite
<1> QED
  BY <1>2, <1>6, <1>7, <1>10 DEF UploadInv, WhileStart, WhileSkip, WhenDone

\* The other image is passed over.
LEMMA SkipKeepsInv ==
  ASSUME UploadInv, Skip
  PROVE  UploadInv'
<1>1. upload \in Uploads /\ UploadTypeOK
  BY DEF UploadInv, Types
<1>2. /\ running /\ Left # 0 /\ state = "SKIP"
      /\ \/ /\ skip > Left /\ skip' = skip - Left /\ data' = received /\ state' = "SKIP"
         \/ /\ skip <= Left /\ data' = data + skip /\ skip' = 0
            /\ state' = IF len # 0 THEN "WRITE" ELSE "DONE"
      /\ UNCHANGED <<upload, received, running, len, address, page, flash, erased, flashFailed, answer>>
  BY DEF Skip, Loop, flashVars
<1>3. /\ ImageStart \in Nat /\ ImageLen \in Nat /\ ImagePos \in Nat /\ PageLen \in Nat
      /\ FwSize \in Nat /\ upload.total \in Nat
  BY <1>1, UploadFacts
<1>4. /\ received \in 0 .. upload.total /\ data \in 0 .. received /\ skip \in 0 .. FwSize
      /\ Left = received - data
  BY <1>1 DEF UploadTypeOK, Left
<1>5. UNCHANGED <<upload, flashVars>>
  BY <1>2 DEF flashVars
<1>6. Types'
  <2>1. data' \in 0 .. received /\ skip' \in 0 .. FwSize
    BY <1>2, <1>3, <1>4
  <2>2. state' \in {"START", "WRITE", "SKIP", "DONE", "ERROR"}
    BY <1>2
  <2>3. UploadTypeOK'
    BY <1>1, <1>2, <2>1, <2>2 DEF UploadTypeOK
  <2> QED
    BY <1>2, <2>3 DEF UploadInv, Types
<1>7. ErasedSoFar'
  BY <1>5, NothingWritten DEF UploadInv
<1>8. state' # "START" /\ (answer' # "none" => ~running') /\ answer' # "ok"
  BY <1>2 DEF UploadInv, WhenDone
<1>9. CASE upload.user1
  <2>1. Complete /\ len = 0
    BY <1>2, <1>9 DEF UploadInv, WhileSkip
  <2>2. Complete' /\ len' = 0 /\ upload'.user1 /\ state' # "WRITE"
    BY <1>2, <1>5, <1>9, <2>1, NothingWritten
  <2> QED
    BY <1>6, <1>7, <1>8, <2>2 DEF UploadInv, WhileStart, WhileSkip, WhileWrite, WhenDone
<1>10. CASE ~upload.user1
  <2>1. /\ page = <<>> /\ flash = <<>>
        /\ len = ImageLen /\ data + skip = ImageStart /\ address = ImagePos
    BY <1>2, <1>10 DEF UploadInv, WhileSkip
  <2>2. Len(page) = 0 /\ Pages = 0 /\ Full = 0
    BY <1>3, <2>1 DEF Pages, Full
  <2>3. data' + skip' = ImageStart
    BY <1>2, <1>3, <1>4, <2>1
  <2>4. WhileSkip'
    BY <1>2, <1>5, <1>10, <2>1, <2>3, NothingWritten DEF WhileSkip
  <2>5. WhileWrite'
    <3>1. state' = "WRITE" => skip' = 0 /\ data' = ImageStart
      BY <1>2, <1>3, <1>4, <2>1
    <3>2. Bytes(ImageStart + Full, 0) = <<>>
      BY <1>3, <2>2, BytesType
    <3>3. /\ \A k \in 1 .. Pages' : flash'[k] = FullPage(k)'
          /\ Pages' = 0
      BY <1>5, <2>2, NothingWritten
    <3>4. /\ address' = ImagePos' + Full'
          /\ page' = Bytes(ImageStart' + Full', Len(page'))
          /\ Full' + Len(page') + len' = ImageLen'
      BY <1>2, <1>3, <1>5, <2>1, <2>2, <3>2, NothingWritten
    <3>5. state' = "WRITE" => data' = ImageStart' + Full' + Len(page')
      BY <1>2, <1>3, <1>5, <2>2, <3>1, NothingWritten
    <3> QED
      BY <3>1, <3>3, <3>4, <3>5 DEF WhileWrite
  <2>6. WhenDone'
    <3>1. ASSUME state' = "DONE" PROVE Complete'
      <4>1. ImageLen = 0
        BY <1>2, <2>1, <3>1
      <4>2. Complete
        BY <2>2, <4>1 DEF Complete
      <4> QED
        BY <1>5, <4>2, NothingWritten
    <3> QED
      BY <1>8, <3>1 DEF WhenDone
  <2> QED
    BY <1>6, <1>7, <1>8, <2>4, <2>5, <2>6 DEF UploadInv, WhileStart
<1> QED
  BY <1>9, <1>10

\* What follows is ignored.
LEMMA IgnoreKeepsInv ==
  ASSUME UploadInv, Ignore
  PROVE  UploadInv'
<1>1. /\ state \in {"DONE", "ERROR"} /\ data' = received
      /\ UNCHANGED <<upload, received, running, state, len, skip, address, page, flash, erased, flashFailed, answer>>
  BY DEF Ignore, Loop, stateVars, flashVars
<1>2. UNCHANGED <<upload, flashVars>>
  BY <1>1 DEF flashVars
<1>3. Types'
  <2>1. received \in 0 .. upload.total
    BY DEF UploadInv, Types, UploadTypeOK
  <2>2. upload.total \in Nat
    BY UploadFacts DEF UploadInv, Types
  <2>3. data' \in 0 .. received'
    BY <1>1, <2>1, <2>2
  <2>4. UploadTypeOK'
    BY <1>1, <2>3 DEF UploadInv, Types, UploadTypeOK
  <2> QED
    BY <1>1, <2>4 DEF UploadInv, Types
<1>4. ErasedSoFar' /\ (Complete' <=> Complete)
  BY <1>2, NothingWritten DEF UploadInv
<1>5. WhileStart' /\ WhileSkip' /\ WhileWrite' /\ WhenDone'
  BY <1>1, <1>4 DEF UploadInv, WhileStart, WhileSkip, WhileWrite, WhenDone
<1> QED
  BY <1>3, <1>4, <1>5 DEF UploadInv

\* The function returns, or the connection closes.
LEMMA ReturnKeepsInv ==
  ASSUME UploadInv, Return \/ UploadAbort
  PROVE  UploadInv'
<1>1. /\ running' = FALSE /\ answer' \in {"none", "ok", "premature", "error", "aborted"}
      /\ answer' = "ok" => state = "DONE"
      /\ running => Left = 0
      /\ running \/ answer = "none"
      /\ UNCHANGED <<upload, received, data, state, len, skip, address, page, flash, erased, flashFailed>>
  BY DEF Return, UploadAbort, stateVars, flashVars
<1>2. UNCHANGED <<upload, flashVars>>
  BY <1>1 DEF flashVars
<1>3. Types'
  <2>1. UploadTypeOK'
    BY <1>1 DEF UploadInv, Types, UploadTypeOK
  <2> QED
    BY <1>1, <2>1 DEF UploadInv, Types
<1>4. WhileSkip' /\ WhileWrite' /\ WhenDone' /\ ErasedSoFar'
  BY <1>1, <1>2, NothingWritten DEF UploadInv, WhileSkip, WhileWrite, WhenDone
<1>5. WhileStart'
  <2>1. upload.total \in Nat \ {0} /\ PostBuf \in Nat \ {0}
    BY UploadFacts DEF UploadInv, Types
  <2>2. Less(PostBuf, upload.total) # 0
    BY <2>1 DEF Less
  <2>3. /\ state = "START" => data = 0 /\ (~running => received = 0)
                              /\ (running => received = Less(PostBuf, upload.total))
        /\ running => received = data
    <3>1. running => received = data
      BY <1>1 DEF Left, UploadInv, Types, UploadTypeOK
    <3> QED
      BY <1>1, <3>1 DEF UploadInv, WhileStart
  <2>4. state = "START" => received = 0
    BY <2>2, <2>3
  <2> QED
    BY <1>1, <2>4 DEF UploadInv, WhileStart
<1> QED
  BY <1>3, <1>4, <1>5 DEF UploadInv

\* There is no memory for an upload.
LEMMA NoMemoryKeepsInv ==
  ASSUME UploadInv, UploadNoMemory
  PROVE  UploadInv'
<1>1. /\ ~running /\ received = 0 /\ received' = received + Less(PostBuf, upload.total - received)
      /\ answer' = "starved"
      /\ UNCHANGED <<upload, data, running, state, len, skip, address, page, flash, erased, flashFailed>>
  BY DEF UploadNoMemory, HandOver, stateVars, flashVars
<1>2. UNCHANGED <<upload, flashVars>>
  BY <1>1 DEF flashVars
<1>3. upload \in Uploads /\ UploadTypeOK
  BY DEF UploadInv, Types
<1>4. PostBuf \in Nat /\ upload.total \in Nat
  BY <1>3, UploadFacts
<1>5. received' = Less(PostBuf, upload.total) /\ received' \in 0 .. upload.total
  BY <1>1, <1>4 DEF Less
<1>6. Types'
  <2>1. data' \in 0 .. received'
    BY <1>1, <1>3, <1>5 DEF UploadTypeOK
  <2>2. UploadTypeOK'
    BY <1>1, <1>3, <1>5, <2>1 DEF UploadTypeOK
  <2> QED
    BY <1>1, <2>2 DEF UploadInv, Types
<1>7. WhileStart'
  BY <1>1, <1>5 DEF UploadInv, WhileStart
<1>8. WhileSkip' /\ WhileWrite' /\ WhenDone' /\ ErasedSoFar'
  BY <1>1, <1>2, NothingWritten DEF UploadInv, WhileSkip, WhileWrite, WhenDone
<1> QED
  BY <1>6, <1>7, <1>8 DEF UploadInv

\* The page is not complete yet.
LEMMA PartOfPageKeepsInv ==
  ASSUME UploadInv, PartOfPage
  PROVE  UploadInv'
<1>1. upload \in Uploads /\ UploadTypeOK /\ page \in Seq(Nat)
  BY DEF UploadInv, Types
<1>2. /\ running /\ state = "WRITE" /\ Left < Wanted
      /\ page' = page \o Bytes(data, Left) /\ len' = len - Left /\ data' = received
      /\ UNCHANGED <<upload, received, running, state, skip, address, flash, erased, flashFailed, answer>>
  BY DEF PartOfPage, Loop, flashVars
<1>3. /\ ImageStart \in Nat /\ ImageLen \in Nat /\ ImagePos \in Nat /\ PageLen \in Nat \ {0}
      /\ FwSize \in Nat /\ upload.total \in Nat
  BY <1>1, UploadFacts
<1>4. /\ received \in 0 .. upload.total /\ data \in 0 .. received /\ len \in 0 .. upload.total + FwSize
      /\ Left = received - data /\ Len(page) \in Nat /\ Len(page) < PageLen
  BY <1>1 DEF UploadTypeOK, Left
<1>5. /\ \A k \in 1 .. Pages : flash[k] = FullPage(k)
      /\ address = ImagePos + Full
      /\ page = Bytes(ImageStart + Full, Len(page))
      /\ data = ImageStart + Full + Len(page)
      /\ Full + Len(page) + len = ImageLen
      /\ ~upload.user1 => skip = 0
  BY <1>2 DEF UploadInv, WhileWrite
<1>6. Pages \in Nat /\ Full \in Nat
  <2>1. Pages \in Nat
    BY DEF UploadInv, Types, Pages
  <2> QED
    BY <1>3, <2>1 DEF Full
<1>7. UNCHANGED <<upload, flashVars>>
  BY <1>2 DEF flashVars
<1>8. Left \in Nat /\ Left < len /\ Left + Len(page) < PageLen
  <2>1. Wanted <= PageLen - Len(page) /\ Wanted <= len /\ Wanted \in Int
    BY <1>3, <1>4 DEF Wanted, Less
  <2> QED
    BY <1>2, <1>3, <1>4, <2>1
<1>9. page' = Bytes(ImageStart + Full, Len(page) + Left)
  <2>1. ImageStart + Full \in Nat
    BY <1>3, <1>6
  <2>2. Bytes(ImageStart + Full, Len(page)) \o Bytes(ImageStart + Full + Len(page), Left)
          = Bytes(ImageStart + Full, Len(page) + Left)
    BY <1>4, <1>8, <2>1, BytesGoOn
  <2> QED
    BY <1>2, <1>5, <2>2, Zenon
<1>10. page' \in Seq(Nat) /\ Len(page') = Len(page) + Left
  <2>1. ImageStart + Full \in Nat /\ Len(page) + Left \in Nat
    BY <1>3, <1>4, <1>6, <1>8
  <2> QED
    BY <1>9, <2>1, BytesType
<1>11. Types'
  <2>1. data' \in 0 .. received' /\ len' \in 0 .. upload'.total + FwSize /\ Len(page') < PageLen
    <3>1. received \in 0 .. received
      BY <1>4
    <3>2. len - Left \in 0 .. upload.total + FwSize
      <4>1. PICK n \in Nat : n = upload.total + FwSize
        BY <1>3
      <4>2. len \in 0 .. n
        BY <1>4, <4>1, Zenon
      <4>3. len - Left \in 0 .. n
        BY <1>8, <4>2
      <4> QED
        BY <4>1, <4>3, Zenon
    <3>3. Len(page') < PageLen
      BY <1>3, <1>4, <1>8, <1>10
    <3>4. data' = received /\ received' = received /\ len' = len - Left /\ upload' = upload
      BY <1>2
    <3> QED
      BY <3>1, <3>2, <3>3, <3>4, Zenon
  <2>2. UploadTypeOK'
    BY <1>1, <1>2, <2>1 DEF UploadTypeOK
  <2> QED
    BY <1>2, <1>10, <2>2 DEF UploadInv, Types
<1>12. ErasedSoFar'
  BY <1>7, NothingWritten DEF UploadInv
<1>13. WhileWrite'
  <2>1. /\ \A k \in 1 .. Pages' : flash'[k] = FullPage(k)'
        /\ address' = ImagePos' + Full'
        /\ page' = Bytes(ImageStart' + Full', Len(page'))
    BY <1>2, <1>5, <1>7, <1>9, <1>10, NothingWritten, Zenon
  <2>2. /\ data' = ImageStart + Full + Len(page')
        /\ Full + Len(page') + len' = ImageLen /\ len' > 0
    <3>1. data' = received /\ len' = len - Left /\ Len(page') = Len(page) + Left
      BY <1>2, <1>10
    <3>2. data = ImageStart + Full + Len(page) /\ Full + Len(page) + len = ImageLen
      BY <1>5
    <3>3. PICK start \in Int, total \in Int, full \in Int, n \in Int, left \in Int :
            /\ start = ImageStart /\ total = ImageLen /\ full = Full
            /\ n = Len(page) /\ left = Left
      BY <1>3, <1>4, <1>6, <1>8
    <3>4. /\ received = data + left /\ data = start + full + n /\ full + n + len = total
          /\ left < len /\ len \in Int /\ data \in Int
      BY <1>3, <1>4, <1>8, <3>2, <3>3
    <3>5. /\ received = start + full + (n + left) /\ full + (n + left) + (len - left) = total
          /\ len - left > 0
      BY <3>4
    <3> QED
      BY <3>1, <3>3, <3>5, Zenon
  <2> QED
    BY <1>2, <1>5, <1>7, <2>1, <2>2, NothingWritten DEF WhileWrite
<1> QED
  BY <1>2, <1>11, <1>12, <1>13 DEF UploadInv, WhileStart, WhileSkip, WhenDone

\* The page is written.
LEMMA WritePageKeepsInv ==
  ASSUME UploadInv, WritePage
  PROVE  UploadInv'
<1> DEFINE bytes == page \o Bytes(data, Wanted)
           written == [address |-> address, bytes |-> bytes]
<1>1. upload \in Uploads /\ UploadTypeOK /\ page \in Seq(Nat) /\ flash \in Seq(InFlash) /\ erased \in Seq(Nat)
  BY DEF UploadInv, Types
<1>2. /\ running /\ state = "WRITE" /\ Left >= Wanted
      /\ flash' = Append(flash, written)
      /\ erased' = IF address % SectorLen = 0 THEN Append(erased, address \div SectorLen) ELSE erased
      /\ data' = data + Wanted /\ len' = len - Wanted /\ address' = address + PageLen /\ page' = <<>>
      /\ state' = IF len = Wanted THEN AfterImage ELSE "WRITE"
      /\ flashFailed' \in BOOLEAN
      /\ UNCHANGED <<upload, received, running, skip, answer>>
  BY DEF WritePage, Loop, Erases
<1>3. /\ ImageStart \in Nat /\ ImageLen \in Nat /\ ImagePos \in Nat /\ PageLen \in Nat \ {0}
      /\ FwSize \in Nat /\ upload.total \in Nat /\ SectorLen \in Nat \ {0} /\ SectorLen % PageLen = 0
      /\ ImagePos % SectorLen = 0
  BY <1>1, UploadFacts
<1>4. /\ received \in 0 .. upload.total /\ data \in 0 .. received /\ len \in 0 .. upload.total + FwSize
      /\ Left = received - data /\ Len(page) \in Nat /\ Len(page) < PageLen
  BY <1>1 DEF UploadTypeOK, Left
<1>5. /\ \A k \in 1 .. Pages : flash[k] = FullPage(k)
      /\ address = ImagePos + Full
      /\ page = Bytes(ImageStart + Full, Len(page))
      /\ data = ImageStart + Full + Len(page)
      /\ Full + Len(page) + len = ImageLen
      /\ len > 0 \/ Pages = 0
      /\ ~upload.user1 => skip = 0
  BY <1>2 DEF UploadInv, WhileWrite
<1>6. Pages \in Nat /\ Len(flash) = Pages /\ Full = Pages * PageLen /\ Full \in Nat
  <2>1. Pages \in Nat /\ Len(flash) = Pages
    BY <1>1 DEF Pages
  <2> QED
    BY <1>3, <2>1 DEF Full
<1>7. Wanted \in Nat /\ Wanted <= len /\ Len(page) + Wanted <= PageLen
      /\ (len # Wanted => Len(page) + Wanted = PageLen)
  BY <1>3, <1>4 DEF Wanted, Less
<1>8. upload' = upload /\ ImageStart' = ImageStart /\ ImageLen' = ImageLen /\ ImagePos' = ImagePos
  BY <1>2 DEF ImageStart, ImageLen, ImagePos
<1>9. bytes = Bytes(ImageStart + Full, Len(page) + Wanted) /\ bytes \in Seq(Nat)
  <2>1. ImageStart + Full \in Nat /\ Len(page) + Wanted \in Nat
    BY <1>3, <1>4, <1>6, <1>7
  <2>2. Bytes(ImageStart + Full, Len(page)) \o Bytes(ImageStart + Full + Len(page), Wanted)
          = Bytes(ImageStart + Full, Len(page) + Wanted)
    BY <1>4, <1>7, <2>1, BytesGoOn
  <2>3. bytes = Bytes(ImageStart + Full, Len(page) + Wanted)
    BY <1>5, <2>2, Zenon
  <2> QED
    BY <2>1, <2>3, BytesType
<1> HIDE DEF bytes
<1>10. written \in InFlash /\ written.address = address /\ written.bytes = bytes
  BY <1>3, <1>5, <1>6, <1>9 DEF InFlash
<1>11. written = [address |-> ImagePos + Full, bytes |-> bytes]
  BY <1>5
<1> HIDE DEF written
<1>12. /\ flash' \in Seq(InFlash) /\ Pages' = Pages + 1 /\ Len(flash') = Pages + 1
       /\ \A k \in 1 .. Pages : flash'[k] = flash[k]
       /\ flash'[Pages + 1] = written
  <2>1. /\ Append(flash, written) \in Seq(InFlash) /\ Len(Append(flash, written)) = Len(flash) + 1
        /\ \A k \in 1 .. Len(flash) : Append(flash, written)[k] = flash[k]
        /\ Append(flash, written)[Len(flash) + 1] = written
    BY <1>1, <1>10
  <2>2. Len(flash') = Pages + 1
    BY <1>2, <1>6, <2>1
  <2>3. Pages' = Pages + 1
    BY <2>2 DEF Pages
  <2> QED
    BY <1>2, <1>6, <2>1, <2>2, <2>3
<1>13. Full' = Full + PageLen
  BY <1>3, <1>6, <1>12, TimesNext DEF Full
<1>14. erased' \in Seq(Nat)
  <2>1. address \in Nat /\ address \div SectorLen \in Nat
    BY <1>3, <1>5, <1>6
  <2> QED
    BY <1>1, <1>2, <2>1
<1>15. Types'
  <2>1. data' \in 0 .. received' /\ len' \in 0 .. upload'.total + FwSize
    <3>1. Left >= Wanted /\ data' = data + Wanted /\ len' = len - Wanted /\ received' = received /\ upload' = upload
      BY <1>2
    <3> QED
      BY <1>3, <1>4, <1>7, <3>1
  <2>2. address' \in Nat
    <3>1. address' = address + PageLen /\ address = ImagePos + Full
      BY <1>2, <1>5
    <3> QED
      BY <1>3, <1>6, <3>1
  <2>3. page' \in Seq(Nat) /\ Len(page') < PageLen
    BY <1>2, <1>3
  <2>4. state' \in {"START", "WRITE", "SKIP", "DONE", "ERROR"}
    BY <1>2 DEF AfterImage
  <2>5. UploadTypeOK'
    BY <1>1, <1>2, <2>1, <2>2, <2>3, <2>4 DEF UploadTypeOK
  <2> QED
    BY <1>1, <1>8, <1>12, <1>14, <2>3, <2>5 DEF Types
<1>16. ErasedSoFar'
  <2>1. /\ \A k \in 1 .. Pages : flash[k].address = ImagePos + (k - 1) * PageLen
        /\ \A t \in 1 .. Len(erased) : erased[t] = ImagePos \div SectorLen + t - 1
        /\ Full <= Len(erased) * SectorLen
        /\ Len(erased) * SectorLen < Full + SectorLen
    BY DEF UploadInv, ErasedSoFar
  <2>2. \A k \in 1 .. Pages' : flash'[k].address = ImagePos' + (k - 1) * PageLen
    <3>1. ASSUME NEW k \in 1 .. Pages + 1 PROVE flash'[k].address = ImagePos + (k - 1) * PageLen
      <4>1. CASE k \in 1 .. Pages
        BY <1>12, <2>1, <4>1
      <4>2. CASE k = Pages + 1
        <5>1. k - 1 = Pages
          BY <1>6, <4>2
        <5> QED
          BY <1>5, <1>6, <1>10, <1>12, <4>2, <5>1, Zenon
      <4> QED
        BY <1>6, <4>1, <4>2
    <3> QED
      BY <1>8, <1>12, <3>1
  <2>3. PICK e \in Nat, f \in Nat : e = Len(erased) /\ f = ImagePos \div SectorLen /\ ImagePos = f * SectorLen
    <3>1. ImagePos \in Nat /\ SectorLen \in Nat \ {0} /\ ImagePos % SectorLen = 0
      BY <1>3
    <3>2. ImagePos \div SectorLen \in Nat /\ ImagePos = (ImagePos \div SectorLen) * SectorLen
      BY <3>1, WholeQuotient, Zenon
    <3>3. Len(erased) \in Nat
      BY <1>1
    <3> QED
      BY <3>2, <3>3, Zenon
  <2>4. address = f * SectorLen + Pages * PageLen
    BY <1>5, <1>6, <2>3
  <2>5. /\ address % SectorLen = 0 =>
             /\ address \div SectorLen = f + e
             /\ Full + PageLen <= (e + 1) * SectorLen /\ (e + 1) * SectorLen < Full + PageLen + SectorLen
        /\ address % SectorLen # 0 =>
             /\ Full + PageLen <= e * SectorLen /\ e * SectorLen < Full + PageLen + SectorLen
    <3>1. Pages * PageLen <= e * SectorLen /\ e * SectorLen < Pages * PageLen + SectorLen
      BY <1>6, <2>1, <2>3
    <3>2. Pages \in Nat /\ PageLen \in Nat \ {0} /\ SectorLen \in Nat \ {0} /\ SectorLen % PageLen = 0
      BY <1>3, <1>6
    <3>3. e \in Nat /\ f \in Nat
      OBVIOUS
    <3>4. NextPageBegins(Pages, e, f, PageLen, SectorLen)
      BY <3>1, <3>2, <3>3, NextPage
    <3> QED
      BY <1>6, <2>4, <3>4, Zenon DEF NextPageBegins
  <2>6. CASE address % SectorLen = 0
    <3>1. erased' = Append(erased, f + e)
      BY <1>2, <2>5, <2>6
    <3>2. Len(erased') = e + 1 /\ \A t \in 1 .. e + 1 : erased'[t] = f + t - 1
      <4>1. \A t \in 1 .. e : erased[t] = f + t - 1
        BY <2>1, <2>3
      <4>2. erased \in Seq(Nat) /\ Len(erased) = e /\ f + e \in Nat
        BY <1>1, <2>3
      <4> QED
        BY <3>1, <4>1, <4>2
    <3>3. \A t \in 1 .. Len(erased') : erased'[t] = ImagePos' \div SectorLen + t - 1
      BY <1>8, <2>3, <3>2
    <3>4. Full' <= Len(erased') * SectorLen /\ Len(erased') * SectorLen < Full' + SectorLen
      BY <1>13, <2>5, <2>6, <3>2
    <3> QED
      BY <2>2, <3>3, <3>4 DEF ErasedSoFar
  <2>7. CASE address % SectorLen # 0
    <3>1. erased' = erased
      BY <1>2, <2>7
    <3>2. Full' <= Len(erased') * SectorLen /\ Len(erased') * SectorLen < Full' + SectorLen
      BY <1>13, <2>3, <2>5, <2>7, <3>1
    <3>3. \A t \in 1 .. Len(erased') : erased'[t] = ImagePos' \div SectorLen + t - 1
      BY <1>8, <2>1, <3>1
    <3> QED
      BY <2>2, <3>2, <3>3 DEF ErasedSoFar
  <2> QED
    BY <2>6, <2>7
<1>17. answer' # "ok" /\ (answer' # "none" => ~running')
  BY <1>2 DEF UploadInv, WhenDone
<1>18. CASE len = Wanted
  <2>1. Complete'
    <3>1. Full + (Len(page) + Wanted) = ImageLen
      BY <1>3, <1>4, <1>5, <1>6, <1>18
    <3>2. CASE Len(page) + Wanted = 0
      <4>1. len = 0 /\ Pages = 0 /\ ImageLen = 0
        <5>1. Len(page) = 0 /\ Wanted = 0
          BY <1>4, <1>7, <3>2
        <5>2. Pages = 0
          BY <1>5, <1>18, <5>1
        <5>3. Full = 0
          BY <1>3, <1>6, <5>2
        <5> QED
          BY <1>18, <3>1, <5>1, <5>2, <5>3
      <4>2. bytes = <<>>
        <5>1. ImageStart + Full \in Nat
          BY <1>3, <1>6
        <5> QED
          BY <1>9, <3>2, <5>1, BytesType
      <4>3. Pages' = 1 /\ flash'[1].bytes = <<>>
        BY <1>10, <1>12, <4>1, <4>2
      <4> QED
        BY <1>8, <4>1, <4>3 DEF Complete
    <3>3. CASE Len(page) + Wanted # 0
      <4>1. /\ Pages * PageLen < ImageLen /\ ImageLen <= Pages * PageLen + PageLen
            /\ ImageLen - Pages * PageLen = Len(page) + Wanted
        BY <1>3, <1>4, <1>6, <1>7, <3>1, <3>3
      <4>2. flash'[Pages + 1] = [address |-> ImagePos + Pages * PageLen,
                                 bytes |-> Bytes(ImageStart + Pages * PageLen, ImageLen - Pages * PageLen)]
        BY <1>6, <1>9, <1>11, <1>12, <4>1, Zenon
      <4>3. \A k \in 1 .. Pages : flash'[k] = FullPageOf(ImageStart, ImagePos, k)
        BY <1>5, <1>12, Zenon DEF FullPage, FullPageOf
      <4>4. flash' = PagesOf(ImageStart, ImageLen, ImagePos)
        <5>1. /\ PageLen \in Nat \ {0} /\ ImageStart \in Nat /\ ImagePos \in Nat /\ ImageLen \in Nat
              /\ Pages \in Nat /\ flash' \in Seq(InFlash) /\ Len(flash') = Pages + 1
          BY <1>3, <1>6, <1>12
        <5> QED
          BY <4>1, <4>2, <4>3, <5>1, PagesAreAll, Zenon
      <4> QED
        BY <1>8, <4>4 DEF Complete
    <3> QED
      BY <3>2, <3>3
  <2>2. len' = 0 /\ state' = AfterImage
    BY <1>2, <1>4, <1>18
  <2>3. state' = "SKIP" => upload'.user1
    BY <1>2, <1>5, <2>2 DEF AfterImage
  <2>4. WhileStart' /\ WhileSkip' /\ WhileWrite' /\ WhenDone'
    BY <1>17, <2>1, <2>2, <2>3 DEF AfterImage, WhileStart, WhileSkip, WhileWrite, WhenDone
  <2> QED
    BY <1>15, <1>16, <2>4 DEF UploadInv
<1>19. CASE len # Wanted
  <2>1. state' = "WRITE" /\ len' > 0 /\ Len(page) + Wanted = PageLen
    BY <1>2, <1>4, <1>7, <1>19
  <2>2. flash'[Pages + 1] = FullPage(Pages + 1)
    <3>1. Pages + 1 - 1 = Pages
      BY <1>6
    <3>2. FullPage(Pages + 1) = [address |-> ImagePos + Full, bytes |-> Bytes(ImageStart + Full, PageLen)]
      BY <1>6, <3>1 DEF FullPage
    <3> QED
      BY <1>9, <1>11, <1>12, <2>1, <3>2, Zenon
  <2>3. \A k : FullPage(k)' = FullPage(k)
    BY <1>8 DEF FullPage
  <2>4. \A k \in 1 .. Pages' : flash'[k] = FullPage(k)'
    <3>1. ASSUME NEW k \in 1 .. Pages + 1 PROVE flash'[k] = FullPage(k)'
      <4>1. CASE k \in 1 .. Pages
        BY <1>5, <1>12, <2>3, <4>1, Zenon
      <4>2. CASE k = Pages + 1
        BY <2>2, <2>3, <4>2, Zenon
      <4> QED
        BY <1>6, <4>1, <4>2
    <3> QED
      BY <1>12, <3>1
  <2>5. Len(page') = 0 /\ page' = Bytes(ImageStart' + Full', Len(page'))
    <3>1. ImageStart' + Full' \in Nat
      BY <1>3, <1>6, <1>8, <1>13
    <3>2. Bytes(ImageStart' + Full', 0) = <<>>
      BY <3>1, BytesType
    <3> QED
      BY <1>2, <3>2
  <2>6. /\ address' = ImagePos' + Full' /\ data' = ImageStart' + Full' + Len(page')
        /\ Full' + Len(page') + len' = ImageLen'
    <3>1. data' = data + Wanted /\ len' = len - Wanted /\ address' = address + PageLen
      BY <1>2
    <3>2. address = ImagePos + Full /\ data = ImageStart + Full + Len(page) /\ Full + Len(page) + len = ImageLen
      BY <1>5
    <3>3. Len(page') = 0 /\ Len(page) + Wanted = PageLen
      BY <2>1, <2>5
    <3>4. ImageStart \in Nat /\ ImageLen \in Nat /\ ImagePos \in Nat /\ PageLen \in Nat
      BY <1>3
    <3> QED
      BY <1>4, <1>6, <1>7, <1>8, <1>13, <3>1, <3>2, <3>3, <3>4
  <2>7. ~upload'.user1 => skip' = 0
    BY <1>2, <1>5
  <2>8. WhileWrite'
    BY <2>1, <2>4, <2>5, <2>6, <2>7 DEF WhileWrite
  <2> QED
    BY <1>15, <1>16, <1>17, <2>1, <2>8 DEF UploadInv, WhileStart, WhileSkip, WhenDone
<1> QED
  BY <1>18, <1>19

\* Every step keeps the invariant.
LEMMA NextKeepsUploadInv ==
  ASSUME UploadInv, [UploadNext]_uploadVars
  PROVE  UploadInv'
<1>1. CASE UNCHANGED uploadVars
  <2>1. UNCHANGED <<upload, received, data, running, state, len, skip, address, page, flash, erased, flashFailed, answer>>
    BY <1>1 DEF uploadVars, stateVars, flashVars
  <2>2. UNCHANGED <<upload, flashVars>>
    BY <2>1 DEF flashVars
  <2>3. UploadTypeOK'
    BY <2>1 DEF UploadInv, Types, UploadTypeOK
  <2>4. Types'
    BY <2>1, <2>3 DEF UploadInv, Types
  <2>5. WhileStart' /\ WhileSkip' /\ WhileWrite' /\ WhenDone' /\ ErasedSoFar'
    BY <2>1, <2>2, NothingWritten DEF UploadInv, WhileStart, WhileSkip, WhileWrite, WhenDone
  <2> QED
    BY <2>4, <2>5 DEF UploadInv
<1> QED
  BY <1>1, DeliverKeepsInv, RefuseKeepsInv, StartOtaKeepsInv, StartImageKeepsInv, SkipKeepsInv,
     PartOfPageKeepsInv, WritePageKeepsInv, IgnoreKeepsInv, ReturnKeepsInv, NoMemoryKeepsInv DEF UploadNext, Turn

\* What was written lies in sectors that were erased, each once.
LEMMA InvErased ==
  ASSUME UploadInv
  PROVE  ErasedBeforeWritten
<1>1. /\ upload \in Uploads /\ erased \in Seq(Nat) /\ flash \in Seq(InFlash)
      /\ \A k \in 1 .. Pages : flash[k].address = ImagePos + (k - 1) * PageLen
      /\ \A t \in 1 .. Len(erased) : erased[t] = ImagePos \div SectorLen + t - 1
      /\ Full <= Len(erased) * SectorLen
  BY DEF UploadInv, Types, ErasedSoFar
<1>2. /\ ImagePos \in Nat /\ ImagePos % SectorLen = 0
      /\ PageLen \in Nat \ {0} /\ SectorLen \in Nat \ {0}
  BY <1>1, UploadFacts
<1>3. Pages \in Nat /\ Len(flash) = Pages /\ Full = Pages * PageLen
  BY <1>1 DEF Pages, Full
<1>4. PICK e \in Nat, f \in Nat : e = Len(erased) /\ f = ImagePos \div SectorLen /\ ImagePos = f * SectorLen
  <2>1. ImagePos \div SectorLen \in Nat /\ ImagePos = (ImagePos \div SectorLen) * SectorLen
    BY <1>2, WholeQuotient, Zenon
  <2>2. Len(erased) \in Nat
    BY <1>1
  <2> QED
    BY <2>1, <2>2, Zenon
<1>5. \A t \in 1 .. e : erased[t] = f + t - 1
  BY <1>1, <1>4
<1>6. ASSUME NEW k \in 1 .. Len(flash)
      PROVE  \E t \in 1 .. Len(erased) : erased[t] = flash[k].address \div SectorLen
  <2>1. PICK j \in Nat : j = k - 1 /\ j < Pages
    <3>1. k - 1 \in Nat /\ k - 1 < Pages
      BY <1>3
    <3> QED
      BY <3>1
  <2>2. j * PageLen + PageLen <= Pages * PageLen
    <3>1. j \in Int /\ Pages \in Int /\ PageLen \in Nat
      BY <1>2, <1>3
    <3> QED
      BY <2>1, <3>1, TimesLess
  <2>3. j * PageLen < e * SectorLen
    <3>1. j * PageLen \in Nat /\ Pages * PageLen \in Nat /\ e * SectorLen \in Nat
      BY <1>2, <1>3
    <3>2. Pages * PageLen <= e * SectorLen
      BY <1>1, <1>3, <1>4
    <3> QED
      BY <1>2, <2>2, <3>1, <3>2
  <2>4. PICK q \in 0 .. e - 1 : (f * SectorLen + j * PageLen) \div SectorLen = f + q
    <3>1. PageLiesIn(j, e, f, PageLen, SectorLen)
      BY <1>2, <2>3, PageInSector
    <3> QED
      BY <3>1, Zenon DEF PageLiesIn
  <2>5. flash[k].address = f * SectorLen + j * PageLen
    BY <1>1, <1>3, <1>4, <2>1
  <2>6. flash[k].address \div SectorLen = f + q
    BY <2>4, <2>5, Zenon
  <2>7. q + 1 \in 1 .. e /\ f + (q + 1) - 1 = f + q
    OBVIOUS
  <2> QED
    BY <1>4, <1>5, <2>6, <2>7
<1>7. ASSUME NEW s \in 1 .. Len(erased), NEW t \in 1 .. Len(erased), erased[s] = erased[t]
      PROVE  s = t
  BY <1>4, <1>5, <1>7
<1> QED
  BY <1>6, <1>7 DEF ErasedBeforeWritten

\* What is reported as done is in flash.
LEMMA InvWritten ==
  ASSUME UploadInv
  PROVE  OkMeansWritten
BY DEF UploadInv, WhenDone, Complete, Pages, OkMeansWritten

----------------------------------------------------------------------------
\* Whatever is uploaded, wherever the body is cut into parts and whatever the flash returns: when an
\* upload is answered with success, spi_flash_write was called for the whole image, each byte once, in
\* order and at its place, and no page is given to a sector that this upload has not asked to erase,
\* or asks to erase later. It does not say that the flash did so: cgiUploadFirmware does not look.
THEOREM UploadAsksForImage == UploadSpec => []FlashIsWritten
<1>1. UploadInit => UploadInv
  BY InitUpload
<1>2. UploadInv /\ [UploadNext]_uploadVars => UploadInv'
  BY NextKeepsUploadInv
<1>3. UploadInv => FlashIsWritten
  BY InvErased, InvWritten DEF FlashIsWritten
<1> QED
  BY <1>1, <1>2, <1>3, PTL DEF UploadSpec

\* What the function keeps between two calls stays within its bounds: it never looks behind the
\* bytes received, and less than a page is left over.
THEOREM UploadTypes == UploadSpec => []UploadTypeOK
<1>1. UploadInit => UploadInv
  BY InitUpload
<1>2. UploadInv /\ [UploadNext]_uploadVars => UploadInv'
  BY NextKeepsUploadInv
<1>3. UploadInv => UploadTypeOK
  BY DEF UploadInv, Types
<1> QED
  BY <1>1, <1>2, <1>3, PTL DEF UploadSpec

----------------------------------------------------------------------------
(***************************************************************************)
(* What a client reads of a response in chunks, for every length of the    *)
(* buffer, of the head and of the pieces and every number of calls. What   *)
(* it reads is a function of the place it starts from, which goes on at a  *)
(* place behind: that there is one such function and what it says is       *)
(* shown from the end of the response to its beginning. The inductive      *)
(* invariant says that the wire, with the buffer up to the open chunk      *)
(* behind it, is a head and whole chunks (Reading), from which a client    *)
(* reads what was accepted less the data of the open chunk; a chunk that   *)
(* is finished and flushed adds its data to what is read.                  *)
(***************************************************************************)

\* What a client reads at a place, if f says what it reads from each later one.
ReadAt(w, f, p) ==
  IF p > Len(w) THEN <<>>
  ELSE IF w[p].type = "0" THEN IF p + 4 = Len(w) THEN <<Mark("end")>> ELSE Broken
  ELSE IF w[p].type # "size" THEN Broken
  ELSE LET n == w[p].n
           behind == p + HeaderCells + n
       IN  IF n < 1 \/ behind + 1 > Len(w)
              \/ SubSeq(w, behind, behind + 1) # Marks(CrLf) THEN Broken
           ELSE SubSeq(w, p + HeaderCells, behind - 1) \o f[behind + 2]

\* f says it for every place.
IsParsing(f, w) == f = [p \in 1 .. Len(w) + 1 |-> ReadAt(w, f, p)]

\* The cells of a response, and of the body.
CellTypes == {"head", "data", "size", "digit", "nl", "0", "end"}
Cells == [type : CellTypes, n : Int]

\* Joining sequences of them is associative.
Associates(s, t, u) == s \o (t \o u) = (s \o t) \o u

\* That it is.
LEMMA CellsJoined ==
  ASSUME NEW s \in Seq(Cells), NEW t \in Seq(Cells), NEW u \in Seq(Cells)
  PROVE  Associates(s, t, u)
BY DEF Associates

\* What is read at a place depends on what is read from later ones only.
LEMMA ReadAtLooksBehind ==
  ASSUME NEW w \in Seq(Cells), NEW f, NEW g, NEW p \in 1 .. Len(w) + 1,
         \A q \in p + 1 .. Len(w) + 1 : f[q] = g[q]
  PROVE  ReadAt(w, f, p) = ReadAt(w, g, p)
<1> DEFINE n == w[p].n
           behind == p + HeaderCells + n
           later == behind + 2
<1>1. Len(w) \in Nat
  BY LenProperties
<1>2. CASE p > Len(w) \/ w[p].type # "size"
  BY <1>1, <1>2 DEF ReadAt
<1>3. CASE p <= Len(w) /\ w[p].type = "size"
  <2>1. p \in 1 .. Len(w) /\ w[p] \in Cells
    BY <1>1, <1>3, ElementOfSeq
  <2>2. n \in Int
    BY <2>1 DEF Cells
  <2>3. n >= 1 /\ behind + 1 <= Len(w) => later \in p + 1 .. Len(w) + 1
    BY <1>1, <2>1, <2>2 DEF HeaderCells
  <2>4. n >= 1 /\ behind + 1 <= Len(w) => f[behind + 2] = g[behind + 2]
    BY <2>3
  <2>5. CASE n < 1 \/ behind + 1 > Len(w)
    BY <2>5 DEF ReadAt
  <2>6. CASE n >= 1 /\ behind + 1 <= Len(w)
    BY <2>6, <2>4 DEF ReadAt
  <2> QED
    BY <1>1, <2>1, <2>2, <2>5, <2>6 DEF HeaderCells
<1> QED
  BY <1>1, <1>2, <1>3

\* There is a function that says what is read from every place.
LEMMA ParsingExists ==
  ASSUME NEW w \in Seq(Cells)
  PROVE  \E f : IsParsing(f, w)
<1> DEFINE L == Len(w)
           From(k, f) == \A p \in L + 2 - k .. L + 1 : f[p] = ReadAt(w, f, p)
           T == {k \in 1 .. L + 1 : \E f : From(k, f)}
<1>1. L \in Nat
  BY LenProperties
<1> HIDE DEF L
<1>2. 1 \in T
  <2> DEFINE g == [p \in 1 .. L + 1 |-> <<>>]
  <2>1. From(1, g)
    <3> SUFFICES ASSUME NEW p \in L + 2 - 1 .. L + 1
                 PROVE  g[p] = ReadAt(w, g, p)
      OBVIOUS
    <3>1. p = L + 1 /\ p \in 1 .. L + 1
      BY <1>1
    <3> QED
      BY <1>1, <3>1 DEF ReadAt, L
  <2>2. 1 \in 1 .. L + 1
    BY <1>1
  <2> HIDE DEF From, g
  <2> QED
    BY <2>1, <2>2
<1>3. ASSUME NEW k \in 1 .. L + 1, k > 1, k - 1 \in T
      PROVE  k \in T
  <2>1. PICK f : From(k - 1, f)
    BY <1>3
  <2> DEFINE at == L + 2 - k
             g == [p \in 1 .. L + 1 |-> IF p = at THEN ReadAt(w, f, p) ELSE f[p]]
  <2>2. at \in 1 .. L + 1
    BY <1>1
  <2>3. \A q \in at + 1 .. L + 1 : g[q] = f[q]
    BY <1>1, <2>2
  <2>4. ASSUME NEW p \in at .. L + 1
        PROVE  g[p] = ReadAt(w, g, p)
    <3>1. p \in 1 .. Len(w) + 1
      BY <2>2 DEF L
    <3>2. ReadAt(w, g, p) = ReadAt(w, f, p)
      <4>1. \A q \in p + 1 .. Len(w) + 1 : g[q] = f[q]
        BY <1>1, <2>2, <2>3 DEF L
      <4> HIDE DEF g
      <4> QED
        BY <3>1, <4>1, ReadAtLooksBehind
    <3>3. g[p] = ReadAt(w, f, p)
      <4>1. CASE p = at
        BY <2>2, <4>1, Zenon
      <4>2. CASE p # at
        <5>1. g[p] = f[p]
          BY <3>1, <4>2 DEF L
        <5>2. p \in L + 2 - (k - 1) .. L + 1
          BY <1>1, <2>2, <4>2
        <5> QED
          BY <2>1, <5>1, <5>2
      <4> QED
        BY <4>1, <4>2
    <3> QED
      BY <3>2, <3>3
  <2>5. From(k, g)
    BY <2>4
  <2> HIDE DEF From, g
  <2> QED
    BY <2>5
<1> HIDE DEF From, T
<1>4. L + 1 \in T
  <2> DEFINE n == L + 1
  <2>1. n \in Nat /\ n \in 1 .. n
    BY <1>1
  <2>2. 1 \in T /\ \A k \in 1 .. n : k > 1 /\ k - 1 \in T => k \in T
    BY <1>2, <1>3
  <2> HIDE DEF n
  <2>3. 1 .. n \subseteq T
    BY <2>1, <2>2, UpTo
  <2>4. n \in T
    BY <2>1, <2>3
  <2> QED
    BY <2>4 DEF n
<1>5. PICK f : From(L + 1, f)
  BY <1>4 DEF T
<1> DEFINE g == [p \in 1 .. L + 1 |-> f[p]]
<1>6. ASSUME NEW p \in 1 .. L + 1
      PROVE  g[p] = ReadAt(w, g, p)
  <2>1. \A q \in p + 1 .. Len(w) + 1 : g[q] = f[q]
    BY <1>1 DEF L
  <2>2. p \in 1 .. Len(w) + 1
    BY DEF L
  <2>3. ReadAt(w, g, p) = ReadAt(w, f, p)
    <3> HIDE DEF g
    <3> QED
      BY <2>1, <2>2, ReadAtLooksBehind
  <2>4. L + 2 - (L + 1) = 1
    BY <1>1
  <2>5. f[p] = ReadAt(w, f, p)
    BY <1>5, <2>4 DEF From
  <2> QED
    BY <2>3, <2>5
<1>7. IsParsing(g, w)
  <2>1. g = [p \in 1 .. L + 1 |-> g[p]]
    OBVIOUS
  <2> HIDE DEF g
  <2>2. g = [p \in 1 .. L + 1 |-> ReadAt(w, g, p)]
    BY <1>6, <2>1
  <2> QED
    BY <2>2 DEF IsParsing, L
<1> QED
  BY <1>7

\* Parsing is it.
LEMMA ParsingDef ==
  ASSUME NEW w \in Seq(Cells)
  PROVE  IsParsing(Parsing(w), w)
<1>1. Parsing(w) = CHOOSE f : f = [p \in 1 .. Len(w) + 1 |-> ReadAt(w, f, p)]
  BY Zenon DEF Parsing, ReadAt
<1>2. \E f : f = [p \in 1 .. Len(w) + 1 |-> ReadAt(w, f, p)]
  BY ParsingExists DEF IsParsing
<1> QED
  BY <1>1, <1>2 DEF IsParsing

\* What is read at a place.
LEMMA ParsedAt ==
  ASSUME NEW w \in Seq(Cells), NEW p \in 1 .. Len(w) + 1
  PROVE  Parsing(w)[p] = ReadAt(w, Parsing(w), p)
BY ParsingDef, Zenon DEF IsParsing
----------------------------------------------------------------------------
\* A chunk of w lies at p, and the next one at q.
ChunkAt(w, p, q) ==
  /\ w[p].type = "size" /\ w[p].n >= 1
  /\ q = p + HeaderCells + w[p].n + 2 /\ q <= Len(w) + 1
  /\ SubSeq(w, q - 2, q - 1) = Marks(CrLf)

\* Behind the head w is nothing but chunks, that begin at the places of B; the next one will begin
\* behind w.
Cut(w, B) ==
  /\ B \subseteq HeadLen + 1 .. Len(w) + 1 /\ HeadLen + 1 \in B /\ Len(w) + 1 \in B
  /\ \A p \in B : p # Len(w) + 1 => \E q \in B : ChunkAt(w, p, q)

\* Of a chunk its data are read.
LEMMA ReadAtChunk ==
  ASSUME NEW w \in Seq(Cells), NEW f, NEW p \in 1 .. Len(w), NEW q, ChunkAt(w, p, q)
  PROVE  /\ ReadAt(w, f, p) = SubSeq(w, p + HeaderCells, q - 3) \o f[q]
         /\ q \in p + 9 .. Len(w) + 1
<1>1. Len(w) \in Nat /\ w[p] \in Cells
  BY LenProperties, ElementOfSeq
<1>2. w[p].n \in Int /\ w[p].type = "size" /\ w[p].n >= 1 /\ HeaderCells = 6
  BY <1>1 DEF Cells, ChunkAt, HeaderCells
<1> DEFINE n == w[p].n
           behind == p + HeaderCells + n
<1>3. /\ q = behind + 2 /\ q - 3 = behind - 1 /\ q - 2 = behind /\ q - 1 = behind + 1
      /\ behind + 1 <= Len(w) /\ q \in p + 9 .. Len(w) + 1
  <2>1. q = p + HeaderCells + n + 2 /\ q <= Len(w) + 1
    BY Zenon DEF ChunkAt
  <2>2. p \in Int /\ n \in Int /\ n >= 1
    BY <1>2
  <2> HIDE DEF n
  <2> QED
    BY <1>1, <1>2, <2>1, <2>2
<1>4. SubSeq(w, behind, behind + 1) = Marks(CrLf)
  BY <1>3, Zenon DEF ChunkAt
<1>5. ReadAt(w, f, p) = SubSeq(w, p + HeaderCells, behind - 1) \o f[behind + 2]
  <2>1. ~ (p > Len(w)) /\ w[p].type # "0" /\ ~ (n < 1) /\ ~ (behind + 1 > Len(w))
    BY <1>1, <1>2, <1>3
  <2> QED
    BY <1>2, <1>4, <2>1 DEF ReadAt
<1> QED
  BY <1>3, <1>5

\* The data of the chunk of w at p are read from v, and then what is read behind it.
DataReadAt(w, v, f, p, q) == ReadAt(v, f, p) = SubSeq(w, p + HeaderCells, q - 3) \o f[q]

\* Those of w are read from w.
LEMMA DataAreRead ==
  ASSUME NEW w \in Seq(Cells), NEW f, NEW p \in 1 .. Len(w), NEW q, ChunkAt(w, p, q)
  PROVE  DataReadAt(w, w, f, p, q)
BY ReadAtChunk DEF DataReadAt

\* A chunk stays one, whatever comes behind it.
LEMMA ChunkStays ==
  ASSUME NEW w \in Seq(Cells), NEW c \in Seq(Cells), NEW p \in 1 .. Len(w), NEW q,
         ChunkAt(w, p, q)
  PROVE  /\ ChunkAt(w \o c, p, q)
         /\ SubSeq(w \o c, p + HeaderCells, q - 3) = SubSeq(w, p + HeaderCells, q - 3)
<1> DEFINE v == w \o c
<1>1. /\ v \in Seq(Cells) /\ Len(v) = Len(w) + Len(c) /\ Len(w) \in Nat /\ Len(c) \in Nat
      /\ \A i \in 1 .. Len(w) : v[i] = w[i]
  BY ConcatProperties, LenProperties
<1>2. w[p] \in Cells
  BY ElementOfSeq
<1>3. q \in p + 9 .. Len(w) + 1 /\ v[p] = w[p]
  BY <1>1, ReadAtChunk
<1> HIDE DEF v
<1>4. ASSUME NEW a \in Int, NEW b \in Int, a >= 1, b <= Len(w)
      PROVE  SubSeq(v, a, b) = SubSeq(w, a, b)
  <2>1. Len(w) \in Nat /\ Len(c) \in Nat /\ Len(v) = Len(w) + Len(c)
    BY <1>1
  <2>2. \A i \in 1 .. (b - a) + 1 : a + i - 1 \in 1 .. Len(w)
    BY <1>4, <2>1
  <2>3. \A i \in 1 .. (b - a) + 1 : v[a + i - 1] = w[a + i - 1]
    BY <1>1, <2>2, Zenon
  <2>4. SubSeq(v, a, b) = [i \in 1 .. (b - a) + 1 |-> v[a + i - 1]]
    BY <1>1, <1>4, <2>1
  <2>5. SubSeq(w, a, b) = [i \in 1 .. (b - a) + 1 |-> w[a + i - 1]]
    BY <1>4
  <2> QED
    BY <2>3, <2>4, <2>5
<1>5. SubSeq(v, q - 2, q - 1) = SubSeq(w, q - 2, q - 1)
  <2>1. q - 2 \in Int /\ q - 1 \in Int /\ q - 2 >= 1 /\ q - 1 <= Len(w)
    BY <1>1, <1>3
  <2> QED
    BY <2>1, <1>4
<1>6. SubSeq(v, p + HeaderCells, q - 3) = SubSeq(w, p + HeaderCells, q - 3)
  <2>1. /\ p + HeaderCells \in Int /\ q - 3 \in Int
        /\ p + HeaderCells >= 1 /\ q - 3 <= Len(w)
    BY <1>1, <1>3 DEF HeaderCells
  <2> QED
    BY <2>1, <1>4
<1>7. ChunkAt(v, p, q)
  <2>1. q <= Len(v) + 1
    BY <1>1, <1>3
  <2> QED
    BY <1>3, <1>5, <2>1, Zenon DEF ChunkAt
<1> QED
  BY <1>6, <1>7 DEF v

\* The same is read of it.
LEMMA ReadAtKept ==
  ASSUME NEW w \in Seq(Cells), NEW c \in Seq(Cells), NEW f, NEW p \in 1 .. Len(w), NEW q,
         ChunkAt(w, p, q)
  PROVE  DataReadAt(w, w \o c, f, p, q)
<1>1. /\ w \o c \in Seq(Cells) /\ Len(w \o c) = Len(w) + Len(c)
      /\ Len(w) \in Nat /\ Len(c) \in Nat
  BY ConcatProperties, LenProperties
<1>2. PICK v \in Seq(Cells) : v = w \o c
  BY <1>1
<1>3. p \in 1 .. Len(v)
  BY <1>1, <1>2
<1>4. ChunkAt(v, p, q) /\ SubSeq(v, p + HeaderCells, q - 3) = SubSeq(w, p + HeaderCells, q - 3)
  <2>1. /\ ChunkAt(w \o c, p, q)
        /\ SubSeq(w \o c, p + HeaderCells, q - 3) = SubSeq(w, p + HeaderCells, q - 3)
    BY ChunkStays
  <2> QED
    BY <1>2, <2>1, Zenon
<1>5. ReadAt(v, f, p) = SubSeq(v, p + HeaderCells, q - 3) \o f[q]
  BY <1>3, <1>4, ReadAtChunk
<1> QED
  BY <1>2, <1>4, <1>5, Zenon DEF DataReadAt

\* If w is nothing but chunks, what is read from it with something behind it is what is read from
\* it alone, and then what is read from there.
LEMMA ReadOn ==
  ASSUME NEW w \in Seq(Cells), NEW c \in Seq(Cells), NEW B, Cut(w, B), HeadLen \in Nat,
         Parsing(w \o c)[Len(w) + 1] \in Seq(Cells)
  PROVE  \A p \in B : /\ Parsing(w)[p] \in Seq(Cells)
                      /\ Parsing(w \o c)[p] = Parsing(w)[p] \o Parsing(w \o c)[Len(w) + 1]
<1> DEFINE v == w \o c
           f == Parsing(w)
           g == Parsing(v)
           rest == g[Len(w) + 1]
           Good(p) == f[p] \in Seq(Cells) /\ g[p] = f[p] \o rest
           L == Len(w) + 1
           T == {k \in Nat : L - k \in B /\ ~Good(L - k)}
<1>1. /\ v \in Seq(Cells) /\ Len(v) = Len(w) + Len(c) /\ Len(w) \in Nat /\ Len(c) \in Nat
      /\ L \in Nat
  BY ConcatProperties, LenProperties
<1>2. B \subseteq 1 .. L /\ B \subseteq 1 .. Len(v) + 1
  <2>1. B \subseteq HeadLen + 1 .. L
    BY DEF Cut
  <2> QED
    BY <1>1, <2>1
<1>2a. \A p \in B : p # L => \E q \in B : ChunkAt(w, p, q)
  BY DEF Cut
<1>3. rest \in Seq(Cells)
  OBVIOUS
<1>4. ASSUME NEW p \in B, p = L
      PROVE  Good(p)
  <2>1. f[p] = ReadAt(w, f, p)
    BY <1>2, <1>4, ParsedAt
  <2>2. f[p] = <<>>
    BY <1>1, <1>4, <2>1 DEF ReadAt
  <2>3. g[p] = rest
    BY <1>4
  <2> HIDE DEF f, g, rest
  <2> QED
    BY <1>3, <2>2, <2>3, ConcatEmptySeq, EmptySeq
<1>5. ASSUME NEW p \in B, p # L, \A q \in B : q > p => Good(q)
      PROVE  Good(p)
  <2>1. PICK q \in B : ChunkAt(w, p, q)
    BY <1>2a, <1>5
  <2>2. p \in 1 .. Len(w) /\ p \in 1 .. Len(v) /\ p \in 1 .. Len(w) + 1 /\ p \in 1 .. Len(v) + 1
    BY <1>1, <1>2, <1>5
  <2> DEFINE d == SubSeq(w, p + HeaderCells, q - 3)
  <2>3. ReadAt(w, f, p) = d \o f[q] /\ q \in p + 9 .. Len(w) + 1
    BY <2>1, <2>2, ReadAtChunk
  <2>4. ChunkAt(v, p, q) /\ SubSeq(v, p + HeaderCells, q - 3) = d
    BY <2>1, <2>2, ChunkStays
  <2>5. ReadAt(v, g, p) = d \o g[q]
    <3>1. DataReadAt(w, v, g, p, q)
      BY <2>1, <2>2, ReadAtKept, Zenon
    <3> QED
      BY <3>1, Zenon DEF DataReadAt
  <2>6. f[p] = ReadAt(w, f, p)
    BY <2>2, ParsedAt, Zenon
  <2>7. g[p] = ReadAt(v, g, p)
    BY <1>1, <2>2, ParsedAt, Zenon
  <2>8. Good(q)
    <3>1. q > p
      BY <2>2, <2>3
    <3> QED
      BY <1>5, <3>1
  <2>9. d \in Seq(Cells)
    <3>1. p + HeaderCells \in Int /\ q - 3 \in Int /\ p + HeaderCells >= 1 /\ q - 3 <= Len(w)
      BY <2>2, <2>3, <1>1 DEF HeaderCells
    <3> QED
      BY <3>1, SubSeqProperties
  <2> HIDE DEF d, f, g, v, rest
  <2>10. f[p] = d \o f[q] /\ g[p] = d \o (f[q] \o rest)
    BY <2>3, <2>5, <2>6, <2>7, <2>8, Zenon
  <2>11. f[p] \in Seq(Cells)
    BY <2>8, <2>9, <2>10, ConcatProperties, Zenon
  <2>12. d \o (f[q] \o rest) = (d \o f[q]) \o rest
    <3>1. f[q] \in Seq(Cells) /\ rest \in Seq(Cells)
      BY <1>3, <2>8
    <3> QED
      BY <2>9, <3>1, CellsJoined, Zenon DEF Associates
  <2> QED
    BY <2>10, <2>11, <2>12, Zenon
<1> HIDE DEF Good
<1>6. T = {}
  <2> SUFFICES ASSUME T # {} PROVE FALSE
    OBVIOUS
  <2>1. PICK k \in T : \A j \in T : k <= j
    <3>1. T \subseteq Nat
      OBVIOUS
    <3> HIDE DEF T
    <3> QED
      BY <3>1, LeastElement
  <2>2. L - k \in B /\ ~Good(L - k) /\ k \in Nat
    OBVIOUS
  <2>3. ASSUME NEW q \in B, q > L - k
        PROVE  Good(q)
    <3>1. L - q \in Nat /\ L - (L - q) = q /\ L - q < k
      BY <1>1, <1>2, <2>2, <2>3
    <3>2. L - q \notin T
      BY <2>1, <2>2, <3>1
    <3> QED
      BY <3>1, <3>2
  <2> QED
    BY <1>4, <1>5, <2>2, <2>3
<1>7. ASSUME NEW p \in B
      PROVE  Good(p)
  <2>1. L - p \in Nat /\ L - (L - p) = p
    BY <1>1, <1>2
  <2> QED
    BY <1>6, <2>1
<1> QED
  BY <1>7 DEF Good
----------------------------------------------------------------------------
\* What is put on the wire.

\* A chunk with the data d.
ChunkOf(d) == Header(Len(d)) \o d \o Marks(CrLf)

\* A sequence behind another one.
LEMMA Behind ==
  ASSUME NEW S, NEW w \in Seq(S), NEW c \in Seq(S)
  PROVE  /\ w \o c \in Seq(S) /\ Len(w \o c) = Len(w) + Len(c)
         /\ \A i \in 1 .. Len(w) : (w \o c)[i] = w[i]
         /\ \A i \in 1 .. Len(c) : (w \o c)[Len(w) + i] = c[i]
<1>1. Len(w) \in Nat /\ Len(c) \in Nat
  BY LenProperties
<1>2. /\ w \o c \in Seq(S) /\ Len(w \o c) = Len(w) + Len(c)
      /\ \A i \in 1 .. Len(w) + Len(c) :
           (w \o c)[i] = IF i <= Len(w) THEN w[i] ELSE c[i - Len(w)]
  BY ConcatProperties
<1>3. ASSUME NEW i \in 1 .. Len(c)
      PROVE  (w \o c)[Len(w) + i] = c[i]
  <2>1. Len(w) + i \in 1 .. Len(w) + Len(c) /\ ~ (Len(w) + i <= Len(w)) /\ Len(w) + i - Len(w) = i
    BY <1>1
  <2>2. (w \o c)[Len(w) + i] = c[Len(w) + i - Len(w)]
    BY <1>2, <2>1
  <2> QED
    BY <2>1, <2>2
<1>4. ASSUME NEW i \in 1 .. Len(w)
      PROVE  (w \o c)[i] = w[i]
  <2>1. i \in 1 .. Len(w) + Len(c) /\ i <= Len(w)
    BY <1>1
  <2> QED
    BY <1>2, <2>1
<1> QED
  BY <1>2, <1>3, <1>4

\* A part of a sequence, given member by member.
LEMMA PartIs ==
  ASSUME NEW S, NEW v \in Seq(S), NEW d \in Seq(S), NEW a \in Nat, a + Len(d) <= Len(v),
         \A i \in 1 .. Len(d) : v[a + i] = d[i]
  PROVE  SubSeq(v, a + 1, a + Len(d)) = d
<1>1. Len(d) \in Nat /\ Len(v) \in Nat
  BY LenProperties
<1> DEFINE m == a + 1
           n == a + Len(d)
<1>2. m \in Int /\ n \in Int /\ n - m + 1 = Len(d) /\ (m <= n <=> Len(d) # 0) /\ m >= 1 /\ n <= Len(v)
  BY <1>1
<1>3. \A i \in m .. n : v[i] \in S
  <2>1. \A i \in m .. n : i \in 1 .. Len(v)
    BY <1>1, <1>2
  <2> QED
    BY <2>1, ElementOfSeq
<1> DEFINE u == SubSeq(v, m, n)
<1>4. /\ u \in Seq(S) /\ Len(u) = IF m <= n THEN n - m + 1 ELSE 0
      /\ \A i \in 1 .. n - m + 1 : u[i] = v[m + i - 1]
  <2> HIDE DEF m, n
  <2> QED
    BY <1>2, <1>3, SubSeqProperties
<1>5. Len(u) = Len(d)
  BY <1>1, <1>2, <1>4
<1>6. ASSUME NEW i \in 1 .. Len(d)
      PROVE  u[i] = d[i]
  <2>1. u[i] = v[m + i - 1]
    BY <1>2, <1>4
  <2>2. m + i - 1 = a + i
    BY <1>1
  <2> QED
    BY <2>1, <2>2
<1> HIDE DEF u
<1>7. u = d
  BY <1>4, <1>5, <1>6, SeqEqual
<1> QED
  BY <1>7 DEF u

\* A cell in front of five others.
SixFrom(h, a, S) == h \in Seq(S) /\ Len(h) = 6 /\ h[1] = a

\* This is one.
LEMMA SixCells ==
  ASSUME NEW S, NEW a \in S, NEW b \in S, NEW c \in S
  PROVE  SixFrom(<<a>> \o <<b, b, b, c, c>>, a, S)
<1>1. <<b, b, b, c, c>> \in Seq(S) /\ Len(<<b, b, b, c, c>>) = 5
  OBVIOUS
<1>2. <<a>> \in Seq(S) /\ Len(<<a>>) = 1 /\ <<a>>[1] = a
  OBVIOUS
<1>3. PICK s \in Seq(S) : s = <<a>>
  BY <1>2
<1>4. PICK t \in Seq(S) : t = <<b, b, b, c, c>>
  BY <1>1
<1>5. s \o t \in Seq(S) /\ Len(s \o t) = 6 /\ (s \o t)[1] = a
  BY <1>1, <1>2, <1>3, <1>4
<1> QED
  BY <1>3, <1>4, <1>5, Zenon DEF SixFrom

\* Marks are cells.
LEMMA MarkType ==
  ASSUME NEW c \in CellTypes
  PROVE  Mark(c) \in Cells
BY DEF Mark, Cells

\* The header of a chunk.
LEMMA HeaderIs ==
  ASSUME NEW n \in Int
  PROVE  \E h \in Seq(Cells) : h = Header(n) /\ Len(h) = 6 /\ h[1] = [type |-> "size", n |-> n]
<1> DEFINE first == [type |-> "size", n |-> n]
<1>1. first \in Cells /\ Mark("digit") \in Cells /\ Mark("nl") \in Cells
  <2>1. first \in Cells
    BY DEF Cells, CellTypes
  <2>2. "digit" \in CellTypes /\ "nl" \in CellTypes
    BY DEF CellTypes
  <2> QED
    BY <2>1, <2>2, MarkType, Zenon
<1>2. Marks(<<"digit", "digit", "digit", "nl", "nl">>)
        = <<Mark("digit"), Mark("digit"), Mark("digit"), Mark("nl"), Mark("nl")>>
  BY DEF Marks
<1>3. Header(n) = <<first>> \o <<Mark("digit"), Mark("digit"), Mark("digit"), Mark("nl"), Mark("nl")>>
  BY <1>2, Zenon DEF Header
<1> HIDE DEF first
<1>4. SixFrom(<<first>> \o <<Mark("digit"), Mark("digit"), Mark("digit"), Mark("nl"), Mark("nl")>>,
              first, Cells)
  BY <1>1, SixCells, Zenon
<1>5. SixFrom(Header(n), first, Cells)
  BY <1>3, <1>4, Zenon
<1> QED
  BY <1>5, Zenon DEF first, SixFrom

\* The line end behind it.
LEMMA CrLfIs == \E t \in Seq(Cells) : t = Marks(CrLf) /\ Len(t) = 2
<1>1. Mark("nl") \in Cells
  <2>1. "nl" \in CellTypes
    BY DEF CellTypes
  <2> QED
    BY <2>1, MarkType, Zenon
<1>2. Marks(CrLf) = <<Mark("nl"), Mark("nl")>>
  BY DEF Marks, CrLf
<1>3. \A c \in Cells : <<c, c>> \in Seq(Cells) /\ Len(<<c, c>>) = 2
  OBVIOUS
<1> QED
  BY <1>1, <1>2, <1>3, Zenon

\* v is w and then c.
Joins(v, w, c) ==
  /\ v = w \o c /\ Len(v) = Len(w) + Len(c)
  /\ \A i \in 1 .. Len(w) : v[i] = w[i]
  /\ \A i \in 1 .. Len(c) : v[Len(w) + i] = c[i]

\* Cells behind cells are cells.
LEMMA CellsBehind ==
  ASSUME NEW w \in Seq(Cells), NEW c \in Seq(Cells)
  PROVE  \E v \in Seq(Cells) : Joins(v, w, c)
<1>1. w \o c \in Seq(Cells) /\ Joins(w \o c, w, c)
  BY Behind DEF Joins
<1> QED
  BY <1>1, Zenon

\* Where they lie.
LEMMA ChunkIs ==
  ASSUME NEW d \in Seq(Cells)
  PROVE  /\ ChunkOf(d) \in Seq(Cells) /\ Len(ChunkOf(d)) = Len(d) + 8
         /\ ChunkOf(d)[1] = [type |-> "size", n |-> Len(d)]
         /\ \A i \in 1 .. Len(d) : ChunkOf(d)[i + 6] = d[i]
         /\ \A i \in 1 .. 2 : ChunkOf(d)[Len(d) + 6 + i] = Marks(CrLf)[i]
<1>1. Len(d) \in Nat
  BY LenProperties
<1>2. PICK h \in Seq(Cells) : h = Header(Len(d)) /\ Len(h) = 6 /\ h[1] = [type |-> "size", n |-> Len(d)]
  BY <1>1, HeaderIs
<1>3. PICK t \in Seq(Cells) : t = Marks(CrLf) /\ Len(t) = 2
  BY CrLfIs
<1>4. ChunkOf(d) = h \o d \o t
  BY <1>2, <1>3, Zenon DEF ChunkOf
<1>5. PICK hd \in Seq(Cells) : hd = h \o d /\ Len(hd) = 6 + Len(d) /\ hd[1] = h[1]
                             /\ \A i \in 1 .. Len(d) : hd[6 + i] = d[i]
  <2>1. PICK v \in Seq(Cells) : Joins(v, h, d)
    BY CellsBehind
  <2>2. Len(v) = 6 + Len(d) /\ v[1] = h[1] /\ (\A i \in 1 .. Len(d) : v[6 + i] = d[i]) /\ v = h \o d
    BY <1>2, <2>1 DEF Joins
  <2> QED
    BY <2>2, Zenon
<1>6. PICK c \in Seq(Cells) : c = hd \o t /\ Len(c) = 6 + Len(d) + 2 /\ c[1] = hd[1]
                            /\ (\A i \in 1 .. Len(d) : c[6 + i] = hd[6 + i])
                            /\ \A i \in 1 .. 2 : c[6 + Len(d) + i] = t[i]
  <2>1. PICK c \in Seq(Cells) : Joins(c, hd, t)
    BY CellsBehind
  <2>2. /\ Len(c) = 6 + Len(d) + 2 /\ c[1] = hd[1] /\ c = hd \o t
        /\ \A i \in 1 .. Len(d) : c[6 + i] = hd[6 + i]
        /\ \A i \in 1 .. 2 : c[6 + Len(d) + i] = t[i]
    <3>1. Len(c) = 6 + Len(d) + 2 /\ c = hd \o t
      BY <1>3, <1>5, <2>1 DEF Joins
    <3>2. \A i \in 1 .. 6 + Len(d) : c[i] = hd[i]
      BY <1>5, <2>1, Zenon DEF Joins
    <3>3. \A i \in 1 .. 2 : c[6 + Len(d) + i] = t[i]
      BY <1>3, <1>5, <2>1, Zenon DEF Joins
    <3> QED
      <4>1. 1 \in 1 .. 6 + Len(d) /\ \A i \in 1 .. Len(d) : 6 + i \in 1 .. 6 + Len(d)
        BY <1>1
      <4>2. c[1] = hd[1] /\ \A i \in 1 .. Len(d) : c[6 + i] = hd[6 + i]
        BY <3>2, <4>1, Zenon
      <4> QED
        BY <3>1, <3>3, <4>2, Zenon
  <2> QED
    BY <2>1, <2>2, Zenon
<1>7. ChunkOf(d) = c
  BY <1>4, <1>5, <1>6, Zenon
<1>8. Len(c) = Len(d) + 8 /\ c[1] = [type |-> "size", n |-> Len(d)]
  BY <1>1, <1>2, <1>5, <1>6
<1>9. \A i \in 1 .. Len(d) : c[i + 6] = d[i]
  <2> TAKE i \in 1 .. Len(d)
  <2>1. i + 6 = 6 + i
    BY <1>1
  <2> QED
    BY <1>5, <1>6, <2>1
<1>10. \A i \in 1 .. 2 : c[Len(d) + 6 + i] = Marks(CrLf)[i]
  <2> TAKE i \in 1 .. 2
  <2>1. Len(d) + 6 + i = 6 + Len(d) + i
    BY <1>1
  <2> QED
    BY <1>3, <1>6, <2>1
<1> QED
  BY <1>7, <1>8, <1>9, <1>10, Zenon

\* The chunk of v from p to q holds d.
ChunkWith(v, p, q, d) == ChunkAt(v, p, q) /\ SubSeq(v, p + HeaderCells, q - 3) = d

\* A chunk behind others is one.
LEMMA ChunkBehind ==
  ASSUME NEW w \in Seq(Cells), NEW d \in Seq(Cells), Len(d) >= 1
  PROVE  ChunkWith(w \o ChunkOf(d), Len(w) + 1, Len(w) + Len(d) + 9, d)
<1>1. Len(w) \in Nat /\ Len(d) \in Nat
  BY LenProperties
<1>2. PICK c \in Seq(Cells) : c = ChunkOf(d)
  BY ChunkIs
<1>3. /\ Len(c) = Len(d) + 8 /\ c[1] = [type |-> "size", n |-> Len(d)]
      /\ \A i \in 1 .. Len(d) : c[i + 6] = d[i]
      /\ \A i \in 1 .. 2 : c[Len(d) + 6 + i] = Marks(CrLf)[i]
  BY <1>2, ChunkIs
<1>4. /\ w \o c \in Seq(Cells) /\ Len(w \o c) = Len(w) + Len(c)
      /\ \A i \in 1 .. Len(c) : (w \o c)[Len(w) + i] = c[i]
  BY Behind
<1>5. PICK v \in Seq(Cells) : v = w \o c
  BY <1>4
<1>6. \A i \in 1 .. Len(d) + 8 : v[Len(w) + i] = c[i]
  BY <1>3, <1>4, <1>5, Zenon
<1>7. v[Len(w) + 1] = [type |-> "size", n |-> Len(d)]
  <2>1. 1 \in 1 .. Len(d) + 8
    BY <1>1
  <2>2. v[Len(w) + 1] = c[1]
    BY <1>6, <2>1, Zenon
  <2> QED
    BY <1>3, <2>2, Zenon
<1>8. \A i \in 1 .. Len(d) : v[Len(w) + 6 + i] = d[i]
  <2> TAKE i \in 1 .. Len(d)
  <2>1. v[Len(w) + (i + 6)] = c[i + 6]
    BY <1>1, <1>6
  <2>2. Len(w) + 6 + i = Len(w) + (i + 6)
    BY <1>1
  <2> QED
    BY <1>3, <2>1, <2>2
<1>9. \A i \in 1 .. 2 : v[Len(w) + Len(d) + 6 + i] = Marks(CrLf)[i]
  <2> TAKE i \in 1 .. 2
  <2>1. v[Len(w) + (Len(d) + 6 + i)] = c[Len(d) + 6 + i]
    BY <1>1, <1>6
  <2>2. Len(w) + Len(d) + 6 + i = Len(w) + (Len(d) + 6 + i)
    BY <1>1
  <2> QED
    BY <1>3, <2>1, <2>2
<1>10. Len(v) = Len(w) + Len(d) + 8
  BY <1>1, <1>3, <1>4, <1>5
<1>11. SubSeq(v, Len(w) + 7, Len(w) + Len(d) + 6) = d
  <2> DEFINE a == Len(w) + 6
  <2>1. /\ a \in Nat /\ a + Len(d) <= Len(v) /\ a + 1 = Len(w) + 7
        /\ a + Len(d) = Len(w) + Len(d) + 6
    BY <1>1, <1>10
  <2>2. \A i \in 1 .. Len(d) : v[a + i] = d[i]
    BY <1>8
  <2> HIDE DEF a
  <2>3. SubSeq(v, a + 1, a + Len(d)) = d
    BY <2>1, <2>2, PartIs
  <2> QED
    BY <2>1, <2>3
<1>12. SubSeq(v, Len(w) + Len(d) + 7, Len(w) + Len(d) + 8) = Marks(CrLf)
  <2>1. PICK t \in Seq(Cells) : t = Marks(CrLf) /\ Len(t) = 2
    BY CrLfIs
  <2>2. \A i \in 1 .. 2 : v[Len(w) + Len(d) + 6 + i] = t[i]
    BY <1>9, <2>1
  <2>3. SubSeq(v, Len(w) + Len(d) + 7, Len(w) + Len(d) + 8) = t
    <3> DEFINE a == Len(w) + Len(d) + 6
    <3>1. a \in Nat /\ a + 2 <= Len(v) /\ a + 1 = Len(w) + Len(d) + 7 /\ a + 2 = Len(w) + Len(d) + 8
      BY <1>1, <1>10
    <3>2. \A i \in 1 .. 2 : v[a + i] = t[i]
      BY <2>2
    <3> HIDE DEF a
    <3>3. SubSeq(v, a + 1, a + Len(t)) = t
      BY <2>1, <3>1, <3>2, PartIs
    <3> QED
      BY <2>1, <3>1, <3>3
  <2> QED
    BY <2>1, <2>3
<1>13. /\ Len(w) + Len(d) + 9 = Len(w) + 1 + HeaderCells + Len(d) + 2
       /\ Len(w) + Len(d) + 9 <= Len(v) + 1
       /\ Len(w) + Len(d) + 9 - 2 = Len(w) + Len(d) + 7
       /\ Len(w) + Len(d) + 9 - 1 = Len(w) + Len(d) + 8
       /\ Len(w) + Len(d) + 9 - 3 = Len(w) + Len(d) + 6
       /\ Len(w) + 1 + HeaderCells = Len(w) + 7
  BY <1>1, <1>10 DEF HeaderCells
<1>14. ChunkAt(v, Len(w) + 1, Len(w) + Len(d) + 9)
  BY <1>7, <1>12, <1>13 DEF ChunkAt
<1>15. SubSeq(v, Len(w) + 1 + HeaderCells, Len(w) + Len(d) + 9 - 3) = d
  BY <1>11, <1>13
<1>16. ChunkWith(v, Len(w) + 1, Len(w) + Len(d) + 9, d)
  BY <1>14, <1>15 DEF ChunkWith
<1>17. v = w \o ChunkOf(d)
  BY <1>2, <1>5, Zenon
<1> QED
  BY <1>16, <1>17, Zenon
----------------------------------------------------------------------------
\* Behind the head of w are chunks, and their data are b.
Reading(w, b) ==
  /\ w \in Seq(Cells) /\ b \in Seq(Cells)
  /\ \E B : Cut(w, B)
  /\ Parsing(w)[HeadLen + 1] = b

\* Nothing is read from the head alone.
LEMMA HeadReads ==
  ASSUME HeadLen \in Nat, NEW w \in Seq(Cells), Len(w) = HeadLen
  PROVE  Reading(w, <<>>)
<1>1. Cut(w, {HeadLen + 1})
  BY DEF Cut
<1>2. HeadLen + 1 \in 1 .. Len(w) + 1
  OBVIOUS
<1>3. Parsing(w)[HeadLen + 1] = ReadAt(w, Parsing(w), HeadLen + 1)
  BY <1>2, ParsedAt, Zenon
<1>4. ReadAt(w, Parsing(w), HeadLen + 1) = <<>>
  BY DEF ReadAt
<1>5. <<>> \in Seq(Cells)
  OBVIOUS
<1> QED
  BY <1>1, <1>3, <1>4, <1>5, Zenon DEF Reading

\* A place where what comes behind w is read.
LEMMA CutHasEnds ==
  ASSUME HeadLen \in Nat, NEW w \in Seq(Cells), NEW B, Cut(w, B)
  PROVE  /\ Len(w) \in Nat /\ Len(w) >= HeadLen /\ HeadLen + 1 \in B /\ Len(w) + 1 \in B
         /\ B \subseteq HeadLen + 1 .. Len(w) + 1
<1>1. Len(w) \in Nat
  BY LenProperties
<1> QED
  BY <1>1 DEF Cut

\* With a chunk behind w there is another place.
LEMMA CutGrows ==
  ASSUME HeadLen \in Nat, NEW w \in Seq(Cells), NEW c \in Seq(Cells), NEW B, Cut(w, B),
         ChunkAt(w \o c, Len(w) + 1, Len(w \o c) + 1), Len(c) >= 1
  PROVE  Cut(w \o c, B \cup {Len(w \o c) + 1})
<1>1. PICK v \in Seq(Cells) : Joins(v, w, c)
  BY CellsBehind
<1>2. /\ Len(w) \in Nat /\ Len(w) >= HeadLen /\ HeadLen + 1 \in B /\ Len(w) + 1 \in B
      /\ B \subseteq HeadLen + 1 .. Len(w) + 1
  BY CutHasEnds
<1>3. v = w \o c /\ Len(v) = Len(w) + Len(c) /\ Len(c) \in Nat
  BY <1>1, LenProperties DEF Joins
<1> DEFINE last == Len(v) + 1
           G == B \cup {last}
<1>4. G \subseteq HeadLen + 1 .. last /\ HeadLen + 1 \in G /\ last \in G
  <2>1. ASSUME NEW p \in B
        PROVE  p \in HeadLen + 1 .. last
    BY <1>2, <1>3
  <2>2. last \in HeadLen + 1 .. last
    BY <1>2, <1>3
  <2> HIDE DEF last
  <2> QED
    BY <1>2, <2>1, <2>2
<1>5. ASSUME NEW p \in G, p # last
      PROVE  \E q \in G : ChunkAt(v, p, q)
  <2>1. p \in B
    BY <1>5
  <2>2. CASE p = Len(w) + 1
    <3>1. ChunkAt(v, p, last)
      BY <1>3, <2>2, Zenon
    <3> QED
      BY <3>1
  <2>3. CASE p # Len(w) + 1
    <3>1. PICK q \in B : ChunkAt(w, p, q)
      BY <2>1, <2>3 DEF Cut
    <3>2. p \in 1 .. Len(w)
      BY <1>2, <2>1, <2>3
    <3>3. ChunkAt(w \o c, p, q)
      BY <3>1, <3>2, ChunkStays
    <3>4. ChunkAt(v, p, q)
      BY <1>3, <3>3, Zenon
    <3> QED
      BY <3>1, <3>4
  <2> QED
    BY <2>2, <2>3
<1>6. Cut(v, G)
  BY <1>4, <1>5, Zenon DEF Cut
<1> QED
  BY <1>3, <1>6, Zenon

\* With a chunk more its data are read as well.
LEMMA ChunkReads ==
  ASSUME HeadLen \in Nat, NEW w, NEW b, Reading(w, b), NEW d \in Seq(Cells), Len(d) >= 1
  PROVE  Reading(w \o ChunkOf(d), b \o d)
<1>1. w \in Seq(Cells) /\ b \in Seq(Cells) /\ Parsing(w)[HeadLen + 1] = b
  BY DEF Reading
<1>2. PICK B : Cut(w, B)
  BY DEF Reading
<1>3. PICK c \in Seq(Cells) : c = ChunkOf(d)
  BY ChunkIs
<1>4. Len(c) = Len(d) + 8
  BY <1>3, ChunkIs
<1>5. PICK v \in Seq(Cells) : Joins(v, w, c)
  BY <1>1, CellsBehind
<1>6. /\ Len(w) \in Nat /\ Len(w) >= HeadLen /\ HeadLen + 1 \in B /\ Len(w) + 1 \in B
  BY <1>1, <1>2, CutHasEnds
<1>7. v = w \o c /\ Len(v) = Len(w) + Len(d) + 8 /\ Len(d) \in Nat
  <2>1. v = w \o c /\ Len(v) = Len(w) + Len(c)
    BY <1>5 DEF Joins
  <2>2. Len(d) \in Nat
    BY LenProperties
  <2> QED
    BY <1>4, <1>6, <2>1, <2>2
<1> DEFINE here == Len(w) + 1
           behind == Len(w) + Len(d) + 9
<1>8. ChunkAt(v, here, behind) /\ SubSeq(v, here + HeaderCells, behind - 3) = d
  <2>1. ChunkWith(w \o ChunkOf(d), here, behind, d)
    BY <1>1, ChunkBehind, Zenon
  <2> HIDE DEF here, behind
  <2> QED
    BY <1>3, <1>7, <2>1, Zenon DEF ChunkWith
<1>9. here \in 1 .. Len(v) /\ here \in 1 .. Len(v) + 1 /\ behind = Len(v) + 1 /\ behind \in 1 .. Len(v) + 1
  BY <1>6, <1>7
<1> DEFINE g == Parsing(v)
<1> HIDE DEF here, behind
<1>10. DataReadAt(v, v, g, here, behind)
  BY <1>8, <1>9, DataAreRead, Zenon
<1>11. g[here] = ReadAt(v, g, here) /\ g[behind] = ReadAt(v, g, behind)
  BY <1>9, ParsedAt, Zenon
<1>12. ReadAt(v, g, behind) = <<>>
  <2>1. behind > Len(v)
    BY <1>9, LenProperties
  <2> QED
    BY <2>1 DEF ReadAt
<1> HIDE DEF g
<1>13. g[here] = d
  <2>1. g[here] = d \o <<>>
    BY <1>8, <1>10, <1>11, <1>12, Zenon DEF DataReadAt
  <2>2. d \o <<>> = d
    BY ConcatEmptySeq
  <2> QED
    BY <2>1, <2>2
<1>14. g[HeadLen + 1] = b \o d
  <2>1. Parsing(w \o c)[Len(w) + 1] = d
    BY <1>7, <1>13, Zenon DEF g, here
  <2>2. Parsing(w \o c)[HeadLen + 1] = Parsing(w)[HeadLen + 1] \o Parsing(w \o c)[Len(w) + 1]
    BY <1>1, <1>2, <1>6, <2>1, ReadOn
  <2> QED
    BY <1>1, <1>7, <2>1, <2>2, Zenon DEF g
<1>15. Cut(w \o c, B \cup {Len(w \o c) + 1})
  <2>1. ChunkAt(w \o c, Len(w) + 1, Len(w \o c) + 1)
    BY <1>7, <1>8, <1>9, Zenon DEF here
  <2>2. Len(c) >= 1
    BY <1>4, <1>7
  <2> QED
    BY <1>1, <1>2, <2>1, <2>2, CutGrows
<1>16. b \o d \in Seq(Cells)
  BY <1>1, ConcatProperties, Zenon
<1>17. Reading(v, b \o d)
  <2>1. \E G : Cut(v, G)
    BY <1>7, <1>15, Zenon
  <2> QED
    BY <1>14, <1>16, <2>1, Zenon DEF Reading, g
<1> QED
  BY <1>3, <1>7, <1>17, Zenon

\* The terminator: a zero, and two line ends.
LEMMA TerminatorIs == \E t \in Seq(Cells) : t = Marks(Terminator) /\ Len(t) = 5 /\ t[1].type = "0"
<1>1. Mark("0") \in Cells /\ Mark("nl") \in Cells /\ Mark("0").type = "0"
  <2>1. "0" \in CellTypes /\ "nl" \in CellTypes
    BY DEF CellTypes
  <2>2. Mark("0").type = "0"
    BY DEF Mark
  <2> QED
    BY <2>1, <2>2, MarkType, Zenon
<1>2. Marks(Terminator) = <<Mark("0"), Mark("nl"), Mark("nl"), Mark("nl"), Mark("nl")>>
  BY DEF Marks, Terminator
<1>3. ASSUME NEW a \in Cells, NEW b \in Cells
      PROVE  <<a, b, b, b, b>> \in Seq(Cells) /\ Len(<<a, b, b, b, b>>) = 5 /\ <<a, b, b, b, b>>[1] = a
  OBVIOUS
<1>4. <<Mark("0"), Mark("nl"), Mark("nl"), Mark("nl"), Mark("nl")>> \in Seq(Cells)
  BY <1>1, <1>3, Zenon
<1>5. Len(Marks(Terminator)) = 5 /\ Marks(Terminator)[1] = Mark("0")
  BY <1>2
<1> QED
  BY <1>1, <1>2, <1>4, <1>5, Zenon

\* The terminator marks the end.
LEMMA EndReads ==
  ASSUME HeadLen \in Nat, NEW w, NEW b, Reading(w, b)
  PROVE  Parsing(w \o Marks(Terminator))[HeadLen + 1] = Append(b, Mark("end"))
<1>1. w \in Seq(Cells) /\ b \in Seq(Cells) /\ Parsing(w)[HeadLen + 1] = b
  BY DEF Reading
<1>2. PICK B : Cut(w, B)
  BY DEF Reading
<1>3. PICK t \in Seq(Cells) : t = Marks(Terminator) /\ Len(t) = 5 /\ t[1].type = "0"
  BY TerminatorIs
<1>4. PICK v \in Seq(Cells) : Joins(v, w, t)
  BY <1>1, CellsBehind
<1>5. Len(w) \in Nat /\ HeadLen + 1 \in B
  BY <1>1, <1>2, CutHasEnds
<1> DEFINE here == Len(w) + 1
           end == <<Mark("end")>>
<1>6. v = w \o t /\ Len(v) = Len(w) + 5 /\ v[here] = t[1]
  BY <1>3, <1>4, <1>5 DEF Joins
<1>7. Parsing(v)[here] = end
  <2>1. here \in 1 .. Len(v) + 1 /\ ~ (here > Len(v)) /\ here + 4 = Len(v)
    BY <1>5, <1>6
  <2>2. v[here].type = "0"
    BY <1>3, <1>6
  <2>3. Parsing(v)[here] = ReadAt(v, Parsing(v), here)
    BY <2>1, ParsedAt, Zenon
  <2> HIDE DEF here
  <2>4. ReadAt(v, Parsing(v), here) = end
    BY <2>1, <2>2, Zenon DEF ReadAt
  <2> QED
    BY <2>3, <2>4
<1>8. Mark("end") \in Cells
  <2>1. "end" \in CellTypes
    BY DEF CellTypes
  <2> QED
    BY <2>1, MarkType, Zenon
<1>9. end \in Seq(Cells)
  BY <1>8
<1>10. Parsing(v)[HeadLen + 1] = b \o end
  <2> HIDE DEF end
  <2>1. Parsing(w \o t)[Len(w) + 1] = end
    BY <1>6, <1>7, Zenon DEF here
  <2>2. Parsing(w \o t)[HeadLen + 1] = Parsing(w)[HeadLen + 1] \o Parsing(w \o t)[Len(w) + 1]
    BY <1>1, <1>2, <1>5, <1>9, <2>1, ReadOn
  <2> QED
    BY <1>1, <1>6, <2>1, <2>2, Zenon
<1>11. b \o end = Append(b, Mark("end"))
  <2>1. PICK a \in Seq(Cells) : a = b
    BY <1>1
  <2>2. PICK e \in Cells : e = Mark("end")
    BY <1>8
  <2>3. a \o <<e>> = Append(a, e)
    OBVIOUS
  <2> QED
    BY <2>1, <2>2, <2>3, Zenon
<1> QED
  BY <1>3, <1>6, <1>10, <1>11, Zenon
----------------------------------------------------------------------------
\* The buffer.

\* What is in the buffer when a chunk with the data d is open behind base.
OpenChunk(base, d) == (base \o Header(0)) \o d

\* Five sequences joined.
JoinsFive(w, b, h, d, t) == w \o ((b \o h) \o (d \o t)) = (w \o b) \o ((h \o d) \o t)

\* They are, in either way.
LEMMA FiveJoined ==
  ASSUME NEW w \in Seq(Cells), NEW b \in Seq(Cells), NEW h \in Seq(Cells), NEW d \in Seq(Cells),
         NEW t \in Seq(Cells)
  PROVE  JoinsFive(w, b, h, d, t)
<1>1. PICK e \in Seq(Cells) : e = d \o t
  BY CellsBehind DEF Joins
<1>2. PICK f \in Seq(Cells) : f = h \o e
  BY CellsBehind DEF Joins
<1>3. Associates(b, h, e) /\ Associates(h, d, t) /\ Associates(w, b, f)
  BY CellsJoined, Zenon
<1>4. (b \o h) \o e = b \o f
  BY <1>2, <1>3, Zenon DEF Associates
<1>5. f = (h \o d) \o t
  BY <1>1, <1>2, <1>3, Zenon DEF Associates
<1>6. w \o (b \o f) = (w \o b) \o f
  BY <1>3, Zenon DEF Associates
<1> QED
  BY <1>1, <1>4, <1>5, <1>6, Zenon DEF JoinsFive

\* A chunk that is finished gets its length and a line end.
LEMMA FinishedIs ==
  ASSUME BuffLen \in Nat, NEW base \in Seq(Cells), NEW d \in Seq(Cells),
         chunkHdr = Len(base), NEW b, b = OpenChunk(base, d), Len(b) + 2 <= BuffLen
  PROVE  Finished(b) = (base \o Header(Len(d))) \o (d \o Marks(CrLf))
<1>1. PICK t \in Seq(Cells) : t = Marks(CrLf) /\ Len(t) = 2
  BY CrLfIs
<1>2. PICK h \in Seq(Cells) : h = Header(0) /\ Len(h) = 6
  <2>1. 0 \in Int
    OBVIOUS
  <2> QED
    BY <2>1, HeaderIs, Zenon
<1>3. PICK x \in Seq(Cells) : Joins(x, base, h)
  BY CellsBehind
<1>4. PICK e \in Seq(Cells) : Joins(e, d, t)
  BY CellsBehind
<1>5. PICK z \in Seq(Cells) : Joins(z, x, e)
  BY CellsBehind
<1>6. Len(base) \in Nat /\ Len(d) \in Nat
  BY LenProperties
<1>7. Len(x) = Len(base) + 6 /\ Len(e) = Len(d) + 2 /\ Len(z) = Len(base) + Len(d) + 8
  <2>1. Len(x) = Len(base) + Len(h) /\ Len(e) = Len(d) + Len(t) /\ Len(z) = Len(x) + Len(e)
    BY <1>3, <1>4, <1>5, Zenon DEF Joins
  <2> QED
    BY <1>1, <1>2, <1>6, <2>1
<1>8. z = b \o t
  <2>1. z = x \o (d \o t) /\ b = x \o d
    BY <1>2, <1>3, <1>4, <1>5, Zenon DEF Joins, OpenChunk
  <2>2. Associates(x, d, t)
    BY CellsJoined, Zenon
  <2> QED
    BY <2>1, <2>2, Zenon DEF Associates
<1>9. SubSeq(z, 1, chunkHdr) = base
  <2>1. \A i \in 1 .. Len(base) : z[0 + i] = base[i]
    <3> TAKE i \in 1 .. Len(base)
    <3>1. i \in 1 .. Len(x) /\ 0 + i = i
      BY <1>6, <1>7
    <3>2. z[i] = x[i] /\ x[i] = base[i]
      BY <1>3, <1>5, <3>1 DEF Joins
    <3> QED
      BY <3>1, <3>2
  <2>2. 0 + Len(base) <= Len(z)
    BY <1>6, <1>7
  <2>3. SubSeq(z, 0 + 1, 0 + Len(base)) = base
    BY <2>1, <2>2, PartIs
  <2>4. 0 + 1 = 1 /\ 0 + Len(base) = chunkHdr
    BY <1>6
  <2> QED
    BY <2>3, <2>4
<1>10. SubSeq(z, chunkHdr + HeaderCells + 1, Len(z)) = e
  <2>1. Len(x) \in Nat /\ Len(x) + Len(e) <= Len(z)
    BY <1>6, <1>7
  <2>2. \A i \in 1 .. Len(e) : z[Len(x) + i] = e[i]
    BY <1>5, Zenon DEF Joins
  <2>3. SubSeq(z, Len(x) + 1, Len(x) + Len(e)) = e
    BY <2>1, <2>2, PartIs
  <2>4. Len(x) + 1 = chunkHdr + HeaderCells + 1 /\ Len(x) + Len(e) = Len(z)
    BY <1>6, <1>7 DEF HeaderCells
  <2> QED
    BY <2>3, <2>4
<1>11. Len(z) - chunkHdr - 8 = Len(d)
  BY <1>6, <1>7
<1>12. Finished(b) = SubSeq(z, 1, chunkHdr) \o Header(Len(z) - chunkHdr - 8)
                       \o SubSeq(z, chunkHdr + HeaderCells + 1, Len(z))
  BY <1>1, <1>8, Zenon DEF Finished
<1>13. e = d \o Marks(CrLf)
  BY <1>1, <1>4, Zenon DEF Joins
<1> QED
  BY <1>9, <1>10, <1>11, <1>12, <1>13, Zenon

\* Finished and flushed behind w, it is a chunk there.
GoesOut(w, base, d, b) == w \o Finished(b) = (w \o base) \o ChunkOf(d)

\* Every open chunk does.
LEMMA FinishedIsChunk ==
  ASSUME BuffLen \in Nat, NEW w \in Seq(Cells), NEW base \in Seq(Cells), NEW d \in Seq(Cells),
         chunkHdr = Len(base), NEW b, b = OpenChunk(base, d), Len(b) + 2 <= BuffLen
  PROVE  GoesOut(w, base, d, b)
<1>1. PICK t \in Seq(Cells) : t = Marks(CrLf)
  BY CrLfIs
<1>2. Len(d) \in Int
  BY LenProperties
<1>3. PICK h \in Seq(Cells) : h = Header(Len(d))
  BY <1>2, HeaderIs
<1>4. Finished(b) = (base \o h) \o (d \o t)
  BY <1>1, <1>3, FinishedIs
<1>5. ChunkOf(d) = (h \o d) \o t
  BY <1>1, <1>3, Zenon DEF ChunkOf
<1>6. JoinsFive(w, base, h, d, t)
  BY FiveJoined, Zenon
<1> QED
  BY <1>4, <1>5, <1>6, Zenon DEF JoinsFive, GoesOut
----------------------------------------------------------------------------
\* The inductive invariant: behind the head the wire is nothing but chunks, with what was accepted
\* but for the data of the open chunk.
BufferInv ==
  \E base \in Seq(Cells) :
    \/ chunkHdr = -1 /\ sendBuff = base /\ Reading(wire \o base, accepted)
    \/ \E d \in Seq(Cells), before \in Seq(Cells) :
         /\ chunkHdr = Len(base) /\ sendBuff = OpenChunk(base, d) /\ Len(d) >= 1
         /\ accepted = before \o d /\ Reading(wire \o base, before)

\* What the client has read in each state of the connection.
ToldInv ==
  /\ cgi = "none" => wire = <<>> /\ accepted = <<>>
  /\ cgi = "running" => BufferInv
  /\ cgi = "waiting" => Reading(wire, accepted)
  /\ cgi = "done" => Parsed = Append(accepted, Mark("end"))

\* Between two calls nothing is in the buffer.
IdleInv == cgi # "running" => chunkHdr = -1 /\ sendBuff = <<>>

\* All that goes over the wire is cells.
CellsInv == wire \in Seq(Cells) /\ accepted \in Seq(Cells) /\ sendBuff \in Seq(Cells)

\* Together; a response that found the buffer too tight promises nothing more.
ChunkInv == ChunkTypeOK /\ CellsInv /\ IdleInv /\ (tight \/ ToldInv)

\* A call begins behind what was read, with the head or with nothing in the buffer.
LEMMA CallKeepsInv ==
  ASSUME ChunkInv, ChunkCall
  PROVE  ChunkInv'
<1>1. /\ cgi \in {"none", "waiting"} /\ calls < MaxCalls /\ calls' = calls + 1
      /\ cgi' = "running" /\ sendingBody' = TRUE
      /\ chunkHdr' = chunkHdr /\ accepted' = accepted /\ wire' = wire /\ tight' = tight
  BY DEF ChunkCall
<1> DEFINE head == [k \in 1 .. HeadLen |-> Mark("head")]
<1>2. head \in Seq(Cells) /\ Len(head) = HeadLen
  <2>1. "head" \in CellTypes
    BY DEF CellTypes
  <2>2. Mark("head") \in Cells
    BY <2>1, MarkType, Zenon
  <2> HIDE DEF Cells
  <2> QED
    BY <2>2, ChunkAssumption
<1>3. sendBuff' = IF cgi = "none" THEN head ELSE <<>>
  BY DEF ChunkCall
<1> HIDE DEF head
<1>4. wire \in Seq(Cells) /\ accepted \in Seq(Cells) /\ <<>> \in Seq(Cells)
  BY DEF ChunkInv, CellsInv
<1>5. sendBuff' \in Seq(Cells) /\ Len(sendBuff') <= BuffLen
  BY <1>2, <1>3, <1>4, ChunkAssumption
<1>6. CellsInv'
  BY <1>1, <1>4, <1>5 DEF CellsInv
<1>7. ASSUME ~tight
      PROVE  ToldInv'
  <2>1. ToldInv
    BY <1>7 DEF ChunkInv
  <2>2. chunkHdr' = -1
    BY <1>1 DEF ChunkInv, IdleInv
  <2>3. Reading(wire \o sendBuff', accepted)
    <3>1. CASE cgi = "none"
      <4>1. wire = <<>> /\ accepted = <<>> /\ sendBuff' = head
        BY <1>3, <2>1, <3>1 DEF ToldInv
      <4>2. <<>> \o head = head
        BY <1>2, ConcatEmptySeq
      <4>3. Reading(head, <<>>)
        BY <1>2, ChunkAssumption, HeadReads
      <4> QED
        BY <4>1, <4>2, <4>3, Zenon
    <3>2. CASE cgi = "waiting"
      <4>1. Reading(wire, accepted) /\ sendBuff' = <<>>
        BY <1>3, <2>1, <3>2 DEF ToldInv
      <4>2. wire \o <<>> = wire
        BY <1>4, ConcatEmptySeq
      <4> QED
        BY <4>1, <4>2, Zenon
    <3> QED
      BY <1>1, <3>1, <3>2
  <2>4. BufferInv'
    <3>1. PICK base \in Seq(Cells) : base = sendBuff'
      BY <1>5
    <3>2. Reading(wire' \o base, accepted')
      BY <1>1, <2>3, <3>1, Zenon
    <3>3. chunkHdr' = -1 /\ sendBuff' = base /\ Reading(wire' \o base, accepted')
      BY <2>2, <3>1, <3>2
    <3> QED
      BY <3>3, Zenon DEF BufferInv, Reading, Cut
  <2> QED
    BY <1>1, <2>4 DEF ToldInv
<1>8. ChunkTypeOK'
  <2>1. chunkHdr' = -1 /\ Len(sendBuff') \in Nat
    BY <1>1, <1>5, LenProperties DEF ChunkInv, IdleInv
  <2> QED
    BY <1>1, <1>5, <2>1, ChunkAssumption DEF ChunkInv, ChunkTypeOK
<1> QED
  BY <1>1, <1>6, <1>7, <1>8 DEF ChunkInv, IdleInv

\* A piece of the body is so many cells.
LEMMA PieceType ==
  ASSUME accepted \in Seq(Cells), NEW n \in Nat
  PROVE  BodyBytes(n) \in Seq(Cells) /\ Len(BodyBytes(n)) = n
<1>1. Len(accepted) \in Nat
  BY LenProperties
<1>2. \A k \in 1 .. n : Cell(Len(accepted) + k) \in Cells
  BY <1>1 DEF Cell, Cells, CellTypes
<1> HIDE DEF Cells
<1> QED
  BY <1>2 DEF BodyBytes

\* A piece opens a chunk, goes into the open one, or is refused.
LEMMA SendKeepsInv ==
  ASSUME ChunkInv, NEW n \in 1 .. MaxPiece, Send(n)
  PROVE  ChunkInv'
<1>1. /\ cgi = "running" /\ cgi' = cgi /\ sendingBody' = sendingBody /\ wire' = wire
      /\ calls' = calls /\ tight' = tight
  BY DEF Send
<1>2. n \in Nat /\ n >= 1
  BY ChunkAssumption
<1>3. wire \in Seq(Cells) /\ accepted \in Seq(Cells) /\ sendBuff \in Seq(Cells)
  BY DEF ChunkInv, CellsInv
<1>4. PICK d \in Seq(Cells) : d = BodyBytes(n) /\ Len(d) = n
  BY <1>2, <1>3, PieceType
<1>5. PICK h \in Seq(Cells) : h = Header(0) /\ Len(h) = 6
  <2>1. 0 \in Int
    OBVIOUS
  <2> QED
    BY <2>1, HeaderIs, Zenon
<1>6. Len(sendBuff) \in Nat /\ Len(sendBuff) <= BuffLen /\ BuffLen \in Nat /\ chunkHdr \in Int
  BY <1>3, LenProperties, ChunkAssumption DEF ChunkInv, ChunkTypeOK
<1>7. CASE chunkHdr = -1
  <2>1. Len(sendBuff) + n + 6 <= BuffLen
    BY <1>7 DEF Send, Opens, HeaderCells
  <2>2. PICK o \in Seq(Cells) : Joins(o, sendBuff, h)
    BY <1>3, CellsBehind
  <2>3. PICK s \in Seq(Cells) : Joins(s, o, d)
    BY CellsBehind
  <2>4. PICK a \in Seq(Cells) : Joins(a, accepted, d)
    BY <1>3, CellsBehind
  <2>5. Len(o) = Len(sendBuff) + 6 /\ Len(s) = Len(sendBuff) + 6 + n
    <3>1. Len(o) = Len(sendBuff) + Len(h) /\ Len(s) = Len(o) + Len(d)
      BY <2>2, <2>3, Zenon DEF Joins
    <3> QED
      BY <1>4, <1>5, <1>6, <3>1
  <2>6. o = sendBuff \o Header(0) /\ s = o \o BodyBytes(n) /\ a = accepted \o BodyBytes(n)
    BY <1>4, <1>5, <2>2, <2>3, <2>4, Zenon DEF Joins
  <2>7. chunkHdr' = Len(sendBuff) /\ sendBuff' = s /\ accepted' = a
    <3>1. Len(o) + n <= BuffLen
      BY <1>2, <1>6, <2>1, <2>5
    <3> QED
      BY <1>7, <2>6, <3>1, Zenon DEF Send
  <2>8. ASSUME ~tight
        PROVE  BufferInv'
    <3>1. PICK base \in Seq(Cells) :
            chunkHdr = -1 /\ sendBuff = base /\ Reading(wire \o base, accepted)
      <4>1. BufferInv
        BY <1>1, <2>8 DEF ChunkInv, ToldInv
      <4>2. \A base \in Seq(Cells) : chunkHdr # Len(base)
        BY <1>7, LenProperties
      <4> QED
        BY <4>1, <4>2, Zenon DEF BufferInv
    <3>2. /\ chunkHdr' = Len(base) /\ sendBuff' = OpenChunk(base, d) /\ Len(d) >= 1
          /\ accepted' = accepted \o d /\ Reading(wire' \o base, accepted)
      <4>1. sendBuff' = OpenChunk(base, d) /\ accepted' = accepted \o d
        BY <1>4, <2>6, <2>7, <3>1, Zenon DEF OpenChunk
      <4>2. Reading(wire' \o base, accepted)
        BY <1>1, <3>1, Zenon
      <4> QED
        BY <1>2, <1>4, <2>7, <3>1, <4>1, <4>2
    <3>3. PICK before \in Seq(Cells) : before = accepted
      BY <1>3
    <3>4. /\ chunkHdr' = Len(base) /\ sendBuff' = OpenChunk(base, d) /\ Len(d) >= 1
          /\ accepted' = before \o d /\ Reading(wire' \o base, before)
      BY <3>2, <3>3, Zenon
    <3> QED
      BY <3>4, Zenon DEF BufferInv, Reading, Cut, OpenChunk
  <2>9. /\ sendBuff' \in Seq(Cells) /\ accepted' \in Seq(Cells) /\ Len(sendBuff') <= BuffLen
        /\ chunkHdr' \in -1 .. Len(sendBuff')
    BY <1>2, <1>6, <2>1, <2>5, <2>7
  <2> QED
    BY <1>1, <1>3, <2>8, <2>9 DEF ChunkInv, ChunkTypeOK, CellsInv, IdleInv, ToldInv
<1>8. CASE chunkHdr # -1 /\ Len(sendBuff) + n <= BuffLen
  <2>1. PICK s \in Seq(Cells) : Joins(s, sendBuff, d)
    BY <1>3, CellsBehind
  <2>2. PICK a \in Seq(Cells) : Joins(a, accepted, d)
    BY <1>3, CellsBehind
  <2>3. Len(s) = Len(sendBuff) + n
    BY <1>4, <2>1, Zenon DEF Joins
  <2>4. chunkHdr' = chunkHdr /\ sendBuff' = sendBuff \o d /\ accepted' = accepted \o d
    BY <1>4, <1>8, Zenon DEF Send
  <2>5. sendBuff' = s /\ accepted' = a
    BY <2>1, <2>2, <2>4, Zenon DEF Joins
  <2>6. ASSUME ~tight
        PROVE  BufferInv'
    <3>1. PICK base \in Seq(Cells), e \in Seq(Cells), before \in Seq(Cells) :
            /\ chunkHdr = Len(base) /\ sendBuff = OpenChunk(base, e) /\ Len(e) >= 1
            /\ accepted = before \o e /\ Reading(wire \o base, before)
      <4>1. BufferInv
        BY <1>1, <2>6 DEF ChunkInv, ToldInv
      <4> QED
        BY <1>8, <4>1, Zenon DEF BufferInv
    <3>2. PICK f \in Seq(Cells) : Joins(f, e, d)
      BY CellsBehind
    <3>3. PICK x \in Seq(Cells) : Joins(x, base, h)
      BY CellsBehind
    <3>4. Associates(x, e, d) /\ Associates(before, e, d)
      BY CellsJoined, Zenon
    <3>5. sendBuff' = OpenChunk(base, f)
      <4>1. sendBuff = x \o e /\ f = e \o d /\ OpenChunk(base, f) = x \o f
        BY <1>5, <3>1, <3>2, <3>3, Zenon DEF OpenChunk, Joins
      <4> QED
        BY <2>4, <3>4, <4>1, Zenon DEF Associates
    <3>6. accepted' = before \o f
      <4>1. f = e \o d
        BY <3>2, Zenon DEF Joins
      <4> QED
        BY <2>4, <3>1, <3>4, <4>1, Zenon DEF Associates
    <3>7. Len(f) >= 1
      <4>1. Len(f) = Len(e) + Len(d)
        BY <3>2, Zenon DEF Joins
      <4>2. Len(e) \in Nat /\ Len(d) \in Nat
        BY LenProperties
      <4> QED
        BY <3>1, <4>1, <4>2
    <3>8. chunkHdr' = Len(base) /\ Reading(wire' \o base, before)
      BY <1>1, <2>4, <3>1, Zenon
    <3> QED
      BY <3>5, <3>6, <3>7, <3>8, Zenon DEF BufferInv, Reading, Cut, OpenChunk
  <2>7. /\ sendBuff' \in Seq(Cells) /\ accepted' \in Seq(Cells) /\ Len(sendBuff') <= BuffLen
        /\ chunkHdr' \in -1 .. Len(sendBuff')
    <3>1. chunkHdr \in -1 .. Len(sendBuff)
      BY DEF ChunkInv, ChunkTypeOK
    <3> QED
      BY <1>2, <1>6, <1>8, <2>3, <2>4, <2>5, <3>1
  <2> QED
    BY <1>1, <1>3, <2>6, <2>7 DEF ChunkInv, ChunkTypeOK, CellsInv, IdleInv, ToldInv
<1>9. CASE chunkHdr # -1 /\ ~ (Len(sendBuff) + n <= BuffLen)
  <2>1. chunkHdr' = chunkHdr /\ sendBuff' = sendBuff /\ accepted' = accepted
    BY <1>9, Zenon DEF Send
  <2>2. ASSUME ~tight
        PROVE  BufferInv'
    <3>1. BufferInv
      BY <1>1, <2>2 DEF ChunkInv, ToldInv
    <3> QED
      BY <1>1, <2>1, <3>1, Zenon DEF BufferInv, Reading, Cut, OpenChunk
  <2> QED
    BY <1>1, <1>3, <2>1, <2>2 DEF ChunkInv, ChunkTypeOK, CellsInv, IdleInv, ToldInv
<1> QED
  BY <1>7, <1>8, <1>9

\* A part of a sequence of cells.
LEMMA PartType ==
  ASSUME NEW v \in Seq(Cells), NEW m \in Int, NEW n \in Int, m >= 1, n <= Len(v)
  PROVE  SubSeq(v, m, n) \in Seq(Cells)
<1>1. Len(v) \in Nat
  BY LenProperties
<1>2. \A i \in m .. n : v[i] \in Cells
  <2>1. \A i \in m .. n : i \in 1 .. Len(v)
    BY <1>1
  <2> QED
    BY <2>1, ElementOfSeq
<1> QED
  BY <1>2, SubSeqProperties

\* What is flushed, in any state.
LEMMA FinishedType ==
  ASSUME sendBuff \in Seq(Cells), chunkHdr \in 0 .. Len(sendBuff)
  PROVE  Finished(sendBuff) \in Seq(Cells)
<1>1. PICK t \in Seq(Cells) : t = Marks(CrLf)
  BY CrLfIs
<1> DEFINE full == IF Len(sendBuff) + 2 <= BuffLen THEN sendBuff \o Marks(CrLf) ELSE sendBuff
<1>2. full \in Seq(Cells) /\ Len(full) >= Len(sendBuff)
  <2>1. PICK v \in Seq(Cells) : Joins(v, sendBuff, t)
    BY CellsBehind
  <2>2. v = sendBuff \o Marks(CrLf) /\ Len(v) >= Len(sendBuff)
    <3>1. v = sendBuff \o t /\ Len(v) = Len(sendBuff) + Len(t)
      BY <2>1, Zenon DEF Joins
    <3>2. Len(sendBuff) \in Nat /\ Len(t) \in Nat
      BY LenProperties
    <3> QED
      BY <1>1, <3>1, <3>2
  <2>3. Len(sendBuff) >= Len(sendBuff)
    BY LenProperties
  <2> QED
    BY <2>2, <2>3
<1>3. PICK f \in Seq(Cells) : f = full /\ Len(f) >= Len(sendBuff)
  BY <1>2
<1> HIDE DEF full
<1>4. Len(sendBuff) \in Nat /\ Len(f) \in Nat /\ chunkHdr \in Int /\ chunkHdr <= Len(sendBuff)
      /\ chunkHdr >= 0
  BY LenProperties
<1>5. PICK a \in Seq(Cells) : a = SubSeq(f, 1, chunkHdr)
  <2>1. 1 \in Int /\ 1 >= 1 /\ chunkHdr \in Int /\ chunkHdr <= Len(f)
    BY <1>3, <1>4
  <2>2. SubSeq(f, 1, chunkHdr) \in Seq(Cells)
    BY <2>1, PartType, Zenon
  <2> QED
    BY <2>2
<1>6. PICK c \in Seq(Cells) : c = SubSeq(f, chunkHdr + HeaderCells + 1, Len(f))
  <2>1. chunkHdr + HeaderCells + 1 \in Int /\ chunkHdr + HeaderCells + 1 >= 1 /\ Len(f) \in Int /\ Len(f) <= Len(f)
    BY <1>4 DEF HeaderCells
  <2> QED
    BY <2>1, PartType
<1>7. PICK h \in Seq(Cells) : h = Header(Len(f) - chunkHdr - 8)
  <2>1. Len(f) - chunkHdr - 8 \in Int
    BY <1>4
  <2> QED
    BY <2>1, HeaderIs
<1>8. Finished(sendBuff) = a \o h \o c
  BY <1>3, <1>5, <1>6, <1>7, Zenon DEF Finished, full
<1>9. a \o h \in Seq(Cells)
  BY ConcatProperties, Zenon
<1>10. (a \o h) \o c \in Seq(Cells)
  BY <1>9, ConcatProperties, Zenon
<1> QED
  BY <1>8, <1>10, Zenon

\* What the buffer holds when it is flushed.
FlushedChunk == IF chunkHdr = -1 THEN sendBuff ELSE Finished(sendBuff)

\* It is a sequence of cells.
LEMMA FlushedType ==
  ASSUME ChunkInv
  PROVE  FlushedChunk \in Seq(Cells)
<1>1. sendBuff \in Seq(Cells) /\ chunkHdr \in -1 .. Len(sendBuff)
  BY DEF ChunkInv, CellsInv, ChunkTypeOK
<1>2. Len(sendBuff) \in Nat
  BY <1>1, LenProperties
<1>3. CASE chunkHdr = -1
  BY <1>1, <1>3 DEF FlushedChunk
<1>4. CASE chunkHdr # -1
  <2>1. chunkHdr \in 0 .. Len(sendBuff)
    BY <1>1, <1>2, <1>4
  <2> QED
    BY <1>1, <1>4, <2>1, FinishedType DEF FlushedChunk
<1> QED
  BY <1>3, <1>4

\* If there is room, what was accepted is read from the wire and what is flushed.
LEMMA FlushReads ==
  ASSUME ChunkInv, BufferInv, chunkHdr = -1 \/ Len(sendBuff) + 2 <= BuffLen
  PROVE  Reading(wire \o FlushedChunk, accepted)
<1>1. wire \in Seq(Cells) /\ sendBuff \in Seq(Cells) /\ BuffLen \in Nat /\ HeadLen \in Nat
  BY ChunkAssumption DEF ChunkInv, CellsInv
<1>2. PICK base \in Seq(Cells) :
        \/ chunkHdr = -1 /\ sendBuff = base /\ Reading(wire \o base, accepted)
        \/ \E d \in Seq(Cells), before \in Seq(Cells) :
             /\ chunkHdr = Len(base) /\ sendBuff = OpenChunk(base, d) /\ Len(d) >= 1
             /\ accepted = before \o d /\ Reading(wire \o base, before)
  BY Zenon DEF BufferInv
<1>3. CASE chunkHdr = -1 /\ sendBuff = base /\ Reading(wire \o base, accepted)
  BY <1>3, Zenon DEF FlushedChunk
<1>4. ASSUME NEW d \in Seq(Cells), NEW before \in Seq(Cells),
             chunkHdr = Len(base), sendBuff = OpenChunk(base, d), Len(d) >= 1,
             accepted = before \o d, Reading(wire \o base, before)
      PROVE  Reading(wire \o FlushedChunk, accepted)
  <2>1. chunkHdr # -1
    BY <1>4, LenProperties
  <2>2. Len(sendBuff) + 2 <= BuffLen
    BY <2>1
  <2>3. GoesOut(wire, base, d, sendBuff)
    BY <1>1, <1>4, <2>2, FinishedIsChunk, Zenon
  <2>4. Reading((wire \o base) \o ChunkOf(d), before \o d)
    BY <1>1, <1>4, ChunkReads, Zenon
  <2>5. FlushedChunk = Finished(sendBuff)
    BY <2>1 DEF FlushedChunk
  <2> QED
    BY <1>4, <2>3, <2>4, <2>5, Zenon DEF GoesOut
<1> QED
  BY <1>2, <1>3, <1>4, Zenon

\* When there is more to come, the client has read what was accepted.
LEMMA ReturnMoreKeepsInv ==
  ASSUME ChunkInv, ReturnMore
  PROVE  ChunkInv'
<1>1. /\ cgi = "running" /\ cgi' = "waiting" /\ sendingBody' = sendingBody
      /\ accepted' = accepted /\ calls' = calls /\ chunkHdr' = -1 /\ sendBuff' = <<>>
      /\ wire' = wire \o FlushedChunk
  BY DEF ReturnMore, Flush, FlushedChunk
<1>2. tight' = (tight \/ Len(FlushedChunk) > BuffLen \/ (chunkHdr # -1 /\ Len(sendBuff) + 2 > BuffLen))
  BY Zenon DEF ReturnMore, Flush, FlushedChunk
<1>3. wire \in Seq(Cells) /\ accepted \in Seq(Cells) /\ sendBuff \in Seq(Cells) /\ <<>> \in Seq(Cells)
  BY DEF ChunkInv, CellsInv
<1>4. wire' \in Seq(Cells)
  BY <1>1, <1>3, FlushedType, ConcatProperties, Zenon
<1>5. tight' \in BOOLEAN
  BY <1>2, Zenon
<1>6. ASSUME ~tight'
      PROVE  ToldInv'
  <2>1. ~tight /\ ~ (chunkHdr # -1 /\ Len(sendBuff) + 2 > BuffLen)
    BY <1>2, <1>6, Zenon
  <2>2. chunkHdr = -1 \/ Len(sendBuff) + 2 <= BuffLen
    BY <1>3, <2>1, LenProperties, ChunkAssumption
  <2>3. BufferInv
    BY <1>1, <2>1 DEF ChunkInv, ToldInv
  <2>4. Reading(wire \o FlushedChunk, accepted)
    BY <2>2, <2>3, FlushReads, Zenon
  <2>5. Reading(wire', accepted')
    BY <1>1, <2>4, Zenon
  <2>6. Reading(wire, accepted)'
    BY <2>5 DEF Reading, Cut
  <2> QED
    BY <1>1, <2>6 DEF ToldInv
<1>7. ChunkTypeOK' /\ CellsInv' /\ IdleInv'
  <2>1. Len(<<>>) = 0 /\ BuffLen \in Nat
    BY ChunkAssumption
  <2> QED
    BY <1>1, <1>3, <1>4, <1>5, <2>1 DEF ChunkInv, ChunkTypeOK, CellsInv, IdleInv
<1> QED
  BY <1>6, <1>7 DEF ChunkInv

\* When the function is done, the client has read that, too.
LEMMA ReturnDoneKeepsInv ==
  ASSUME ChunkInv, ReturnDone
  PROVE  ChunkInv'
<1>1. /\ cgi = "running" /\ cgi' = "done" /\ sendingBody' = FALSE
      /\ accepted' = accepted /\ calls' = calls /\ chunkHdr' = -1 /\ sendBuff' = <<>>
      /\ wire' = wire \o (FlushedChunk \o Marks(Terminator))
  BY DEF ReturnDone, Flush, FlushedChunk
<1>2. tight' = (tight \/ Len(FlushedChunk \o Marks(Terminator)) > BuffLen
                  \/ (chunkHdr # -1 /\ Len(sendBuff) + 2 > BuffLen))
  BY Zenon DEF ReturnDone, Flush, FlushedChunk
<1>3. wire \in Seq(Cells) /\ accepted \in Seq(Cells) /\ sendBuff \in Seq(Cells) /\ <<>> \in Seq(Cells)
  BY DEF ChunkInv, CellsInv
<1>4. PICK t \in Seq(Cells) : t = Marks(Terminator)
  BY TerminatorIs
<1>5. PICK c \in Seq(Cells) : c = FlushedChunk
  BY FlushedType
<1>6. Associates(wire, c, t)
  BY <1>3, CellsJoined, Zenon
<1>7. wire' = (wire \o FlushedChunk) \o Marks(Terminator)
  BY <1>1, <1>4, <1>5, <1>6, Zenon DEF Associates
<1>8. wire' \in Seq(Cells)
  <2>1. c \o t \in Seq(Cells)
    BY ConcatProperties, Zenon
  <2>2. wire \o (c \o t) \in Seq(Cells)
    BY <1>3, <2>1, ConcatProperties, Zenon
  <2> QED
    BY <1>1, <1>4, <1>5, <2>2, Zenon
<1>9. tight' \in BOOLEAN
  BY <1>2, Zenon
<1>10. ASSUME ~tight'
       PROVE  ToldInv'
  <2>1. ~tight /\ ~ (chunkHdr # -1 /\ Len(sendBuff) + 2 > BuffLen)
    BY <1>2, <1>10, Zenon
  <2>2. chunkHdr = -1 \/ Len(sendBuff) + 2 <= BuffLen
    BY <1>3, <2>1, LenProperties, ChunkAssumption
  <2>3. BufferInv
    BY <1>1, <2>1 DEF ChunkInv, ToldInv
  <2>4. Reading(wire \o FlushedChunk, accepted)
    BY <2>2, <2>3, FlushReads, Zenon
  <2>5. Parsing((wire \o FlushedChunk) \o Marks(Terminator))[HeadLen + 1] = Append(accepted, Mark("end"))
    BY <2>4, ChunkAssumption, EndReads, Zenon
  <2>6. Parsing(wire')[HeadLen + 1] = Append(accepted', Mark("end"))
    BY <1>1, <1>7, <2>5, Zenon
  <2>7. (Parsed = Append(accepted, Mark("end")))'
    BY <2>6 DEF Parsed
  <2> QED
    BY <1>1, <2>7 DEF ToldInv
<1>11. ChunkTypeOK' /\ CellsInv' /\ IdleInv'
  <2>1. Len(<<>>) = 0 /\ BuffLen \in Nat
    BY ChunkAssumption
  <2>2. CellsInv' /\ IdleInv'
    BY <1>1, <1>3, <1>8 DEF CellsInv, IdleInv
  <2>3. calls' \in 0 .. MaxCalls
    BY <1>1 DEF ChunkInv, ChunkTypeOK
  <2>4. Len(sendBuff') <= BuffLen /\ chunkHdr' \in -1 .. Len(sendBuff')
    BY <1>1, <2>1
  <2>5. cgi' \in {"none", "running", "waiting", "done"} /\ sendingBody' \in BOOLEAN
    BY <1>1
  <2> QED
    BY <1>9, <2>2, <2>3, <2>4, <2>5, Zenon DEF ChunkTypeOK
<1> QED
  BY <1>10, <1>11 DEF ChunkInv

\* Before the first call.
LEMMA ChunkInitEstablishesInv == ChunkInit => ChunkInv
<1>1. ASSUME ChunkInit
      PROVE  ChunkInv
  <2>1. <<>> \in Seq(Cells) /\ Len(<<>>) = 0
    OBVIOUS
  <2>2. CellsInv /\ IdleInv /\ ToldInv
    BY <1>1, <2>1 DEF ChunkInit, CellsInv, IdleInv, ToldInv
  <2>3. Len(sendBuff) = 0 /\ BuffLen \in Nat /\ MaxCalls \in Nat
    BY <1>1, <2>1, ChunkAssumption DEF ChunkInit
  <2>4. ChunkTypeOK
    <3>1. Len(sendBuff) <= BuffLen /\ chunkHdr \in -1 .. Len(sendBuff) /\ calls \in 0 .. MaxCalls
      BY <1>1, <2>3 DEF ChunkInit
    <3>2. cgi \in {"none", "running", "waiting", "done"} /\ sendingBody \in BOOLEAN /\ tight \in BOOLEAN
      BY <1>1 DEF ChunkInit
    <3> QED
      BY <3>1, <3>2, Zenon DEF ChunkTypeOK
  <2> QED
    BY <2>2, <2>4 DEF ChunkInv
<1> QED
  BY <1>1

\* Every step.
LEMMA ChunkNextKeepsInv == ChunkInv /\ [ChunkNext]_chunkVars => ChunkInv'
<1>1. ASSUME ChunkInv, ChunkNext
      PROVE  ChunkInv'
  BY <1>1, CallKeepsInv, SendKeepsInv, ReturnMoreKeepsInv, ReturnDoneKeepsInv DEF ChunkNext
<1>2. ASSUME ChunkInv, UNCHANGED chunkVars
      PROVE  ChunkInv'
  BY <1>2 DEF ChunkInv, ChunkTypeOK, CellsInv, IdleInv, ToldInv, BufferInv, Reading, Cut,
              OpenChunk, Parsed, chunkVars
<1> QED
  BY <1>1, <1>2

\* As long as every flush finds room, a client decodes what httpdSend accepted, for every length of
\* the buffer, of the head and of the pieces, and however many calls there are.
THEOREM ChunkFrames == ChunkSpec => []FramingIsRight
<1>1. ChunkInv => FramingIsRight
  <2> SUFFICES ASSUME ChunkInv, ~tight, wire # <<>>, cgi # "running"
               PROVE  Parsed = IF cgi = "done" THEN Append(accepted, Mark("end")) ELSE accepted
    BY DEF FramingIsRight
  <2>1. ToldInv /\ cgi \in {"none", "running", "waiting", "done"}
    BY DEF ChunkInv, ChunkTypeOK
  <2>2. CASE cgi = "waiting"
    <3>1. Parsed = accepted
      BY <2>1, <2>2 DEF ToldInv, Reading, Parsed
    <3> QED
      BY <2>2, <3>1
  <2>3. CASE cgi = "done"
    BY <2>1, <2>3 DEF ToldInv
  <2> QED
    BY <2>1, <2>2, <2>3 DEF ToldInv
<1> QED
  BY <1>1, ChunkInitEstablishesInv, ChunkNextKeepsInv, PTL DEF ChunkSpec

\* The types of the send buffer's state: it never holds more than it has room for.
THEOREM ChunkTypes == ChunkSpec => []ChunkTypeOK
<1>1. ChunkInv => ChunkTypeOK
  BY DEF ChunkInv
<1> QED
  BY <1>1, ChunkInitEstablishesInv, ChunkNextKeepsInv, PTL DEF ChunkSpec

----------------------------------------------------------------------------
(***************************************************************************)
(* The list of open websockets, for every set of connections. The links    *)
(* go from each open websocket to the one that was opened next, as many    *)
(* steps as there are sockets reach the end of the list, and a walk of n   *)
(* steps has seen the first n + 1 of them.                                 *)
(***************************************************************************)

\* What the list should be, and the first m of it.
Chain == Append(alive, "null")
FirstOf(m) == [k \in 1 .. m |-> Chain[k]]

\* The inductive invariant.
ListInv ==
  /\ alive \in Seq(Sockets)
  /\ \A k, m \in 1 .. Len(alive) : alive[k] = alive[m] => k = m
  /\ next \in [Sockets -> Sockets \cup {"null", "freed"}]
  /\ llStart = Chain[1]
  /\ \A k \in 1 .. Len(alive) : next[alive[k]] = Chain[k + 1]
  /\ \A s \in Sockets : (next[s] = "freed") = (\A k \in 1 .. Len(alive) : alive[k] # s)

\* The members of the chain.
LEMMA ChainMembers ==
  ASSUME alive \in Seq(Sockets)
  PROVE  /\ Len(alive) \in Nat /\ Len(Chain) = Len(alive) + 1
         /\ Chain \in Seq(Sockets \cup {"null"})
         /\ \A k \in 1 .. Len(alive) : Chain[k] = alive[k] /\ alive[k] \in Sockets
         /\ Chain[Len(alive) + 1] = "null"
<1>1. alive \in Seq(Sockets \cup {"null"})
  OBVIOUS
<1>2. Len(alive) \in Nat
  BY LenProperties
<1>3. "null" \in Sockets \cup {"null"}
  OBVIOUS
<1>4. /\ Chain \in Seq(Sockets \cup {"null"}) /\ Len(Chain) = Len(alive) + 1
      /\ \A k \in 1 .. Len(alive) : Chain[k] = alive[k]
      /\ Chain[Len(alive) + 1] = "null"
  BY <1>1, <1>3, AppendProperties DEF Chain
<1>5. \A k \in 1 .. Len(alive) : alive[k] \in Sockets
  BY ElementOfSeq
<1> QED
  BY <1>2, <1>4, <1>5

\* No more websockets are open than there are.
LEMMA AliveFew ==
  ASSUME ListInv
  PROVE  Cardinality(Sockets) \in Nat /\ Len(alive) <= Cardinality(Sockets)
<1>1. Len(alive) \in Nat /\ \A k \in 1 .. Len(alive) : alive[k] \in Sockets
  BY ChainMembers DEF ListInv
<1>2. IsFiniteSet(1 .. Len(alive)) /\ Cardinality(1 .. Len(alive)) = Len(alive)
  <2>1. 1 \in Int /\ Len(alive) \in Int
    BY <1>1
  <2>2. IF 1 > Len(alive) THEN Cardinality(1 .. Len(alive)) = 0
        ELSE Cardinality(1 .. Len(alive)) = Len(alive) - 1 + 1
    BY <2>1, FS_Interval
  <2> QED
    BY <1>1, <2>1, <2>2, FS_Interval
<1>3. IsFiniteSet(Sockets) /\ Cardinality(Sockets) \in Nat
  BY SocketsAssumption, FS_CardinalityType
<1>4. ~ (Cardinality(Sockets) < Len(alive))
  <2> SUFFICES ASSUME Cardinality(Sockets) < Cardinality(1 .. Len(alive)) PROVE FALSE
    BY <1>2
  <2> DEFINE f == [k \in 1 .. Len(alive) |-> alive[k]]
  <2>1. f \in [1 .. Len(alive) -> Sockets]
    BY <1>1
  <2>2. \E k, m \in 1 .. Len(alive) : k # m /\ f[k] = f[m]
    <3> HIDE DEF f
    <3> QED
      BY <1>2, <1>3, <2>1, FS_PigeonHole
  <2> QED
    BY <2>2 DEF ListInv
<1> QED
  BY <1>1, <1>3, <1>4

\* One step more sees one member more.
LEMMA FirstGrows ==
  ASSUME alive \in Seq(Sockets), NEW m \in 1 .. Len(alive)
  PROVE  Append(FirstOf(m), Chain[m + 1]) = FirstOf(m + 1)
<1>1. Len(alive) \in Nat /\ Len(Chain) = Len(alive) + 1 /\ Chain \in Seq(Sockets \cup {"null"})
  BY ChainMembers
<1>2. \A k \in 1 .. m + 1 : Chain[k] \in Sockets \cup {"null"}
  BY <1>1, ElementOfSeq
<1>3. FirstOf(m) \in Seq(Sockets \cup {"null"}) /\ Len(FirstOf(m)) = m
  BY <1>2 DEF FirstOf
<1>4. FirstOf(m + 1) \in Seq(Sockets \cup {"null"}) /\ Len(FirstOf(m + 1)) = m + 1
  BY <1>2 DEF FirstOf
<1>5. \A k \in 1 .. m : FirstOf(m)[k] = FirstOf(m + 1)[k]
  BY DEF FirstOf
<1>6. FirstOf(m + 1)[m + 1] = Chain[m + 1]
  BY DEF FirstOf
<1>7. Append(FirstOf(m), Chain[m + 1]) \in Seq(Sockets \cup {"null"})
      /\ Len(Append(FirstOf(m), Chain[m + 1])) = m + 1
      /\ \A k \in 1 .. m : Append(FirstOf(m), Chain[m + 1])[k] = FirstOf(m)[k]
      /\ Append(FirstOf(m), Chain[m + 1])[m + 1] = Chain[m + 1]
  BY <1>2, <1>3, AppendProperties
<1> HIDE DEF FirstOf
<1> QED
  BY <1>4, <1>5, <1>6, <1>7, SeqEqual

\* What a walk has seen after n steps, if f says what it has seen after each number of steps.
WalkAt(f, n) ==
  IF n = 0 THEN <<llStart>>
  ELSE IF Last(f[n - 1]) \in {"null", "freed"} THEN f[n - 1]
  ELSE Append(f[n - 1], next[Last(f[n - 1])])

\* f says it for every number of steps.
IsWalk(f) == f = [n \in 0 .. Cardinality(Sockets) |-> WalkAt(f, n)]

\* After n steps the first n + 1 of the chain, or all of it.
Seen(n) == FirstOf(IF n > Len(alive) THEN Len(alive) + 1 ELSE n + 1)

\* The members seen follow from those seen a step before.
LEMMA SeenIsWalk ==
  ASSUME ListInv, NEW f, NEW n \in Nat, n > 0 => f[n - 1] = Seen(n - 1)
  PROVE  WalkAt(f, n) = Seen(n)
<1>1. /\ Len(alive) \in Nat /\ Len(Chain) = Len(alive) + 1
      /\ \A k \in 1 .. Len(alive) : Chain[k] = alive[k] /\ alive[k] \in Sockets
      /\ Chain[Len(alive) + 1] = "null"
  BY ChainMembers DEF ListInv
<1>2. ASSUME NEW m \in 1 .. Len(alive) + 1
      PROVE  Last(FirstOf(m)) = Chain[m]
  <2>1. Len(FirstOf(m)) = m
    BY DEF FirstOf
  <2>2. FirstOf(m)[m] = Chain[m]
    BY DEF FirstOf
  <2> QED
    BY <2>1, <2>2, Zenon DEF Last
<1>3. CASE n = 0
  <2>1. Seen(n) = FirstOf(1)
    BY <1>1, <1>3 DEF Seen
  <2>2. FirstOf(1) = <<llStart>>
    BY DEF FirstOf, ListInv
  <2> QED
    BY <1>3, <2>1, <2>2, Zenon DEF WalkAt
<1>4. CASE n > 0 /\ n <= Len(alive)
  <2>1. n \in 1 .. Len(alive) /\ n # 0
    BY <1>1, <1>4
  <2>2. Seen(n) = FirstOf(n + 1) /\ Seen(n - 1) = FirstOf(n)
    BY <1>1, <1>4 DEF Seen
  <2>3. Last(f[n - 1]) = alive[n]
    BY <1>1, <1>2, <1>4, <2>1, <2>2
  <2>4. Last(f[n - 1]) \notin {"null", "freed"} /\ next[Last(f[n - 1])] = Chain[n + 1]
    BY <1>1, <2>1, <2>3, SocketsAssumption DEF ListInv
  <2>5. Append(f[n - 1], next[Last(f[n - 1])]) = Seen(n)
    BY <1>4, <2>1, <2>2, <2>4, FirstGrows DEF ListInv
  <2> QED
    BY <2>1, <2>4, <2>5, Zenon DEF WalkAt
<1>5. CASE n > Len(alive)
  <2>1. n # 0 /\ Seen(n) = FirstOf(Len(alive) + 1) /\ Seen(n - 1) = FirstOf(Len(alive) + 1)
    BY <1>1, <1>5 DEF Seen
  <2>2. Last(f[n - 1]) = "null" /\ f[n - 1] = Seen(n)
    BY <1>1, <1>2, <1>5, <2>1
  <2> QED
    BY <2>1, <2>2, Zenon DEF WalkAt
<1> QED
  BY <1>1, <1>3, <1>4, <1>5

\* The walk sees the chain.
LEMMA ListIs ==
  ASSUME ListInv
  PROVE  List = Chain
<1> DEFINE N == Cardinality(Sockets)
           g == [n \in 0 .. N |-> Seen(n)]
<1>1. N \in Nat /\ Len(alive) <= N /\ Len(alive) \in Nat
  BY AliveFew, ChainMembers DEF ListInv
<1>2. PICK f : f = CHOOSE h : IsWalk(h)
  OBVIOUS
<1>9. List = f[N]
  BY <1>2, Zenon DEF List, IsWalk, WalkAt
<1>3. IsWalk(g)
  <2>1. ASSUME NEW n \in 0 .. N PROVE g[n] = WalkAt(g, n)
    <3>1. n > 0 => g[n - 1] = Seen(n - 1)
      BY <1>1
    <3>2. g[n] = Seen(n) /\ n \in Nat
      BY <1>1
    <3> HIDE DEF g
    <3> QED
      BY <3>1, <3>2, SeenIsWalk
  <2>2. g = [n \in 0 .. N |-> g[n]]
    OBVIOUS
  <2> HIDE DEF g
  <2>3. g = [n \in 0 .. N |-> WalkAt(g, n)]
    BY <2>1, <2>2
  <2> QED
    BY <2>3 DEF IsWalk
<1>4. IsWalk(f)
  <2>1. \E h : IsWalk(h)
    BY <1>3
  <2> HIDE DEF g
  <2> QED
    BY <1>2, <2>1, Zenon
<1> HIDE DEF g
<1>5. ASSUME NEW n \in 0 .. N PROVE f[n] = WalkAt(f, n)
  BY <1>4, <1>5, Zenon DEF IsWalk
<1> DEFINE T == {k \in 1 .. N + 1 : f[k - 1] = Seen(k - 1)}
<1>6. 1 .. N + 1 \subseteq T
  <2>1. ASSUME NEW k \in 1 .. N + 1, k > 1 => f[k - 1 - 1] = Seen(k - 1 - 1)
        PROVE  f[k - 1] = Seen(k - 1)
    <3>1. k - 1 \in Nat /\ k - 1 \in 0 .. N /\ (k - 1 > 0 => k > 1)
      BY <1>1
    <3>2. WalkAt(f, k - 1) = Seen(k - 1)
      BY <2>1, <3>1, SeenIsWalk
    <3> QED
      BY <1>5, <3>1, <3>2
  <2>2. 1 \in 1 .. N + 1 /\ N + 1 \in Nat
    BY <1>1
  <2>3. 1 \in T
    BY <2>1, <2>2
  <2>4. \A k \in 1 .. N + 1 : k > 1 /\ k - 1 \in T => k \in T
    BY <2>1
  <2> HIDE DEF T
  <2> QED
    BY <2>2, <2>3, <2>4, UpTo
<1>7. f[N] = Seen(N)
  <2>1. \A k \in 1 .. N + 1 : f[k - 1] = Seen(k - 1)
    BY <1>6
  <2>2. PICK k \in 1 .. N + 1 : k - 1 = N
    <3> HIDE DEF N
    <3> QED
      BY <1>1
  <2>3. f[k - 1] = Seen(k - 1)
    BY <2>1
  <2> QED
    BY <2>2, <2>3, Zenon
<1>8. Seen(N) = Chain
  <2>1. Seen(N) = FirstOf(Len(alive) + 1)
    BY <1>1 DEF Seen
  <2>2. Chain \in Seq(Sockets \cup {"null"}) /\ Len(Chain) = Len(alive) + 1
    BY ChainMembers DEF ListInv
  <2> QED
    BY <2>1, <2>2 DEF FirstOf
<1> QED
  BY <1>7, <1>8, <1>9

\* What is left when a websocket is taken out.
LEMMA Removed ==
  ASSUME ListInv, NEW ws \in Sockets, NEW k \in 1 .. Len(alive), alive[k] = ws
  PROVE  /\ RemoveFirst(alive, ws) \in Seq(Sockets)
         /\ Len(RemoveFirst(alive, ws)) = Len(alive) - 1
         /\ \A m \in 1 .. Len(alive) - 1 :
              RemoveFirst(alive, ws)[m] = IF m < k THEN alive[m] ELSE alive[m + 1]
<1>1. Len(alive) \in Nat /\ alive \in Seq(Sockets)
  BY ChainMembers DEF ListInv
<1> DEFINE I == {m \in 1 .. Len(alive) : alive[m] = ws}
<1>2. I = {k}
  BY DEF ListInv
<1>3. Min(I) = k
  <2>1. \A x : x \in {k} /\ (\A y \in {k} : x <= y) <=> x = k
    BY <1>1
  <2>2. Min({k}) = CHOOSE x : x \in {k} /\ \A y \in {k} : x <= y
    BY Zenon DEF Min
  <2>3. Min({k}) = CHOOSE x : x = k
    BY <2>1, <2>2, Zenon
  <2> QED
    BY <1>2, <2>3
<1>4. SelectInSeq(alive, LAMBDA v : v = ws) = k
  <2>1. I # {}
    BY <1>2
  <2> HIDE DEF I
  <2>2. SelectInSeq(alive, LAMBDA v : v = ws) = IF I # {} THEN Min(I) ELSE 0
    BY Zenon DEF SelectInSeq, I
  <2> QED
    BY <1>3, <2>1, <2>2
<1>5. RemoveFirst(alive, ws) = SubSeq(alive, 1, k - 1) \o SubSeq(alive, k + 1, Len(alive))
  BY <1>4, Zenon DEF RemoveFirst, RemoveAt
<1>6. PICK a : a = SubSeq(alive, 1, k - 1)
  OBVIOUS
<1>7. PICK b : b = SubSeq(alive, k + 1, Len(alive))
  OBVIOUS
<1>13. /\ a \in Seq(Sockets) /\ Len(a) = k - 1
       /\ \A m \in 1 .. k - 1 : a[m] = alive[m]
  <2>1. \A m \in 1 .. k - 1 : alive[m] \in Sockets
    BY <1>1, ElementOfSeq
  <2>2. /\ SubSeq(alive, 1, k - 1) \in Seq(Sockets)
        /\ Len(SubSeq(alive, 1, k - 1)) = IF 1 <= k - 1 THEN k - 1 - 1 + 1 ELSE 0
        /\ \A m \in 1 .. k - 1 - 1 + 1 : SubSeq(alive, 1, k - 1)[m] = alive[1 + m - 1]
    <3>1. 1 \in Int /\ k - 1 \in Int
      BY <1>1
    <3> QED
      BY <2>1, <3>1, SubSeqProperties
  <2>3. \A m \in 1 .. k - 1 : m \in 1 .. k - 1 - 1 + 1 /\ 1 + m - 1 = m
    BY <1>1
  <2>4. (IF 1 <= k - 1 THEN k - 1 - 1 + 1 ELSE 0) = k - 1
    BY <1>1
  <2> QED
    BY <1>6, <2>2, <2>3, <2>4, Zenon
<1>14. /\ b \in Seq(Sockets) /\ Len(b) = Len(alive) - k
       /\ \A m \in 1 .. Len(alive) - k : b[m] = alive[k + m]
  <2>1. \A m \in k + 1 .. Len(alive) : alive[m] \in Sockets
    BY <1>1, ElementOfSeq
  <2>2. /\ SubSeq(alive, k + 1, Len(alive)) \in Seq(Sockets)
        /\ Len(SubSeq(alive, k + 1, Len(alive)))
             = IF k + 1 <= Len(alive) THEN Len(alive) - (k + 1) + 1 ELSE 0
        /\ \A m \in 1 .. Len(alive) - (k + 1) + 1 :
             SubSeq(alive, k + 1, Len(alive))[m] = alive[k + 1 + m - 1]
    <3>1. k + 1 \in Int /\ Len(alive) \in Int
      BY <1>1
    <3> QED
      BY <2>1, <3>1, SubSeqProperties
  <2>3. \A m \in 1 .. Len(alive) - k : m \in 1 .. Len(alive) - (k + 1) + 1 /\ k + 1 + m - 1 = k + m
    BY <1>1
  <2>4. (IF k + 1 <= Len(alive) THEN Len(alive) - (k + 1) + 1 ELSE 0) = Len(alive) - k
    BY <1>1
  <2> QED
    BY <1>7, <2>2, <2>3, <2>4, Zenon
<1>8. RemoveFirst(alive, ws) = a \o b
  BY <1>5, <1>6, <1>7, Zenon
<1>9. PICK c : c = a \o b
  OBVIOUS
<1>10. c \in Seq(Sockets) /\ Len(c) = Len(a) + Len(b)
       /\ \A m \in 1 .. Len(a) + Len(b) : c[m] = IF m <= Len(a) THEN a[m] ELSE b[m - Len(a)]
  BY <1>9, <1>13, <1>14, ConcatProperties
<1>11. Len(c) = Len(alive) - 1
  BY <1>1, <1>10, <1>13, <1>14
<1>12. ASSUME NEW m \in 1 .. Len(alive) - 1
       PROVE  c[m] = IF m < k THEN alive[m] ELSE alive[m + 1]
  <2>1. m \in 1 .. Len(a) + Len(b) /\ (m <= Len(a)) = (m < k)
    BY <1>1, <1>13, <1>14
  <2>2. CASE m < k
    BY <1>1, <1>10, <1>13, <2>1, <2>2
  <2>3. CASE m >= k
    <3>1. m - (k - 1) \in 1 .. Len(alive) - k /\ k + (m - (k - 1)) = m + 1
      BY <1>1, <2>3
    <3>2. c[m] = b[m - (k - 1)]
      BY <1>10, <1>13, <2>1, <2>3
    <3>3. b[m - (k - 1)] = alive[k + (m - (k - 1))]
      BY <1>14, <3>1
    <3> QED
      BY <2>3, <3>1, <3>2, <3>3
  <2> QED
    BY <2>2, <2>3
<1> QED
  BY <1>8, <1>9, <1>10, <1>11, <1>12, Zenon

\* Initially no websocket is open.
LEMMA InitListInv == ListInit => ListInv
<1> SUFFICES ASSUME ListInit PROVE ListInv
  OBVIOUS
<1>1. alive = <<>> /\ Len(alive) = 0 /\ alive \in Seq(Sockets) /\ Chain = <<"null">>
  BY DEF ListInit, Chain
<1>2. llStart = Chain[1] /\ next \in [Sockets -> Sockets \cup {"null", "freed"}]
  BY <1>1 DEF ListInit
<1>3. \A s \in Sockets : next[s] = "freed"
  BY DEF ListInit
<1>4. 1 .. Len(alive) = {}
  BY <1>1
<1> QED
  BY <1>1, <1>2, <1>3, <1>4 DEF ListInv

\* A new websocket is the last one.
LEMMA OpenKeepsListInv ==
  ASSUME ListInv, NEW ws \in Sockets, OpenWebsocket(ws)
  PROVE  ListInv'
<1> DEFINE n == Len(alive)
<1>1. /\ n \in Nat /\ Len(Chain) = n + 1 /\ alive \in Seq(Sockets)
      /\ \A k \in 1 .. n : Chain[k] = alive[k] /\ alive[k] \in Sockets
      /\ Chain[n + 1] = "null"
  BY ChainMembers DEF ListInv
<1>2. \A k \in 1 .. n : alive[k] # ws
  BY DEF ListInv, OpenWebsocket
<1>3. /\ alive' \in Seq(Sockets) /\ Len(alive') = n + 1
      /\ \A k \in 1 .. n : alive'[k] = alive[k]
      /\ alive'[n + 1] = ws
  BY <1>1, AppendProperties DEF OpenWebsocket
<1>4. /\ \A k \in 1 .. n + 1 : Chain'[k] = alive'[k]
      /\ Chain'[n + 2] = "null"
  <2>1. alive' \in Seq(Sockets \cup {"null"})
    BY <1>3
  <2> QED
    BY <1>3, <2>1, AppendProperties DEF Chain
<1>5. \A k, m \in 1 .. n + 1 : alive'[k] = alive'[m] => k = m
  BY <1>1, <1>2, <1>3 DEF ListInv
<1>6. /\ next' \in [Sockets -> Sockets \cup {"null", "freed"}]
      /\ llStart' = Chain'[1]
      /\ next'[ws] = "null"
      /\ \A k \in 1 .. n : next'[alive[k]] = Chain'[k + 1]
      /\ \A s \in Sockets : s # ws => (next'[s] = "freed") = (next[s] = "freed")
  <2>1. CASE llStart = "null"
    <3>1. n = 0
      <4>1. 1 \notin 1 .. n
        BY <1>1, <2>1, SocketsAssumption DEF ListInv
      <4> QED
        BY <1>1, <4>1
    <3>2. llStart' = ws /\ next' = [next EXCEPT ![ws] = "null"]
      BY <2>1 DEF OpenWebsocket
    <3> QED
      BY <1>3, <1>4, <3>1, <3>2 DEF ListInv
  <2>2. CASE llStart # "null"
    <3> DEFINE last == {s \in ToSet(List) \cap Sockets : next[s] = "null"}
    <3>1. n >= 1
      BY <1>1, <2>2 DEF ListInv
    <3>2. last = {alive[n]}
      <4>1. ASSUME NEW s \in ToSet(List) \cap Sockets, next[s] = "null"
            PROVE  s = alive[n]
        <5>1. PICK k \in 1 .. n + 1 : s = Chain[k]
          BY <1>1, <4>1, ListIs DEF ToSet
        <5>2. k \in 1 .. n /\ s = alive[k]
          BY <1>1, <4>1, <5>1, SocketsAssumption
        <5>3. Chain[k + 1] = "null"
          BY <4>1, <5>2 DEF ListInv
        <5>4. k + 1 \notin 1 .. n
          BY <1>1, <5>3, SocketsAssumption
        <5> QED
          BY <1>1, <5>2, <5>4
      <4>2. alive[n] \in ToSet(List) \cap Sockets /\ next[alive[n]] = "null"
        <5>1. n \in 1 .. n /\ n \in 1 .. n + 1
          BY <1>1, <3>1
        <5>2. alive[n] \in ToSet(List)
          BY <1>1, <5>1, ListIs DEF ToSet
        <5> QED
          BY <1>1, <5>1, <5>2 DEF ListInv
      <4> QED
        BY <4>1, <4>2
    <3> HIDE DEF last
    <3>3. llStart' = llStart
          /\ next' = [s \in Sockets |-> IF s \in last THEN ws ELSE IF s = ws THEN "null" ELSE next[s]]
      BY <2>2, Zenon DEF OpenWebsocket, last
    <3>4. next' = [s \in Sockets |-> IF s = alive[n] THEN ws ELSE IF s = ws THEN "null" ELSE next[s]]
      BY <3>2, <3>3
    <3>5. alive[n] # ws /\ alive[n] \in Sockets /\ n \in 1 .. n
      BY <1>1, <1>2, <3>1
    <3>6. next' \in [Sockets -> Sockets \cup {"null", "freed"}] /\ next'[ws] = "null"
      BY <3>4, <3>5 DEF ListInv
    <3>7. llStart' = Chain'[1]
      BY <1>1, <1>3, <1>4, <3>1, <3>3 DEF ListInv
    <3>8. ASSUME NEW k \in 1 .. n PROVE next'[alive[k]] = Chain'[k + 1]
      <4>1. alive[k] \in Sockets /\ alive[k] # ws
        BY <1>1, <1>2
      <4>2. CASE k = n
        BY <1>1, <1>3, <1>4, <3>4, <4>1, <4>2
      <4>3. CASE k # n
        <5>1. k + 1 \in 1 .. n /\ alive[k] # alive[n]
          BY <1>1, <3>5, <4>3 DEF ListInv
        <5>2. next'[alive[k]] = next[alive[k]]
          BY <3>4, <4>1, <5>1
        <5> QED
          BY <1>1, <1>3, <1>4, <5>1, <5>2 DEF ListInv
      <4> QED
        BY <4>2, <4>3
    <3>9. ASSUME NEW s \in Sockets, s # ws
          PROVE  (next'[s] = "freed") = (next[s] = "freed")
      BY <3>4, <3>5, <3>9, SocketsAssumption DEF ListInv
    <3> QED
      BY <3>3, <3>6, <3>7, <3>8, <3>9
  <2> QED
    BY <2>1, <2>2
<1>7. ASSUME NEW k \in 1 .. Len(alive') PROVE next'[alive'[k]] = Chain'[k + 1]
  BY <1>1, <1>3, <1>4, <1>6
<1>8. ASSUME NEW s \in Sockets
      PROVE  (next'[s] = "freed") = (\A k \in 1 .. Len(alive') : alive'[k] # s)
  <2>1. (\A k \in 1 .. Len(alive') : alive'[k] # s) <=> (s # ws /\ \A k \in 1 .. n : alive[k] # s)
    BY <1>1, <1>3
  <2>2. (next[s] = "freed") <=> (\A k \in 1 .. n : alive[k] # s)
    BY DEF ListInv
  <2> QED
    BY <1>6, <2>1, <2>2
<1> QED
  BY <1>3, <1>5, <1>6, <1>7, <1>8 DEF ListInv

\* A websocket that is freed is taken out, wherever it is.
LEMMA FreeKeepsListInv ==
  ASSUME ListInv, NEW ws \in Sockets, FreeWebsocket(ws)
  PROVE  ListInv'
<1> DEFINE n == Len(alive)
<1>1. /\ n \in Nat /\ Len(Chain) = n + 1 /\ alive \in Seq(Sockets)
      /\ \A k \in 1 .. n : Chain[k] = alive[k] /\ alive[k] \in Sockets
      /\ Chain[n + 1] = "null"
  BY ChainMembers DEF ListInv
<1>2. PICK k \in 1 .. n : alive[k] = ws
  BY DEF ListInv, FreeWebsocket
<1>3. /\ alive' \in Seq(Sockets) /\ Len(alive') = n - 1
      /\ \A m \in 1 .. n - 1 : alive'[m] = IF m < k THEN alive[m] ELSE alive[m + 1]
  BY <1>2, Removed DEF FreeWebsocket
<1>4. /\ \A m \in 1 .. n - 1 : Chain'[m] = alive'[m]
      /\ Chain'[n] = "null"
  <2>1. alive' \in Seq(Sockets \cup {"null"})
    BY <1>3
  <2>2. Len(alive') + 1 = n
    BY <1>1, <1>3
  <2> QED
    BY <1>3, <2>1, <2>2, AppendProperties DEF Chain
<1>5. \A m \in 1 .. n : m >= k => Chain'[m] = Chain[m + 1]
  BY <1>1, <1>3, <1>4
<1>6. \A m \in 1 .. n : m < k => Chain'[m] = Chain[m]
  BY <1>1, <1>3, <1>4
<1>7. \A m, l \in 1 .. n - 1 : alive'[m] = alive'[l] => m = l
  <2> SUFFICES ASSUME NEW m \in 1 .. n - 1, NEW l \in 1 .. n - 1, alive'[m] = alive'[l]
               PROVE  m = l
    OBVIOUS
  <2>1. m \in 1 .. n /\ m + 1 \in 1 .. n /\ l \in 1 .. n /\ l + 1 \in 1 .. n
    BY <1>1
  <2>2. alive'[m] = (IF m < k THEN alive[m] ELSE alive[m + 1])
        /\ alive'[l] = (IF l < k THEN alive[l] ELSE alive[l + 1])
    BY <1>3
  <2>3. \A x, y \in 1 .. n : alive[x] = alive[y] => x = y
    BY DEF ListInv
  <2>4. CASE m < k /\ l < k
    BY <2>1, <2>2, <2>3, <2>4
  <2>5. CASE m < k /\ ~ (l < k)
    <3>1. alive[m] = alive[l + 1]
      BY <2>2, <2>5
    <3>2. m = l + 1
      BY <2>1, <2>3, <3>1, Zenon
    <3> QED
      BY <2>5, <3>2
  <2>6. CASE ~ (m < k) /\ l < k
    <3>1. alive[m + 1] = alive[l]
      BY <2>2, <2>6
    <3>2. m + 1 = l
      BY <2>1, <2>3, <3>1, Zenon
    <3> QED
      BY <2>6, <3>2
  <2>7. CASE ~ (m < k) /\ ~ (l < k)
    <3>1. alive[m + 1] = alive[l + 1]
      BY <2>2, <2>7
    <3>2. m + 1 = l + 1
      BY <2>1, <2>3, <3>1, Zenon
    <3> QED
      BY <3>2
  <2> QED
    BY <2>4, <2>5, <2>6, <2>7
<1>8. next[ws] = Chain[k + 1] /\ next[ws] # ws
  <2>1. k + 1 \in 1 .. n => alive[k + 1] # alive[k]
    BY <1>1 DEF ListInv
  <2>2. k + 1 \in 1 .. n \/ k + 1 = n + 1
    BY <1>1
  <2>3. next[alive[k]] = Chain[k + 1]
    BY DEF ListInv
  <2>4. "null" # ws
    BY SocketsAssumption
  <2> QED
    BY <1>1, <1>2, <2>1, <2>2, <2>3, <2>4
<1>9. /\ llStart' = Chain'[1]
      /\ next' \in [Sockets -> Sockets \cup {"null", "freed"}]
      /\ next'[ws] = "freed"
      /\ \A m \in 1 .. n : m # k => next'[alive[m]] = IF m + 1 = k THEN Chain[k + 1] ELSE Chain[m + 1]
      /\ \A s \in Sockets : s # ws => (next'[s] = "freed") = (next[s] = "freed")
  <2>1. CASE llStart = ws
    <3>1. k = 1
      <4>1. 1 \in 1 .. n
        BY <1>1
      <4>2. alive[1] = alive[k]
        BY <1>1, <1>2, <2>1, <4>1 DEF ListInv
      <4> QED
        BY <4>1, <4>2 DEF ListInv
    <3>2. llStart' = next[ws] /\ next' = [next EXCEPT ![ws] = "freed"]
      BY <2>1 DEF FreeWebsocket, Unlinked
    <3>3. llStart' = Chain'[1]
      BY <1>1, <1>5, <1>8, <3>1, <3>2
    <3>4. ASSUME NEW m \in 1 .. n, m # k
          PROVE  next'[alive[m]] = IF m + 1 = k THEN Chain[k + 1] ELSE Chain[m + 1]
      <4>1. m + 1 # k /\ alive[m] # ws /\ alive[m] \in Sockets
        BY <1>1, <1>2, <3>1, <3>4 DEF ListInv
      <4>2. next'[alive[m]] = next[alive[m]]
        BY <3>2, <4>1 DEF ListInv
      <4> QED
        BY <4>1, <4>2 DEF ListInv
    <3> QED
      BY <3>2, <3>3, <3>4 DEF ListInv
  <2>2. CASE llStart # ws
    <3>1. k > 1
      BY <1>1, <1>2, <2>2 DEF ListInv
    <3> DEFINE linked == [s \in Sockets |-> IF s \in ToSet(List) /\ next[s] = ws THEN next[ws] ELSE next[s]]
    <3>2. llStart' = llStart /\ next' = [linked EXCEPT ![ws] = "freed"]
      BY <2>2 DEF FreeWebsocket, Unlinked
    <3>3. next[ws] \in Sockets \cup {"null"}
      <4>1. k + 1 \in 1 .. n \/ k + 1 = n + 1
        BY <1>1
      <4> QED
        BY <1>1, <1>8, <4>1
    <3>4. linked \in [Sockets -> Sockets \cup {"null", "freed"}]
      BY <3>3 DEF ListInv
    <3>5. \A s \in Sockets : s # ws => next'[s] = linked[s]
      <4> HIDE DEF linked
      <4> QED
        BY <3>2, <3>4
    <3>6. next' \in [Sockets -> Sockets \cup {"null", "freed"}] /\ next'[ws] = "freed"
      <4> HIDE DEF linked
      <4> QED
        BY <3>2, <3>4
    <3>7. llStart' = Chain'[1]
      <4>1. 1 \in 1 .. n
        BY <1>1
      <4> QED
        BY <1>6, <3>1, <3>2, <4>1 DEF ListInv
    <3>8. ASSUME NEW m \in 1 .. n, m # k
          PROVE  next'[alive[m]] = IF m + 1 = k THEN Chain[k + 1] ELSE Chain[m + 1]
      <4>1. alive[m] # ws /\ alive[m] \in Sockets /\ next[alive[m]] = Chain[m + 1]
        BY <1>1, <1>2, <3>8 DEF ListInv
      <4>2. alive[m] \in ToSet(List)
        <5>1. Len(List) = n + 1 /\ List[m] = alive[m] /\ m \in 1 .. n + 1
          BY <1>1, ListIs
        <5> QED
          BY <5>1 DEF ToSet
      <4>3. next'[alive[m]] = IF Chain[m + 1] = ws THEN Chain[k + 1] ELSE Chain[m + 1]
        BY <1>8, <3>5, <4>1, <4>2
      <4>4. (Chain[m + 1] = ws) <=> (m + 1 = k)
        <5>1. CASE m = n
          BY <1>1, <5>1, SocketsAssumption
        <5>2. CASE m # n
          <6>1. m + 1 \in 1 .. n
            BY <1>1, <5>2
          <6> QED
            BY <1>1, <1>2, <6>1 DEF ListInv
        <5> QED
          BY <5>1, <5>2
      <4> QED
        BY <4>3, <4>4
    <3>9. ASSUME NEW s \in Sockets, s # ws
          PROVE  (next'[s] = "freed") = (next[s] = "freed")
      <4>1. next'[s] = linked[s]
        BY <3>5, <3>9
      <4>2. ws # "freed" /\ next[ws] # "freed"
        BY SocketsAssumption DEF FreeWebsocket
      <4> QED
        BY <4>1, <4>2
    <3> QED
      BY <3>6, <3>7, <3>8, <3>9
  <2> QED
    BY <2>1, <2>2
<1>10. ASSUME NEW m \in 1 .. Len(alive') PROVE next'[alive'[m]] = Chain'[m + 1]
  <2>1. m \in 1 .. n /\ m \in 1 .. n - 1 /\ m + 1 \in 1 .. n
    BY <1>1, <1>3
  <2>2. CASE m < k
    <3>1. alive'[m] = alive[m] /\ m # k
      BY <1>3, <2>1, <2>2
    <3>2. CASE m + 1 = k
      <4>1. next'[alive[m]] = Chain[k + 1]
        BY <1>9, <2>1, <3>1, <3>2
      <4>2. Chain'[m + 1] = Chain[m + 1 + 1]
        BY <1>5, <2>1, <3>2
      <4> QED
        BY <3>1, <3>2, <4>1, <4>2
    <3>3. CASE m + 1 # k
      <4>1. next'[alive[m]] = Chain[m + 1]
        BY <1>9, <2>1, <3>1, <3>3
      <4>2. m + 1 < k
        BY <2>1, <2>2, <3>3
      <4>3. Chain'[m + 1] = Chain[m + 1]
        BY <1>6, <2>1, <4>2
      <4> QED
        BY <3>1, <4>1, <4>3
    <3> QED
      BY <3>2, <3>3
  <2>3. CASE m >= k
    <3>1. alive'[m] = alive[m + 1] /\ m + 1 # k /\ m + 1 + 1 # k /\ m + 1 >= k
      BY <1>3, <2>1, <2>3
    <3>2. next'[alive[m + 1]] = Chain[m + 1 + 1]
      BY <1>9, <2>1, <3>1
    <3>3. Chain'[m + 1] = Chain[m + 1 + 1]
      BY <1>5, <2>1, <3>1
    <3> QED
      BY <3>1, <3>2, <3>3
  <2> QED
    BY <2>1, <2>2, <2>3
<1>11. ASSUME NEW s \in Sockets
       PROVE  (next'[s] = "freed") = (\A m \in 1 .. Len(alive') : alive'[m] # s)
  <2>1. (\A m \in 1 .. n - 1 : alive'[m] # s) <=> (s = ws \/ \A m \in 1 .. n : alive[m] # s)
    <3>1. ASSUME NEW m \in 1 .. n - 1, alive'[m] = s
          PROVE  s # ws /\ \E l \in 1 .. n : alive[l] = s
      <4> DEFINE l == IF m < k THEN m ELSE m + 1
      <4>1. l \in 1 .. n /\ l # k /\ alive[l] = s
        BY <1>1, <1>3, <3>1
      <4> QED
        BY <1>2, <4>1 DEF ListInv
    <3>2. ASSUME s # ws, NEW m \in 1 .. n, alive[m] = s
          PROVE  \E l \in 1 .. n - 1 : alive'[l] = s
      <4>1. m # k
        BY <1>2, <3>2
      <4>2. CASE m < k
        <5>1. m \in 1 .. n - 1 /\ alive'[m] = s
          BY <1>1, <1>3, <3>2, <4>2
        <5> QED
          BY <5>1
      <4>3. CASE m > k
        <5>1. m - 1 \in 1 .. n - 1 /\ m - 1 >= k /\ m - 1 + 1 = m
          BY <1>1, <4>3
        <5>2. alive'[m - 1] = s
          BY <1>3, <3>2, <5>1
        <5> QED
          BY <5>1, <5>2
      <4> QED
        BY <4>1, <4>2, <4>3
    <3> QED
      BY <3>1, <3>2
  <2>2. (next[s] = "freed") <=> (\A m \in 1 .. n : alive[m] # s)
    BY DEF ListInv
  <2> QED
    BY <1>3, <1>9, <2>1, <2>2
<1> QED
  BY <1>3, <1>7, <1>9, <1>10, <1>11 DEF ListInv

\* The list is what it should be.
THEOREM WebsocketsListed == ListSpec => []ListIsRight
<1>1. ListInv /\ [ListNext]_listVars => ListInv'
  <2> SUFFICES ASSUME ListInv, [ListNext]_listVars PROVE ListInv'
    OBVIOUS
  <2>1. CASE ListNext
    BY <2>1, OpenKeepsListInv, FreeKeepsListInv DEF ListNext
  <2>2. CASE UNCHANGED listVars
    BY <2>2 DEF listVars, ListInv, Chain
  <2> QED
    BY <2>1, <2>2
<1>2. ListInv => ListIsRight
  BY ListIs DEF ListIsRight, Chain
<1> QED
  BY InitListInv, <1>1, <1>2, PTL DEF ListSpec

----------------------------------------------------------------------------
(***************************************************************************)
(* Websocket frames, for every sequence of frames and every cut of their   *)
(* bytes into segments. The invariant says where in which frame the        *)
(* function is, what it knows of the frame there, and that what came out   *)
(* is what the frames in front and the payload so far mean.                *)
(***************************************************************************)

USE DEF ST_FLAGS, ST_LEN0, ST_LEN1, ST_LEN2, ST_LEN8, ST_MASK1, ST_MASK4, ST_PAYLOAD

\* The bytes of a mask, of the head of a frame, and of the whole frame.
MaskBytes(f) == IF f.masked THEN 4 ELSE 0
HeadBytes(f) == 2 + f.ext + MaskBytes(f)
FrameBytes(f) == HeadBytes(f) + f.len

\* What the stream is made of, and what may come out.
FrameCells == [frame : 1 .. Len(frames), v : 0 .. 255]
Pieces == [type : {"data", "pong", "echo"}, frame : 1 .. Len(frames), v : 0 .. 255, mask : 0 .. 255]

\* The frames one by one: their bytes, what they mean, and how much of each lies in front of frame k.
AllEncoded == [k \in 1 .. Len(frames) |-> Encoded(k)]
AllMeant == [k \in 1 .. Len(frames) |-> Meaning(k)]
InFront(k) == Reach(AllEncoded, k - 1)
MeantInFront(k) == Reach(AllMeant, k - 1)

\* A frame's fields.
LEMMA FrameIs ==
  ASSUME NEW f \in Frames
  PROVE  /\ f.len \in 0 .. 255 /\ f.len \in 0 .. MaxPayload
         /\ f.ext \in {0, 2, 8} /\ f.op \in Opcodes /\ f.masked \in BOOLEAN
         /\ (f.ext = 0) = (f.len <= SmallLen)
         /\ f.op # "DATA" => f.masked
         /\ MaskBytes(f) \in {0, 4} /\ HeadBytes(f) \in 2 .. 14 /\ FrameBytes(f) \in 2 .. 269
<1>1. /\ f \in [op : Opcodes, masked : BOOLEAN, ext : {0, 2, 8}, len : 0 .. MaxPayload]
      /\ (f.ext = 0) = (f.len <= SmallLen)
      /\ f.op # "DATA" => f.masked
  BY DEF Frames
<1>2. f.len \in 0 .. MaxPayload /\ f.ext \in {0, 2, 8} /\ f.op \in Opcodes /\ f.masked \in BOOLEAN
  BY <1>1
<1>3. f.len \in 0 .. 255
  BY <1>2, SocketAssumption
<1>4. MaskBytes(f) \in {0, 4}
  BY <1>2 DEF MaskBytes
<1>5. HeadBytes(f) \in 2 .. 14
  BY <1>2, <1>4 DEF HeadBytes
<1>6. FrameBytes(f) \in 2 .. 269
  BY <1>3, <1>5 DEF FrameBytes
<1> QED
  BY <1>1, <1>2, <1>3, <1>4, <1>5, <1>6

\* A frame that was sent is one of them.
LEMMA FrameSent ==
  ASSUME frames \in Seq(Frames), NEW k \in 1 .. Len(frames)
  PROVE  frames[k] \in Frames
BY ElementOfSeq

\* c is a, of length m, and b, of length n, one behind the other.
IsJoin(c, a, m, b, n) ==
  /\ c = a \o b /\ Len(c) = m + n
  /\ \A j \in 1 .. m : c[j] = a[j]
  /\ \A j \in 1 .. n : c[m + j] = b[j]

\* There is such a sequence.
LEMMA JoinExists ==
  ASSUME NEW S, NEW a \in Seq(S), NEW b \in Seq(S), NEW m, NEW n, Len(a) = m, Len(b) = n
  PROVE  \E c \in Seq(S) : IsJoin(c, a, m, b, n)
<1>1. PICK c : c = a \o b
  OBVIOUS
<1>2. c \in Seq(S) /\ Len(c) = Len(a) + Len(b)
  BY <1>1, ConcatProperties
<1>3. (\A j \in 1 .. Len(a) : c[j] = a[j]) /\ \A j \in 1 .. Len(b) : c[Len(a) + j] = b[j]
  BY <1>1, ConcatMember
<1> QED
  BY <1>1, <1>2, <1>3, Zenon DEF IsJoin

\* The bytes of a frame, one by one.
LEMMA EncodedIs ==
  ASSUME frames \in Seq(Frames), NEW k \in 1 .. Len(frames)
  PROVE  /\ Encoded(k) \in Seq(FrameCells) /\ Len(Encoded(k)) = FrameBytes(frames[k])
         /\ \A n \in 1 .. FrameBytes(frames[k]) : Encoded(k)[n].frame = k
         /\ \A n \in 1 .. frames[k].ext :
              Encoded(k)[2 + n].v = IF n = frames[k].ext THEN frames[k].len ELSE 0
         /\ \A n \in 1 .. MaskBytes(frames[k]) : Encoded(k)[2 + frames[k].ext + n].v = n
         /\ \A n \in 1 .. frames[k].len : Encoded(k)[HeadBytes(frames[k]) + n].v = n
<1> DEFINE cell(v) == [frame |-> k, v |-> v]
<1>1. PICK e \in {0, 2, 8}, q \in {0, 4}, l \in 0 .. 255 :
        e = frames[k].ext /\ q = MaskBytes(frames[k]) /\ l = frames[k].len
  BY FrameSent, FrameIs
<1>2. HeadBytes(frames[k]) = 2 + e + q /\ FrameBytes(frames[k]) = 2 + e + q + l
  BY <1>1 DEF HeadBytes, FrameBytes
<1>3. \A v \in 0 .. 255 : cell(v) \in FrameCells
  BY DEF FrameCells
<1>4. \A v : cell(v).frame = k /\ cell(v).v = v
  OBVIOUS
<1> HIDE DEF cell
<1>5. PICK a : a = <<cell(0), cell(0)>>
  OBVIOUS
<1>6. PICK b : b = [n \in 1 .. e |-> cell(IF n = e THEN l ELSE 0)]
  OBVIOUS
<1>7. PICK c : c = [n \in 1 .. q |-> cell(n)]
  OBVIOUS
<1>8. PICK d : d = [n \in 1 .. l |-> cell(n)]
  OBVIOUS
<1>9. Encoded(k) = a \o b \o c \o d
  BY <1>1, <1>5, <1>6, <1>7, <1>8, Zenon DEF Encoded, MaskBytes, cell
<1>10. a \in Seq(FrameCells) /\ Len(a) = 2 /\ a[1] = cell(0) /\ a[2] = cell(0)
  BY <1>3, <1>5
<1>11. /\ b \in Seq(FrameCells) /\ Len(b) = e
       /\ \A n \in 1 .. e : b[n] = cell(IF n = e THEN l ELSE 0)
  <2>1. \A n \in 1 .. e : b[n] = cell(IF n = e THEN l ELSE 0)
    BY <1>6, Zenon
  <2>2. \A n \in 1 .. e : (IF n = e THEN l ELSE 0) \in 0 .. 255
    OBVIOUS
  <2>3. \A n \in 1 .. e : b[n] \in FrameCells
    BY <1>3, <2>1, <2>2, Zenon
  <2> QED
    BY <1>6, <2>1, <2>3
<1>12. /\ c \in Seq(FrameCells) /\ Len(c) = q
       /\ \A n \in 1 .. q : c[n] = cell(n)
  <2>1. \A n \in 1 .. q : c[n] = cell(n)
    BY <1>7, Zenon
  <2>2. \A n \in 1 .. q : n \in 0 .. 255
    OBVIOUS
  <2>3. \A n \in 1 .. q : c[n] \in FrameCells
    BY <1>3, <2>1, <2>2, Zenon
  <2> QED
    BY <1>7, <2>1, <2>3
<1>13. /\ d \in Seq(FrameCells) /\ Len(d) = l
       /\ \A n \in 1 .. l : d[n] = cell(n)
  <2>1. \A n \in 1 .. l : d[n] = cell(n)
    BY <1>8, Zenon
  <2>2. \A n \in 1 .. l : n \in 0 .. 255
    OBVIOUS
  <2>3. \A n \in 1 .. l : d[n] \in FrameCells
    BY <1>3, <2>1, <2>2, Zenon
  <2> QED
    BY <1>8, <2>1, <2>3
<1>14. PICK ab \in Seq(FrameCells) : IsJoin(ab, a, 2, b, e)
  BY <1>10, <1>11, JoinExists
<1>15. PICK abc \in Seq(FrameCells) : IsJoin(abc, ab, 2 + e, c, q)
  <2>1. Len(ab) = 2 + e
    BY <1>14 DEF IsJoin
  <2> QED
    BY <1>12, <2>1, JoinExists
<1>16. PICK w \in Seq(FrameCells) : IsJoin(w, abc, 2 + e + q, d, l)
  <2>1. Len(abc) = 2 + e + q
    BY <1>15, Zenon DEF IsJoin
  <2> QED
    BY <1>13, <2>1, JoinExists
<1>17. Encoded(k) = w
  BY <1>9, <1>14, <1>15, <1>16, Zenon DEF IsJoin
<1>18. \A n \in 1 .. e : w[2 + n] = b[n]
  <2>1. \A n \in 1 .. e : 2 + n \in 1 .. 2 + e /\ 2 + n \in 1 .. 2 + e + q
    OBVIOUS
  <2> QED
    BY <1>14, <1>15, <1>16, <2>1, Zenon DEF IsJoin
<1>19. \A n \in 1 .. q : w[2 + e + n] = c[n]
  <2>1. \A n \in 1 .. q : 2 + e + n \in 1 .. 2 + e + q
    OBVIOUS
  <2> QED
    BY <1>15, <1>16, <2>1, Zenon DEF IsJoin
<1>20. ASSUME NEW n \in 1 .. 2 + e + q + l
       PROVE  \E v : w[n] = cell(v)
  <2>1. CASE n \in 1 .. 2
    <3>1. n \in 1 .. 2 + e /\ n \in 1 .. 2 + e + q /\ (n = 1 \/ n = 2)
      BY <2>1
    <3>2. w[n] = a[n]
      BY <1>14, <1>15, <1>16, <2>1, <3>1, Zenon DEF IsJoin
    <3>3. a[n] = cell(0)
      BY <1>10, <3>1
    <3> QED
      BY <3>2, <3>3, Zenon
  <2>2. CASE n \in 3 .. 2 + e
    <3>1. n - 2 \in 1 .. e /\ 2 + (n - 2) = n
      BY <2>2
    <3> QED
      BY <1>11, <1>18, <3>1, Zenon
  <2>3. CASE n \in 2 + e + 1 .. 2 + e + q
    <3>1. n - (2 + e) \in 1 .. q /\ 2 + e + (n - (2 + e)) = n
      BY <2>3
    <3> QED
      BY <1>12, <1>19, <3>1, Zenon
  <2>4. CASE n \in 2 + e + q + 1 .. 2 + e + q + l
    <3>1. n - (2 + e + q) \in 1 .. l /\ 2 + e + q + (n - (2 + e + q)) = n
      BY <2>4
    <3>2. \A j \in 1 .. l : w[2 + e + q + j] = d[j]
      BY <1>16, Zenon DEF IsJoin
    <3>3. w[2 + e + q + (n - (2 + e + q))] = cell(n - (2 + e + q))
      BY <1>13, <3>1, <3>2, Zenon
    <3> QED
      BY <3>1, <3>3, Zenon
  <2>5. \/ n \in 1 .. 2 \/ n \in 3 .. 2 + e \/ n \in 2 + e + 1 .. 2 + e + q
        \/ n \in 2 + e + q + 1 .. 2 + e + q + l
    OBVIOUS
  <2> QED
    BY <2>1, <2>2, <2>3, <2>4, <2>5, Zenon
<1>21. ASSUME NEW n \in 1 .. 2 + e + q + l
       PROVE  w[n].frame = k
  <2>1. PICK v : w[n] = cell(v)
    BY <1>20
  <2> QED
    BY <1>4, <2>1, Zenon
<1>22. /\ \A n \in 1 .. e : w[2 + n].v = IF n = e THEN l ELSE 0
       /\ \A n \in 1 .. q : w[2 + e + n].v = n
       /\ \A n \in 1 .. l : w[2 + e + q + n].v = n
  <2>1. ASSUME NEW n \in 1 .. e PROVE w[2 + n].v = IF n = e THEN l ELSE 0
    BY <1>4, <1>11, <1>18, Zenon
  <2>2. ASSUME NEW n \in 1 .. q PROVE w[2 + e + n].v = n
    BY <1>4, <1>12, <1>19, Zenon
  <2>3. ASSUME NEW n \in 1 .. l PROVE w[2 + e + q + n].v = n
    BY <1>4, <1>13, <1>16, Zenon DEF IsJoin
  <2> QED
    BY <2>1, <2>2, <2>3
<1>23. /\ Encoded(k) \in Seq(FrameCells) /\ Len(Encoded(k)) = FrameBytes(frames[k])
       /\ \A n \in 1 .. FrameBytes(frames[k]) : Encoded(k)[n].frame = k
  BY <1>2, <1>16, <1>17, <1>21 DEF IsJoin
<1>24. \A n \in 1 .. frames[k].len : Encoded(k)[HeadBytes(frames[k]) + n].v = n
  BY <1>1, <1>2, <1>17, <1>22
<1> QED
  BY <1>1, <1>17, <1>22, <1>23, <1>24, Zenon

\* Where the bytes of a frame lie in the stream.
LEMMA StreamIs ==
  ASSUME frames \in Seq(Frames)
  PROVE  /\ Len(frames) \in Nat /\ Len(Stream) \in Nat
         /\ InFront(1) = 0 /\ InFront(Len(frames) + 1) = Len(Stream)
         /\ \A k \in 1 .. Len(frames) + 1 : InFront(k) \in Nat
         /\ \A k \in 1 .. Len(frames) :
              /\ InFront(k + 1) = InFront(k) + FrameBytes(frames[k])
              /\ InFront(k + 1) <= Len(Stream)
              /\ \A n \in 1 .. FrameBytes(frames[k]) : Stream[InFront(k) + n] = Encoded(k)[n]
<1> DEFINE s == AllEncoded
<1>1. Len(frames) \in Nat
  BY LenProperties
<1>2. s \in Seq(Seq(FrameCells)) /\ Len(s) = Len(frames)
  BY <1>1, EncodedIs DEF AllEncoded
<1>3. \A k \in 1 .. Len(frames) : s[k] = Encoded(k) /\ Len(s[k]) = FrameBytes(frames[k])
  BY EncodedIs DEF AllEncoded
<1>4. Stream = FlattenSeq(s)
  BY DEF Stream, AllEncoded
<1> HIDE DEF s
<1>5. Len(Stream) \in Nat
  BY <1>2, <1>4, FlattenType, LenProperties
<1>6. /\ \A n \in 0 .. Len(s) : Reach(s, n) \in Nat
      /\ Reach(s, 0) = 0 /\ Reach(s, Len(s)) = Len(FlattenSeq(s))
      /\ \A n \in 1 .. Len(s) : Reach(s, n) = Reach(s, n - 1) + Len(s[n])
  BY <1>2, ReachGrows
<1>7. \A n \in 1 .. Len(s) :
           /\ Reach(s, n) <= Len(FlattenSeq(s))
           /\ \A m \in 1 .. Len(s[n]) : FlattenSeq(s)[Reach(s, n - 1) + m] = s[n][m]
  BY <1>2, FlattenMember
<1>9. InFront(1) = 0 /\ InFront(Len(frames) + 1) = Len(Stream)
  <2>1. 1 - 1 = 0 /\ (Len(frames) + 1) - 1 = Len(s)
    BY <1>1, <1>2
  <2>2. InFront(1) = Reach(s, 1 - 1) /\ InFront(Len(frames) + 1) = Reach(s, (Len(frames) + 1) - 1)
    BY Zenon DEF InFront, s
  <2>3. Reach(s, 1 - 1) = Reach(s, 0) /\ Reach(s, (Len(frames) + 1) - 1) = Reach(s, Len(s))
    BY <2>1
  <2> QED
    BY <1>4, <1>6, <2>2, <2>3, Zenon
<1>10. ASSUME NEW k \in 1 .. Len(frames) + 1
       PROVE  InFront(k) \in Nat
  <2>1. k - 1 \in 0 .. Len(s)
    BY <1>1, <1>2
  <2> QED
    BY <1>6, <2>1, Zenon DEF InFront, s
<1>11. ASSUME NEW k \in 1 .. Len(frames)
       PROVE  /\ InFront(k + 1) = InFront(k) + FrameBytes(frames[k])
              /\ InFront(k + 1) <= Len(Stream)
              /\ \A n \in 1 .. FrameBytes(frames[k]) : Stream[InFront(k) + n] = Encoded(k)[n]
  <2>1. (k + 1) - 1 = k /\ k \in 1 .. Len(s)
    BY <1>1, <1>2
  <2>2. InFront(k + 1) = Reach(s, k) /\ InFront(k) = Reach(s, k - 1)
    <3>1. InFront(k + 1) = Reach(s, (k + 1) - 1) /\ InFront(k) = Reach(s, k - 1)
      BY Zenon DEF InFront, s
    <3>2. Reach(s, (k + 1) - 1) = Reach(s, k)
      BY <2>1
    <3> QED
      BY <3>1, <3>2, Zenon
  <2> QED
    BY <1>3, <1>4, <1>6, <1>7, <2>1, <2>2, Zenon
<1> QED
  BY <1>1, <1>5, <1>9, <1>10, <1>11, Zenon

\* The payload of a frame as it should come out.
PayloadPiece(type, k, n) == Piece(type, k, n, ((n - 1) % 4) + 1)

\* No frame in front of frame k ends the websocket.
Passed(k) == \A j \in 1 .. k - 1 : ~Ends(frames[j])

\* What comes out is typed.
LEMMA PieceTypes ==
  ASSUME frames \in Seq(Frames), NEW k \in 1 .. Len(frames), NEW n \in 1 .. 255,
         NEW type \in {"data", "echo"}
  PROVE  PayloadPiece(type, k, n) \in Pieces
<1>1. ((n - 1) % 4) + 1 \in 0 .. 255
  OBVIOUS
<1> QED
  BY <1>1 DEF PayloadPiece, Piece, Pieces

\* What a frame means.
LEMMA MeaningIs ==
  ASSUME frames \in Seq(Frames), NEW k \in 1 .. Len(frames)
  PROVE  /\ Meaning(k) \in Seq(Pieces)
         /\ (\E j \in 1 .. k : Ends(frames[j])) => Meaning(k) = <<>>
         /\ Passed(k) /\ ~Ends(frames[k]) =>
              /\ frames[k].op = "PONG" => Len(Meaning(k)) = 0
              /\ frames[k].op = "DATA" =>
                   /\ Len(Meaning(k)) = frames[k].len
                   /\ \A n \in 1 .. frames[k].len : Meaning(k)[n] = PayloadPiece("data", k, n)
              /\ frames[k].op = "PING" =>
                   /\ Len(Meaning(k)) = 1 + frames[k].len
                   /\ Meaning(k)[1] = Piece("pong", k, frames[k].len, 0)
                   /\ \A n \in 1 .. frames[k].len : Meaning(k)[1 + n] = PayloadPiece("echo", k, n)
<1> DEFINE f == frames[k]
           payload(type) == [n \in 1 .. f.len |-> PayloadPiece(type, k, n)]
<1>1. PICK l \in 0 .. 255 : l = f.len
  BY FrameSent, FrameIs
<1>2. ASSUME NEW type \in {"data", "echo"}
      PROVE  \E d \in Seq(Pieces) : /\ d = payload(type) /\ Len(d) = f.len
                                    /\ \A n \in 1 .. f.len : d[n] = PayloadPiece(type, k, n)
  <2>1. PICK d : d = [n \in 1 .. l |-> PayloadPiece(type, k, n)]
    OBVIOUS
  <2>2. \A n \in 1 .. l : d[n] = PayloadPiece(type, k, n)
    BY <2>1, Zenon
  <2>3. \A n \in 1 .. l : n \in 1 .. 255
    OBVIOUS
  <2>4. \A n \in 1 .. l : d[n] \in Pieces
    BY <2>2, <2>3, PieceTypes, Zenon
  <2>5. d \in Seq(Pieces) /\ Len(d) = l
    BY <2>1, <2>4
  <2>6. d = payload(type)
    BY <1>1, <2>1, Zenon
  <2> QED
    BY <1>1, <2>2, <2>5, <2>6, Zenon
<1>3. Piece("pong", k, f.len, 0) \in Pieces
  BY <1>1 DEF Piece, Pieces
<1>4. PICK d \in Seq(Pieces) : /\ d = payload("data") /\ Len(d) = f.len
                               /\ \A n \in 1 .. f.len : d[n] = PayloadPiece("data", k, n)
  BY <1>2
<1>11. PICK e \in Seq(Pieces) : /\ e = payload("echo") /\ Len(e) = f.len
                                /\ \A n \in 1 .. f.len : e[n] = PayloadPiece("echo", k, n)
  BY <1>2
<1>12. PICK p \in Seq(Pieces) : p = <<Piece("pong", k, f.len, 0)>> /\ Len(p) = 1
                                /\ p[1] = Piece("pong", k, f.len, 0)
  <2>1. PICK x \in Pieces : x = Piece("pong", k, f.len, 0)
    BY <1>3
  <2>2. <<x>> \in Seq(Pieces) /\ Len(<<x>>) = 1 /\ <<x>>[1] = x
    OBVIOUS
  <2> QED
    BY <2>1, <2>2, Zenon
<1>5. PICK pe \in Seq(Pieces) : IsJoin(pe, p, 1, e, f.len)
  BY <1>11, <1>12, JoinExists
<1>6. Meaning(k) = IF \E j \in 1 .. k : Ends(frames[j]) THEN <<>>
                   ELSE IF f.op = "DATA" THEN d
                   ELSE IF f.op = "PING" THEN pe
                   ELSE <<>>
  BY <1>4, <1>5, <1>11, <1>12, Zenon DEF Meaning, PayloadPiece, IsJoin
<1>7. /\ Len(d) = f.len /\ \A n \in 1 .. f.len : d[n] = PayloadPiece("data", k, n)
      /\ Len(pe) = 1 + f.len /\ pe[1] = Piece("pong", k, f.len, 0)
      /\ \A n \in 1 .. f.len : pe[1 + n] = PayloadPiece("echo", k, n)
  <2>1. 1 \in 1 .. 1
    OBVIOUS
  <2> QED
    BY <1>4, <1>5, <1>11, <1>12, <2>1, Zenon DEF IsJoin
<1>8. Passed(k) /\ ~Ends(f) => ~ \E j \in 1 .. k : Ends(frames[j])
  <2>1. \A j \in 1 .. k : j = k \/ j \in 1 .. k - 1
    OBVIOUS
  <2> QED
    BY <2>1, Zenon DEF Passed
<1>9. Meaning(k) \in Seq(Pieces)
  BY <1>6
<1> HIDE DEF payload
<1>10. "DATA" # "PING" /\ "DATA" # "PONG" /\ "PING" # "PONG" /\ Len(<<>>) = 0
  OBVIOUS
<1> QED
  BY <1>6, <1>7, <1>8, <1>9, <1>10, Zenon

\* Where the meaning of a frame lies in that of all.
LEMMA AllIs ==
  ASSUME frames \in Seq(Frames)
  PROVE  /\ All \in Seq(Pieces)
         /\ MeantInFront(1) = 0 /\ MeantInFront(Len(frames) + 1) = Len(All)
         /\ \A k \in 1 .. Len(frames) + 1 : MeantInFront(k) \in Nat
         /\ \A k \in 1 .. Len(frames) :
              /\ MeantInFront(k + 1) = MeantInFront(k) + Len(Meaning(k))
              /\ MeantInFront(k + 1) <= Len(All)
              /\ \A n \in 1 .. Len(Meaning(k)) : All[MeantInFront(k) + n] = Meaning(k)[n]
<1> DEFINE s == AllMeant
<1>1. Len(frames) \in Nat
  BY LenProperties
<1>2. s \in Seq(Seq(Pieces)) /\ Len(s) = Len(frames)
  BY <1>1, MeaningIs DEF AllMeant
<1>3. \A k \in 1 .. Len(frames) : s[k] = Meaning(k)
  BY DEF AllMeant
<1>4. All = FlattenSeq(s)
  BY DEF All, AllMeant
<1> HIDE DEF s
<1>5. All \in Seq(Pieces)
  BY <1>2, <1>4, FlattenType
<1>6. /\ \A n \in 0 .. Len(s) : Reach(s, n) \in Nat
      /\ Reach(s, 0) = 0 /\ Reach(s, Len(s)) = Len(FlattenSeq(s))
      /\ \A n \in 1 .. Len(s) : Reach(s, n) = Reach(s, n - 1) + Len(s[n])
  BY <1>2, ReachGrows
<1>7. \A n \in 1 .. Len(s) :
           /\ Reach(s, n) <= Len(FlattenSeq(s))
           /\ \A m \in 1 .. Len(s[n]) : FlattenSeq(s)[Reach(s, n - 1) + m] = s[n][m]
  BY <1>2, FlattenMember
<1>9. MeantInFront(1) = 0 /\ MeantInFront(Len(frames) + 1) = Len(All)
  <2>1. 1 - 1 = 0 /\ (Len(frames) + 1) - 1 = Len(s)
    BY <1>1, <1>2
  <2>2. MeantInFront(1) = Reach(s, 1 - 1) /\ MeantInFront(Len(frames) + 1) = Reach(s, (Len(frames) + 1) - 1)
    BY Zenon DEF MeantInFront, s
  <2>3. Reach(s, 1 - 1) = Reach(s, 0) /\ Reach(s, (Len(frames) + 1) - 1) = Reach(s, Len(s))
    BY <2>1
  <2> QED
    BY <1>4, <1>6, <2>2, <2>3, Zenon
<1>10. ASSUME NEW k \in 1 .. Len(frames) + 1
       PROVE  MeantInFront(k) \in Nat
  <2>1. k - 1 \in 0 .. Len(s)
    BY <1>1, <1>2
  <2> QED
    BY <1>6, <2>1, Zenon DEF MeantInFront, s
<1>11. ASSUME NEW k \in 1 .. Len(frames)
       PROVE  /\ MeantInFront(k + 1) = MeantInFront(k) + Len(Meaning(k))
              /\ MeantInFront(k + 1) <= Len(All)
              /\ \A n \in 1 .. Len(Meaning(k)) : All[MeantInFront(k) + n] = Meaning(k)[n]
  <2>1. (k + 1) - 1 = k /\ k \in 1 .. Len(s)
    BY <1>1, <1>2
  <2>2. MeantInFront(k + 1) = Reach(s, k) /\ MeantInFront(k) = Reach(s, k - 1)
    <3>1. MeantInFront(k + 1) = Reach(s, (k + 1) - 1) /\ MeantInFront(k) = Reach(s, k - 1)
      BY Zenon DEF MeantInFront, s
    <3>2. Reach(s, (k + 1) - 1) = Reach(s, k)
      BY <2>1
    <3> QED
      BY <3>1, <3>2, Zenon
  <2> QED
    BY <1>3, <1>4, <1>6, <1>7, <2>1, <2>2, Zenon
<1> QED
  BY <1>5, <1>9, <1>10, <1>11, Zenon

\* Behind a frame that ends the websocket nothing is meant.
LEMMA NothingMeantBehind ==
  ASSUME frames \in Seq(Frames), NEW k \in 1 .. Len(frames), Ends(frames[k])
  PROVE  MeantInFront(k) = Len(All)
<1>1. Len(frames) \in Nat
  BY StreamIs
<1>2. \A j \in k .. Len(frames) : MeantInFront(j + 1) = MeantInFront(j) /\ MeantInFront(j) \in Nat
  <2> SUFFICES ASSUME NEW j \in k .. Len(frames)
               PROVE  MeantInFront(j + 1) = MeantInFront(j) /\ MeantInFront(j) \in Nat
    OBVIOUS
  <2>1. j \in 1 .. Len(frames) /\ j \in 1 .. Len(frames) + 1 /\ k \in 1 .. j
    BY <1>1
  <2>2. Meaning(j) = <<>>
    BY <2>1, MeaningIs
  <2>3. Len(Meaning(j)) = 0
    BY <2>2
  <2>4. MeantInFront(j + 1) = MeantInFront(j) + Len(Meaning(j)) /\ MeantInFront(j) \in Nat
    BY <2>1, AllIs
  <2> QED
    BY <2>3, <2>4
<1> DEFINE T == {m \in 1 .. Len(frames) - k + 1 : MeantInFront(k + m) = MeantInFront(k)}
<1>3. 1 .. Len(frames) - k + 1 \subseteq T
  <2>1. 1 \in T
    <3>1. 1 \in 1 .. Len(frames) - k + 1 /\ k \in k .. Len(frames)
      BY <1>1
    <3> QED
      BY <1>2, <3>1
  <2>2. \A m \in 1 .. Len(frames) - k + 1 : m > 1 /\ m - 1 \in T => m \in T
    <3> SUFFICES ASSUME NEW m \in 1 .. Len(frames) - k + 1, m > 1, m - 1 \in T
                 PROVE  MeantInFront(k + m) = MeantInFront(k)
      OBVIOUS
    <3>1. k + (m - 1) \in k .. Len(frames) /\ k + (m - 1) + 1 = k + m
      BY <1>1
    <3>2. MeantInFront(k + (m - 1)) = MeantInFront(k)
      OBVIOUS
    <3> QED
      BY <1>2, <3>1, <3>2
  <2>3. Len(frames) - k + 1 \in Nat
    BY <1>1
  <2> HIDE DEF T
  <2> QED
    BY <2>1, <2>2, <2>3, UpTo
<1>4. Len(frames) - k + 1 \in T
  <2>1. Len(frames) - k + 1 \in 1 .. Len(frames) - k + 1
    BY <1>1
  <2> HIDE DEF T
  <2> QED
    BY <1>3, <2>1
<1>5. k + (Len(frames) - k + 1) = Len(frames) + 1
  BY <1>1
<1> QED
  BY <1>4, <1>5, AllIs

\* Pieces that are the first r of what is meant; what came out is.
FirstMeant(o, r) ==
  /\ o \in Seq(Pieces) /\ Len(o) = r /\ r <= Len(All)
  /\ \A n \in 1 .. r : o[n] = All[n]

OutIs(r) == FirstMeant(out, r)

\* fr.len8 of a frame, and the pieces that n bytes of its payload mean.
LengthCode(f) ==
  [len |-> IF f.ext = 2 THEN 126 ELSE IF f.ext = 8 THEN 127 ELSE f.len, masked |-> f.masked]
PartMeant(f, n) == IF f.op = "DATA" THEN n ELSE IF f.op = "PING" THEN 1 + n ELSE 0

\* The function is at the start or in the head of frame k.
InHead(k) ==
  /\ ~due /\ OutIs(MeantInFront(k))
  /\ wsStatus <= ST_LEN8 => looked = InFront(k) + wsStatus
  /\ wsStatus # ST_FLAGS => maskCtr = 0 /\ ~frameCont
  /\ wsStatus \in ST_LEN1 .. ST_LEN8 => wsStatus - ST_LEN1 < frames[k].ext /\ frLen = 0
  /\ wsStatus \in ST_MASK1 .. ST_MASK4 =>
       /\ frames[k].masked /\ looked = InFront(k) + (2 + frames[k].ext + (wsStatus - ST_MASK1))
       /\ frLen = frames[k].len
       /\ \A n \in 0 .. 3 : n < wsStatus - ST_MASK1 => mask[n] = n + 1

\* It is in the payload of frame k, of which frLen bytes are left.
InPayload(k) ==
  /\ frLen \in 0 .. frames[k].len
  /\ looked = InFront(k) + (HeadBytes(frames[k]) + (frames[k].len - frLen))
  /\ maskCtr = frames[k].len - frLen
  /\ frames[k].masked => \A n \in 0 .. 3 : mask[n] = n + 1
  /\ due => ~frameCont /\ frLen = frames[k].len /\ OutIs(MeantInFront(k))
  /\ ~due => /\ frameCont /\ frLen > 0 /\ ~Ends(frames[k])
             /\ OutIs(MeantInFront(k) + PartMeant(frames[k], frames[k].len - frLen))

\* It is in frame k, or behind all frames.
At(k) ==
  /\ Passed(k)
  /\ wsStatus \in ST_FLAGS .. ST_PAYLOAD
  /\ wsStatus # ST_FLAGS => k \in 1 .. Len(frames) /\ flags = frames[k].op
  /\ wsStatus \notin {ST_FLAGS, ST_LEN0} => len8 = LengthCode(frames[k])
  /\ wsStatus = ST_PAYLOAD => InPayload(k)
  /\ wsStatus # ST_PAYLOAD => InHead(k)

\* Some frame that was sent ends the websocket, and was not sent to close it.
ProtocolBroken == \E k \in 1 .. Len(frames) : Ends(frames[k]) /\ frames[k].op # "CLOSE"

\* The inductive invariant.
SocketTypes ==
  /\ frames \in Seq(Frames)
  /\ got \in 0 .. Len(Stream) /\ looked \in 0 .. got
  /\ receiving \in BOOLEAN /\ due \in BOOLEAN /\ closedHere \in BOOLEAN /\ frameCont \in BOOLEAN
  /\ mask \in [0 .. 3 -> 0 .. 255]
  /\ result \in {"MORE", "DONE"}
  /\ due => receiving

SocketInv ==
  /\ SocketTypes
  /\ result = "MORE" => /\ \E k \in 1 .. Len(frames) + 1 : At(k)
                        /\ closes = IF closedHere THEN 1 ELSE 0
  /\ result = "DONE" => /\ out = All
                        /\ closes = 1 \/ (closes = 2 /\ ProtocolBroken)

\* What the frames mean stays what it is.
LEMMA FramesStay ==
  ASSUME frames' = frames
  PROVE  /\ Stream' = Stream /\ All' = All /\ Pieces' = Pieces
         /\ \A k : InFront(k)' = InFront(k) /\ MeantInFront(k)' = MeantInFront(k)
         /\ \A k : Passed(k)' <=> Passed(k)
         /\ ProtocolBroken' <=> ProtocolBroken
<1>1. Stream' = Stream
  BY Zenon DEF Stream, Encoded
<1>2. All' = All
  BY Zenon DEF All, Meaning
<1>3. ASSUME NEW k PROVE InFront(k)' = InFront(k)
  BY Zenon DEF InFront, AllEncoded, Encoded
<1>4. ASSUME NEW k PROVE MeantInFront(k)' = MeantInFront(k)
  BY Zenon DEF MeantInFront, AllMeant, Meaning
<1>5. Pieces' = Pieces
  BY DEF Pieces
<1>6. ASSUME NEW k PROVE Passed(k)' <=> Passed(k)
  BY Zenon DEF Passed
<1>7. ProtocolBroken' <=> ProtocolBroken
  BY Zenon DEF ProtocolBroken
<1> QED
  BY <1>1, <1>2, <1>3, <1>4, <1>5, <1>6, <1>7

\* More pieces behind the first ones.
LEMMA MeantGrows ==
  ASSUME frames \in Seq(Frames), NEW o, NEW r, FirstMeant(o, r),
         NEW u \in Seq(Pieces), NEW n \in Nat, Len(u) = n,
         r + n <= Len(All), \A j \in 1 .. n : u[j] = All[r + j]
  PROVE  FirstMeant(o \o u, r + n)
<1>1. o \in Seq(Pieces) /\ Len(o) = r /\ r \in Nat
  BY LenProperties DEF FirstMeant
<1>2. PICK c \in Seq(Pieces) : IsJoin(c, o, r, u, n)
  BY <1>1, JoinExists
<1>3. o \o u = c
  BY <1>2, Zenon DEF IsJoin
<1>4. ASSUME NEW j \in 1 .. r + n
      PROVE  c[j] = All[j]
  <2>1. CASE j <= r
    <3>1. j \in 1 .. r
      BY <1>1, <2>1
    <3> QED
      BY <1>2, <3>1, Zenon DEF IsJoin, FirstMeant
  <2>2. CASE j > r
    <3>1. j - r \in 1 .. n /\ r + (j - r) = j
      BY <1>1, <2>2
    <3>2. c[r + (j - r)] = u[j - r]
      BY <1>2, <3>1, Zenon DEF IsJoin
    <3>3. u[j - r] = All[r + (j - r)]
      BY <3>1
    <3> QED
      BY <3>1, <3>2, <3>3
  <2> QED
    BY <1>1, <2>1, <2>2
<1>5. Len(c) = r + n
  BY <1>2, Zenon DEF IsJoin
<1> QED
  BY <1>3, <1>4, <1>5, Zenon DEF FirstMeant

\* A byte of a frame.
LEMMA ByteIs ==
  ASSUME frames \in Seq(Frames), NEW k \in 1 .. Len(frames), NEW n \in 1 .. FrameBytes(frames[k]),
         looked + 1 = InFront(k) + n
  PROVE  Byte = Encoded(k)[n] /\ Byte.frame = k
BY StreamIs, EncodedIs DEF Byte

\* Where the function is when it takes a byte of a head.
LEMMA HeadTurnAt ==
  ASSUME SocketInv, NEW S, HeadTurn(S), 14 \notin S
  PROVE  /\ \E k \in 1 .. Len(frames) : At(k) /\ InHead(k)
         /\ wsStatus # 14 /\ frames \in Seq(Frames)
<1>1. /\ SocketTypes /\ result = "MORE" /\ ~due /\ looked < got /\ wsStatus # 14
  BY DEF SocketInv, HeadTurn
<1>2. PICK k \in 1 .. Len(frames) + 1 : At(k)
  BY <1>1 DEF SocketInv
<1>3. InHead(k)
  BY <1>1, <1>2 DEF At
<1>4. Len(frames) \in Nat /\ InFront(Len(frames) + 1) = Len(Stream) /\ Len(Stream) \in Nat
  BY <1>1, StreamIs DEF SocketTypes
<1>5. k # Len(frames) + 1
  <2> SUFFICES ASSUME k = Len(frames) + 1 PROVE FALSE
    OBVIOUS
  <2>1. wsStatus = 0
    BY <1>2, <1>4 DEF At
  <2>2. looked = Len(Stream)
    BY <1>3, <1>4, <2>1 DEF InHead
  <2> QED
    BY <1>1, <1>4, <2>2 DEF SocketTypes
<1> QED
  BY <1>1, <1>2, <1>3, <1>4, <1>5 DEF SocketTypes

\* Taking a byte of a head keeps the invariant if the function is in a frame again.
LEMMA HeadByteKeeps ==
  ASSUME SocketInv, NEW S, HeadTurn(S), HeadByte,
         mask' \in [0 .. 3 -> 0 .. 255], frameCont' \in BOOLEAN, NEW k \in 1 .. Len(frames) + 1, At(k)'
  PROVE  SocketInv'
<1>1. /\ receiving /\ looked < got /\ looked' = looked + 1 /\ due' \in BOOLEAN
      /\ frames' = frames /\ got' = got /\ receiving' = receiving /\ closedHere' = closedHere
      /\ result = "MORE" /\ result' = result /\ closes' = closes
  BY DEF HeadTurn, HeadByte
<1>2. SocketTypes'
  BY <1>1, FramesStay DEF SocketInv, SocketTypes
<1>3. \E j \in 1 .. Len(frames') + 1 : At(j)'
  BY <1>1
<1> QED
  BY <1>1, <1>2, <1>3 DEF SocketInv

\* What came out in front of a frame, if nothing comes.
LEMMA OutKept ==
  ASSUME frames' = frames, out' = out, NEW k, OutIs(MeantInFront(k))
  PROVE  OutIs(MeantInFront(k))'
BY FramesStay, Zenon DEF OutIs, FirstMeant

\* The invariant holds at the start.
LEMMA InitSocketInv ==
  ASSUME SocketInit
  PROVE  SocketInv
<1>1. frames \in Seq(Frames)
  <2>1. frames \in SeqOf(Frames, MaxFrames)
    BY DEF SocketInit, BoundedSeq
  <2>2. PICK m \in 0 .. MaxFrames : frames \in [1 .. m -> Frames]
    BY <2>1, Zenon DEF SeqOf
  <2>3. m \in Nat
    BY SocketAssumption
  <2> QED
    BY <2>2, <2>3
<1>2. Len(frames) \in Nat /\ Len(Stream) \in Nat /\ InFront(1) = 0
  BY <1>1, StreamIs
<1>3. All \in Seq(Pieces) /\ MeantInFront(1) = 0 /\ Len(All) \in Nat
  BY <1>1, AllIs, LenProperties
<1>4. SocketTypes
  <2>1. mask \in [0 .. 3 -> 0 .. 255]
    BY DEF SocketInit, SocketStart
  <2>2. got \in 0 .. Len(Stream) /\ looked \in 0 .. got
    BY <1>2 DEF SocketInit, SocketStart
  <2> QED
    BY <1>1, <2>1, <2>2 DEF SocketInit, SocketStart, SocketTypes
<1>5. OutIs(MeantInFront(1))
  BY <1>3 DEF SocketInit, SocketStart, OutIs, FirstMeant
<1>6. InHead(1)
  BY <1>2, <1>5 DEF SocketInit, SocketStart, InHead
<1>7. At(1)
  BY <1>6 DEF SocketInit, SocketStart, At, Passed
<1>8. 1 \in 1 .. Len(frames) + 1
  BY <1>2
<1> QED
  BY <1>4, <1>7, <1>8 DEF SocketInv, SocketInit, SocketStart

\* What taking a byte of a head does.
LEMMA HeadByteIs ==
  ASSUME HeadByte
  PROVE  /\ looked' = looked + 1
         /\ due' <=> wsStatus' = 14
         /\ frames' = frames /\ got' = got /\ receiving' = receiving /\ closedHere' = closedHere
         /\ result' = result /\ out' = out /\ closes' = closes
<1>1. due' <=> wsStatus' = 14
  BY Zenon DEF HeadByte
<1> QED
  BY <1>1 DEF HeadByte

\* Where that byte lies.
LEMMA HeadAt ==
  ASSUME SocketInv, NEW k \in 1 .. Len(frames), InHead(k)
  PROVE  /\ InFront(k) \in Nat /\ Len(frames) \in Nat /\ k \in 1 .. Len(frames) + 1
         /\ frames \in Seq(Frames) /\ frames[k] \in Frames
         /\ FrameBytes(frames[k]) \in 2 .. 269
         /\ wsStatus \in 0 .. 9 => looked = InFront(k) + wsStatus
<1>1. frames \in Seq(Frames)
  BY DEF SocketInv, SocketTypes
<1>2. Len(frames) \in Nat /\ k \in 1 .. Len(frames) + 1
  BY <1>1, StreamIs
<1>3. InFront(k) \in Nat
  BY <1>1, <1>2, StreamIs
<1>4. frames[k] \in Frames
  BY <1>1, FrameSent
<1>5. FrameBytes(frames[k]) \in 2 .. 269
  BY <1>4, FrameIs
<1>6. wsStatus \in 0 .. 9 => looked = InFront(k) + wsStatus
  BY DEF InHead
<1> QED
  BY <1>1, <1>2, <1>3, <1>4, <1>5, <1>6

\* The bytes of a head.
LEMMA FlagsKeepsInv ==
  ASSUME SocketInv, Flags
  PROVE  SocketInv'
<1>1. PICK k \in 1 .. Len(frames) : At(k) /\ InHead(k)
  BY HeadTurnAt DEF Flags
<1>2. /\ wsStatus = 0 /\ looked = InFront(k) /\ InFront(k) \in Nat /\ Len(frames) \in Nat
      /\ frames \in Seq(Frames) /\ k \in 1 .. Len(frames) + 1 /\ FrameBytes(frames[k]) \in 2 .. 269
  <2>1. frames \in Seq(Frames)
    BY DEF SocketInv, SocketTypes
  <2>2. Len(frames) \in Nat /\ k \in 1 .. Len(frames) + 1
    BY <2>1, StreamIs
  <2>3. wsStatus = 0
    BY DEF Flags, HeadTurn
  <2> QED
    BY <1>1, <2>1, <2>2, <2>3, HeadAt
<1>3. Byte.frame = k
  <2>1. \A n \in 2 .. 269 : 1 \in 1 .. n
    OBVIOUS
  <2> QED
    BY <1>2, <2>1, ByteIs, Zenon
<1>4. /\ flags' = frames[k].op /\ maskCtr' = 0 /\ frameCont' = FALSE /\ wsStatus' = 1
      /\ looked' = InFront(k) + 1 /\ ~due' /\ frames' = frames /\ out' = out
      /\ mask' = mask
  BY <1>2, <1>3, HeadByteIs DEF Flags
<1>5. OutIs(MeantInFront(k))'
  BY <1>1, <1>4, OutKept DEF InHead
<1>6. InHead(k)'
  BY <1>4, <1>5, FramesStay DEF InHead
<1>7. At(k)'
  BY <1>1, <1>4, <1>6, FramesStay DEF At
<1>8. mask' \in [0 .. 3 -> 0 .. 255]
  BY <1>4 DEF SocketInv, SocketTypes
<1> QED
  BY <1>2, <1>4, <1>7, <1>8, HeadByteKeeps DEF Flags

\* The payload of a frame begins.
LEMMA PayloadBegins ==
  ASSUME SocketInv, NEW k \in 1 .. Len(frames), At(k), InHead(k), HeadByte,
         wsStatus' = 14, flags' = frames[k].op, len8' = LengthCode(frames[k]),
         frLen' = frames[k].len, maskCtr' = 0, frameCont' = FALSE,
         looked + 1 = InFront(k) + HeadBytes(frames[k]),
         frames[k].masked => \A n \in 0 .. 3 : mask'[n] = n + 1
  PROVE  At(k)'
<1>1. frames' = frames /\ out' = out /\ due' /\ looked' = InFront(k) + HeadBytes(frames[k])
  BY HeadByteIs
<1>2. PICK l \in 0 .. 255, h \in 2 .. 14 : l = frames[k].len /\ h = HeadBytes(frames[k])
  BY HeadAt, FrameIs
<1>3. \A i \in Nat : i + h = i + (h + (l - l)) /\ l - l = 0 /\ l \in 0 .. l
  OBVIOUS
<1>4. InFront(k) \in Nat
  BY HeadAt
<1>5. OutIs(MeantInFront(k))'
  BY <1>1, OutKept DEF InHead
<1>6. HeadBytes(frames'[k]) = HeadBytes(frames[k])
  BY <1>1
<1>7. looked' = InFront(k)' + (HeadBytes(frames'[k]) + (frames'[k].len - frLen'))
  BY <1>1, <1>2, <1>3, <1>4, <1>6, FramesStay
<1>8. maskCtr' = frames'[k].len - frLen' /\ frLen' \in 0 .. frames'[k].len
  BY <1>1, <1>2, <1>3
<1>9. InPayload(k)'
  BY <1>1, <1>5, <1>7, <1>8, Zenon DEF InPayload, HeadBytes, MaskBytes
<1>10. k \in 1 .. Len(frames') /\ flags' = frames'[k].op /\ len8' = LengthCode(frames[k])'
  BY <1>1 DEF LengthCode
<1>11. Passed(k)'
  BY <1>1, FramesStay DEF At
<1> QED
  BY <1>9, <1>10, <1>11 DEF At

\* The length of a frame is known: its mask or its payload follows.
LEMMA LengthKnown ==
  ASSUME SocketInv, NEW k \in 1 .. Len(frames), At(k), InHead(k), HeadByte,
         wsStatus' = AfterLength, flags' = frames[k].op, len8' = LengthCode(frames[k]),
         frLen' = frames[k].len, maskCtr' = 0, frameCont' = FALSE,
         looked + 1 = InFront(k) + (2 + frames[k].ext)
  PROVE  At(k)'
<1>1. frames' = frames /\ out' = out /\ looked' = looked + 1 /\ (due' <=> wsStatus' = 14)
  BY HeadByteIs
<1>2. len8'.masked = frames[k].masked
  BY DEF LengthCode
<1>3. PICK e \in {0, 2, 8} : e = frames[k].ext
  BY HeadAt, FrameIs
<1>4. CASE frames[k].masked
  <2>1. wsStatus' = 10 /\ ~due'
    BY <1>1, <1>2, <1>4 DEF AfterLength
  <2>2. OutIs(MeantInFront(k))'
    BY <1>1, OutKept DEF InHead
  <2>3. \A i \in Nat : i + (2 + e) = i + (2 + e + (10 - 10))
    OBVIOUS
  <2>4. looked' = InFront(k)' + (2 + frames'[k].ext + (10 - 10))
    BY <1>1, <1>3, <2>3, HeadAt, FramesStay
  <2>5. InHead(k)'
    BY <1>1, <1>4, <2>1, <2>2, <2>4 DEF InHead
  <2>6. k \in 1 .. Len(frames') /\ flags' = frames'[k].op /\ len8' = LengthCode(frames[k])'
    BY <1>1 DEF LengthCode
  <2>7. Passed(k)'
    BY <1>1, FramesStay DEF At
  <2> QED
    BY <2>1, <2>5, <2>6, <2>7 DEF At
<1>5. CASE ~frames[k].masked
  <2>1. wsStatus' = 14
    BY <1>2, <1>5 DEF AfterLength
  <2>2. HeadBytes(frames[k]) = 2 + e
    BY <1>3, <1>5 DEF HeadBytes, MaskBytes
  <2> QED
    BY <1>3, <1>5, <2>1, <2>2, PayloadBegins
<1> QED
  BY <1>4, <1>5

LEMMA Length0KeepsInv ==
  ASSUME SocketInv, Length0
  PROVE  SocketInv'
<1>1. PICK k \in 1 .. Len(frames) : At(k) /\ InHead(k)
  BY HeadTurnAt DEF Length0
<1>2. /\ wsStatus = 1 /\ looked = InFront(k) + 1 /\ InFront(k) \in Nat /\ Len(frames) \in Nat
      /\ frames \in Seq(Frames) /\ k \in 1 .. Len(frames) + 1 /\ FrameBytes(frames[k]) \in 2 .. 269
      /\ frames[k] \in Frames
  <2>1. wsStatus = 1
    BY DEF Length0, HeadTurn
  <2> QED
    BY <1>1, <2>1, HeadAt
<1>3. Byte.frame = k
  <2>1. (\A n \in 2 .. 269 : 2 \in 1 .. n) /\ \A i \in Nat : i + 1 + 1 = i + 2
    OBVIOUS
  <2> QED
    BY <1>2, <2>1, ByteIs, Zenon
<1>4. /\ flags = frames[k].op /\ maskCtr = 0 /\ frameCont = FALSE /\ OutIs(MeantInFront(k))
      /\ Passed(k)
  <2>1. frameCont \in BOOLEAN
    BY DEF SocketInv, SocketTypes
  <2> QED
    BY <1>1, <1>2, <2>1 DEF At, InHead
<1>5. /\ flags' = frames[k].op /\ maskCtr' = 0 /\ frameCont' = FALSE
      /\ mask' = mask /\ len8' = LengthCode(frames[k]) /\ HeadByte
  BY <1>2, <1>3, <1>4 DEF Length0, LengthCode
<1>6. PICK e \in {0, 2, 8}, l \in 0 .. 255 :
        e = frames[k].ext /\ l = frames[k].len /\ (e = 0 => l <= 125)
  <2>1. /\ frames[k].ext \in {0, 2, 8} /\ frames[k].len \in 0 .. 255
        /\ (frames[k].ext = 0) = (frames[k].len <= SmallLen)
    BY <1>2, FrameIs
  <2>2. \A l \in 0 .. 255 : l <= SmallLen => l <= 125
    BY SocketAssumption
  <2> QED
    BY <2>1, <2>2, Zenon
<1>7. /\ frLen' = IF len8'.len >= 126 THEN 0 ELSE len8'.len
      /\ wsStatus' = IF len8'.len >= 126 THEN 2 ELSE AfterLength
      /\ len8'.len = IF e = 2 THEN 126 ELSE IF e = 8 THEN 127 ELSE l
  <2>1. len8'.len = IF e = 2 THEN 126 ELSE IF e = 8 THEN 127 ELSE l
    BY <1>5, <1>6 DEF LengthCode
  <2> QED
    BY <2>1 DEF Length0
<1>8. At(k)'
  <2>1. CASE e = 0
    <3>1. frLen' = l /\ wsStatus' = AfterLength
      BY <1>6, <1>7, <2>1
    <3>2. looked + 1 = InFront(k) + (2 + e)
      BY <1>2, <2>1
    <3> QED
      BY <1>1, <1>5, <1>6, <3>1, <3>2, LengthKnown
  <2>2. CASE e # 0
    <3>1. frLen' = 0 /\ wsStatus' = 2 /\ ~due' /\ frames' = frames /\ out' = out
          /\ looked' = InFront(k) + 2
      BY <1>2, <1>5, <1>6, <1>7, <2>2, HeadByteIs
    <3>2. OutIs(MeantInFront(k))'
      BY <1>4, <3>1, OutKept
    <3>3. 2 - 2 < frames'[k].ext
      BY <1>6, <2>2, <3>1
    <3>4. InHead(k)'
      BY <1>5, <3>1, <3>2, <3>3, FramesStay DEF InHead
    <3>5. k \in 1 .. Len(frames') /\ flags' = frames'[k].op /\ len8' = LengthCode(frames[k])'
      BY <1>5, <3>1 DEF LengthCode
    <3>6. Passed(k)'
      BY <1>4, <3>1, FramesStay
    <3> QED
      BY <3>1, <3>4, <3>5, <3>6 DEF At
  <2> QED
    BY <2>1, <2>2
<1>9. mask' \in [0 .. 3 -> 0 .. 255]
  BY <1>5 DEF SocketInv, SocketTypes
<1> QED
  BY <1>2, <1>5, <1>8, <1>9, HeadByteKeeps DEF Length0

LEMMA LengthKeepsInv ==
  ASSUME SocketInv, Length
  PROVE  SocketInv'
<1>1. PICK k \in 1 .. Len(frames) : At(k) /\ InHead(k)
  BY HeadTurnAt DEF Length
<1>2. PICK w \in 2 .. 9 : w = wsStatus
  BY DEF Length, HeadTurn
<1>3. PICK e \in {0, 2, 8}, l \in 0 .. 255 : e = frames[k].ext /\ l = frames[k].len
  BY <1>1, HeadAt, FrameIs
<1>4. /\ looked = InFront(k) + w /\ InFront(k) \in Nat /\ Len(frames) \in Nat
      /\ frames \in Seq(Frames) /\ k \in 1 .. Len(frames) + 1 /\ frames[k] \in Frames
  <2>1. w \in 0 .. 9
    OBVIOUS
  <2> QED
    BY <1>1, <1>2, <2>1, HeadAt
<1>5. w - 2 < e /\ frLen = 0 /\ maskCtr = 0 /\ frameCont = FALSE /\ OutIs(MeantInFront(k))
  <2>1. frameCont \in BOOLEAN
    BY DEF SocketInv, SocketTypes
  <2> QED
    BY <1>1, <1>2, <1>3, <2>1 DEF InHead
<1>6. flags = frames[k].op /\ len8 = LengthCode(frames[k]) /\ Passed(k)
  BY <1>1, <1>2 DEF At
<1>7. Byte.v = IF w - 1 = e THEN l ELSE 0
  <2>1. PICK q \in {0, 4} : q = MaskBytes(frames[k])
    BY <1>4, FrameIs
  <2>2. FrameBytes(frames[k]) = 2 + e + q + l
    BY <1>3, <2>1 DEF FrameBytes, HeadBytes
  <2>3. w - 1 \in 1 .. e /\ 2 + (w - 1) \in 1 .. 2 + e + q + l
    BY <1>5
  <2>4. looked + 1 = InFront(k) + (2 + (w - 1))
    BY <1>4
  <2>5. Byte = Encoded(k)[2 + (w - 1)]
    BY <1>4, <2>2, <2>3, <2>4, ByteIs
  <2>6. Encoded(k)[2 + (w - 1)].v = IF w - 1 = e THEN l ELSE 0
    <3>1. \A n \in 1 .. e : Encoded(k)[2 + n].v = IF n = e THEN l ELSE 0
      BY <1>3, <1>4, EncodedIs
    <3> QED
      BY <2>3, <3>1, Zenon
  <2> QED
    BY <2>5, <2>6
<1>8. /\ flags' = frames[k].op /\ maskCtr' = 0 /\ frameCont' = FALSE
      /\ mask' = mask /\ len8' = LengthCode(frames[k]) /\ HeadByte
  BY <1>5, <1>6 DEF Length
<1>9. frLen' = IF w - 1 = e THEN l ELSE 0
  BY <1>5, <1>7 DEF Length
<1>10. wsStatus' = IF w - 1 = e THEN AfterLength ELSE w + 1
  <2>1. len8.len = IF e = 2 THEN 126 ELSE IF e = 8 THEN 127 ELSE l
    BY <1>3, <1>6 DEF LengthCode
  <2>2. wsStatus' = IF (len8.len = 126 /\ w = 3) \/ w = 9 THEN AfterLength ELSE w + 1
    BY <1>2 DEF Length
  <2>3. ((len8.len = 126 /\ w = 3) \/ w = 9) <=> w - 1 = e
    BY <1>5, <2>1
  <2> QED
    BY <2>2, <2>3, Zenon
<1>11. At(k)'
  <2>1. CASE w - 1 = e
    <3>1. frLen' = l /\ wsStatus' = AfterLength
      BY <1>9, <1>10, <2>1
    <3>2. looked + 1 = InFront(k) + (2 + e)
      BY <1>4, <2>1
    <3> QED
      BY <1>1, <1>3, <1>8, <3>1, <3>2, LengthKnown
  <2>2. CASE w - 1 # e
    <3>1. w + 1 \in 3 .. 9
      BY <1>5, <2>2
    <3>2. frLen' = 0 /\ wsStatus' = w + 1 /\ frames' = frames /\ out' = out /\ looked' = InFront(k) + (w + 1)
      BY <1>4, <1>8, <1>9, <1>10, <2>2, HeadByteIs
    <3>3. ~due'
      BY <1>8, <3>1, <3>2, HeadByteIs
    <3>4. OutIs(MeantInFront(k))'
      BY <1>5, <3>2, OutKept
    <3>5. (w + 1) - 2 < frames'[k].ext
      BY <1>3, <1>5, <2>2, <3>2
    <3>6. InHead(k)'
      BY <1>8, <3>1, <3>2, <3>3, <3>4, <3>5, FramesStay DEF InHead
    <3>7. k \in 1 .. Len(frames') /\ flags' = frames'[k].op /\ len8' = LengthCode(frames[k])'
      BY <1>8, <3>2 DEF LengthCode
    <3>8. Passed(k)'
      BY <1>6, <3>2, FramesStay
    <3> QED
      BY <3>1, <3>2, <3>6, <3>7, <3>8 DEF At
  <2> QED
    BY <2>1, <2>2
<1>12. mask' \in [0 .. 3 -> 0 .. 255]
  BY <1>8 DEF SocketInv, SocketTypes
<1> QED
  BY <1>4, <1>8, <1>11, <1>12, HeadByteKeeps DEF Length

LEMMA MaskKeepsInv ==
  ASSUME SocketInv, Mask
  PROVE  SocketInv'
<1>1. PICK k \in 1 .. Len(frames) : At(k) /\ InHead(k)
  BY HeadTurnAt DEF Mask
<1>2. PICK w \in 10 .. 13 : w = wsStatus
  BY DEF Mask, HeadTurn
<1>3. PICK e \in {0, 2, 8}, l \in 0 .. 255 : e = frames[k].ext /\ l = frames[k].len
  BY <1>1, HeadAt, FrameIs
<1>4. /\ InFront(k) \in Nat /\ Len(frames) \in Nat
      /\ frames \in Seq(Frames) /\ k \in 1 .. Len(frames) + 1 /\ frames[k] \in Frames
  BY <1>1, HeadAt
<1>5. /\ looked = InFront(k) + (2 + e + (w - 10)) /\ frLen = l /\ frames[k].masked
      /\ \A n \in 0 .. 3 : n < w - 10 => mask[n] = n + 1
      /\ maskCtr = 0 /\ frameCont = FALSE /\ OutIs(MeantInFront(k))
  <2>1. frameCont \in BOOLEAN
    BY DEF SocketInv, SocketTypes
  <2> QED
    BY <1>1, <1>2, <1>3, <2>1 DEF InHead
<1>6. flags = frames[k].op /\ len8 = LengthCode(frames[k]) /\ Passed(k)
  BY <1>1, <1>2 DEF At
<1>7. HeadBytes(frames[k]) = 2 + e + 4 /\ MaskBytes(frames[k]) = 4
  BY <1>3, <1>5 DEF HeadBytes, MaskBytes
<1>8. Byte.v = w - 9
  <2>1. w - 9 \in 1 .. 4 /\ 2 + e + (w - 9) \in 1 .. 2 + e + 4 + l
    OBVIOUS
  <2>2. FrameBytes(frames[k]) = 2 + e + 4 + l
    BY <1>3, <1>7 DEF FrameBytes
  <2>3. looked + 1 = InFront(k) + (2 + e + (w - 9))
    BY <1>4, <1>5
  <2>4. Byte = Encoded(k)[2 + e + (w - 9)]
    BY <1>4, <2>1, <2>2, <2>3, ByteIs
  <2>5. Encoded(k)[2 + e + (w - 9)].v = w - 9
    BY <1>3, <1>4, <1>7, <2>1, EncodedIs
  <2> QED
    BY <2>4, <2>5
<1>9. /\ flags' = frames[k].op /\ maskCtr' = 0 /\ frameCont' = FALSE /\ frLen' = l
      /\ len8' = LengthCode(frames[k]) /\ HeadByte /\ wsStatus' = w + 1
  BY <1>2, <1>5, <1>6 DEF Mask
<1>10. /\ mask' \in [0 .. 3 -> 0 .. 255]
       /\ \A n \in 0 .. 3 : n < w - 9 => mask'[n] = n + 1
  <2>1. mask' = [mask EXCEPT ![w - 10] = w - 9] /\ mask \in [0 .. 3 -> 0 .. 255]
    BY <1>2, <1>8 DEF Mask, SocketInv, SocketTypes
  <2>2. w - 10 \in 0 .. 3 /\ w - 9 \in 0 .. 255 /\ w - 9 = (w - 10) + 1
        /\ \A n \in 0 .. 3 : n < w - 9 => n = w - 10 \/ n < w - 10
    OBVIOUS
  <2>3. \A i \in 0 .. 3 : mask'[i] = IF i = w - 10 THEN w - 9 ELSE mask[i]
    BY <2>1
  <2>4. mask' \in [0 .. 3 -> 0 .. 255]
    BY <2>1, <2>2
  <2> QED
    BY <1>5, <2>2, <2>3, <2>4, Zenon
<1>11. At(k)'
  <2>1. CASE w = 13
    <3>1. looked + 1 = InFront(k) + (2 + e + 4)
      BY <1>4, <1>5, <2>1
    <3>2. \A n \in 0 .. 3 : mask'[n] = n + 1
      BY <1>10, <2>1
    <3>3. wsStatus' = 14
      BY <1>9, <2>1
    <3> QED
      BY <1>1, <1>3, <1>7, <1>9, <3>1, <3>2, <3>3, PayloadBegins
  <2>2. CASE w # 13
    <3>1. w + 1 \in 11 .. 13
      BY <2>2
    <3>2. frames' = frames /\ out' = out /\ looked' = InFront(k) + (2 + e + ((w + 1) - 10))
      BY <1>4, <1>5, <1>9, HeadByteIs
    <3>3. ~due'
      BY <1>9, <3>1, HeadByteIs
    <3>4. OutIs(MeantInFront(k))'
      BY <1>5, <3>2, OutKept
    <3>5. \A n \in 0 .. 3 : n < (w + 1) - 10 => mask'[n] = n + 1
      BY <1>10
    <3>6. looked' = InFront(k)' + (2 + frames'[k].ext + ((w + 1) - 10)) /\ frames'[k].masked
          /\ frLen' = frames'[k].len
      BY <1>3, <1>5, <1>9, <3>2, FramesStay
    <3>7. InHead(k)'
      BY <1>9, <3>1, <3>3, <3>4, <3>5, <3>6 DEF InHead
    <3>8. k \in 1 .. Len(frames') /\ flags' = frames'[k].op /\ len8' = LengthCode(frames[k])'
      BY <1>9, <3>2 DEF LengthCode
    <3>9. Passed(k)'
      BY <1>6, <3>2, FramesStay
    <3> QED
      BY <1>9, <3>1, <3>7, <3>8, <3>9 DEF At
  <2> QED
    BY <2>1, <2>2
<1>12. frameCont' \in BOOLEAN
  BY <1>9
<1> QED
  BY <1>4, <1>9, <1>10, <1>11, <1>12, HeadByteKeeps DEF Mask

\* Where the function is when it takes payload.
LEMMA PayloadAt ==
  ASSUME SocketInv, PayloadTurn
  PROVE  /\ frames \in Seq(Frames) /\ Len(frames) \in Nat /\ receiving /\ result = "MORE"
         /\ \E k \in 1 .. Len(frames) :
              /\ At(k) /\ InPayload(k) /\ frames[k] \in Frames /\ InFront(k) \in Nat
              /\ flags = frames[k].op /\ len8.masked = frames[k].masked
              /\ Ends(frames[k]) => due
<1>1. SocketTypes /\ result = "MORE" /\ receiving /\ (due \/ wsStatus = 14)
  BY DEF SocketInv, PayloadTurn
<1>2. PICK k \in 1 .. Len(frames) + 1 : At(k)
  BY <1>1 DEF SocketInv
<1>3. frames \in Seq(Frames) /\ Len(frames) \in Nat
  BY <1>1, StreamIs DEF SocketTypes
<1>4. wsStatus = 14
  BY <1>1, <1>2 DEF At, InHead
<1>5. InPayload(k) /\ k \in 1 .. Len(frames) /\ flags = frames[k].op /\ len8 = LengthCode(frames[k])
  BY <1>2, <1>4 DEF At
<1>6. len8.masked = frames[k].masked
  BY <1>5 DEF LengthCode
<1>7. Ends(frames[k]) => due
  BY <1>5 DEF InPayload
<1>8. frames[k] \in Frames /\ InFront(k) \in Nat
  BY <1>2, <1>3, <1>5, FrameSent, StreamIs
<1> QED
  BY <1>1, <1>2, <1>3, <1>5, <1>6, <1>7, <1>8

\* Of the l bytes behind the h bytes of its head m were taken; now t more are.
TakenAt(k, l, h, m, t) ==
  /\ l = frames[k].len /\ h = HeadBytes(frames[k])
  /\ m + t <= l /\ frLen = l - m /\ m = l - frLen /\ t = Taken
  /\ looked = InFront(k) + (h + m) /\ maskCtr = m /\ looked + t \in 0 .. got

\* How much payload is taken.
LEMMA TakenIs ==
  ASSUME SocketInv, NEW k \in 1 .. Len(frames), InPayload(k)
  PROVE  \E l \in 0 .. 255, h \in 2 .. 14, m \in 0 .. 255, t \in 0 .. 255 : TakenAt(k, l, h, m, t)
<1>1. frames \in Seq(Frames) /\ frames[k] \in Frames /\ got \in Nat /\ looked \in 0 .. got
  <2>1. frames \in Seq(Frames)
    BY DEF SocketInv, SocketTypes
  <2>2. Len(Stream) \in Nat
    BY <2>1, StreamIs
  <2> QED
    BY <2>1, <2>2, FrameSent DEF SocketInv, SocketTypes
<1>2. PICK l \in 0 .. 255, h \in 2 .. 14 : l = frames[k].len /\ h = HeadBytes(frames[k])
  BY <1>1, FrameIs
<1>3. PICK m \in 0 .. 255 : m <= l /\ frLen = l - m /\ m = l - frLen
  <2>1. frLen \in 0 .. l
    BY <1>2 DEF InPayload
  <2>2. l - frLen \in 0 .. 255 /\ l - frLen <= l /\ frLen = l - (l - frLen)
    BY <2>1
  <2> QED
    BY <2>2
<1>4. looked = InFront(k) + (h + m) /\ maskCtr = m
  BY <1>2, <1>3 DEF InPayload
<1>5. PICK t \in 0 .. 255 : m + t <= l /\ t = Taken /\ looked + t \in 0 .. got
  BY <1>1, <1>3 DEF Taken
<1> QED
  BY <1>2, <1>3, <1>4, <1>5, Zenon DEF TakenAt

\* The payload taken, unmasked.
LEMMA UnmaskedIs ==
  ASSUME SocketInv, NEW k \in 1 .. Len(frames), InPayload(k), frames[k].masked,
         NEW type \in {"data", "echo"}
  PROVE  \E u \in Seq(Pieces) :
           /\ u = Unmasked(type) /\ Len(u) = Taken
           /\ \A n \in 1 .. Taken : u[n] = PayloadPiece(type, k, (frames[k].len - frLen) + n)
<1>10. PICK l \in 0 .. 255, h \in 2 .. 14, m \in 0 .. 255, t \in 0 .. 255 : TakenAt(k, l, h, m, t)
  BY TakenIs
<1>1. /\ l = frames[k].len /\ h = HeadBytes(frames[k])
      /\ m + t <= l /\ m = l - frLen /\ t = Taken
      /\ looked = InFront(k) + (h + m) /\ maskCtr = m
  BY <1>10, Zenon DEF TakenAt
<1>11. m + t <= l
  BY <1>1
<1>12. maskCtr = m
  BY <1>1
<1>2. frames \in Seq(Frames) /\ InFront(k) \in Nat
  <2>1. frames \in Seq(Frames)
    BY DEF SocketInv, SocketTypes
  <2>2. k \in 1 .. Len(frames) + 1
    BY <2>1, StreamIs
  <2> QED
    BY <2>1, <2>2, StreamIs
<1>3. FrameBytes(frames[k]) = h + l
  BY <1>1 DEF FrameBytes
<1>4. ASSUME NEW n \in 1 .. t
      PROVE  /\ Stream[looked + n].frame = k /\ Stream[looked + n].v = m + n
             /\ mask[(maskCtr + n - 1) % 4] = (((m + n) - 1) % 4) + 1
  <2>1. h + (m + n) \in 1 .. h + l /\ m + n \in 1 .. l
    BY <1>11
  <2>2. looked + n = InFront(k) + (h + (m + n))
    <3>1. \A i \in Nat : (i + (h + m)) + n = i + (h + (m + n))
      OBVIOUS
    <3> QED
      BY <1>1, <1>2, <3>1, Zenon
  <2>3. Stream[looked + n] = Encoded(k)[h + (m + n)]
    BY <1>2, <1>3, <2>1, <2>2, StreamIs
  <2>4. Encoded(k)[h + (m + n)].v = m + n
    <3>1. \A j \in 1 .. l : Encoded(k)[h + j].v = j
      BY <1>1, <1>2, EncodedIs
    <3> QED
      BY <2>1, <3>1, Zenon
  <2>5. Encoded(k)[h + (m + n)].frame = k
    BY <1>2, <1>3, <2>1, EncodedIs
  <2>6. mask[(maskCtr + n - 1) % 4] = (((m + n) - 1) % 4) + 1
    <3>1. maskCtr + n - 1 = (m + n) - 1 /\ ((m + n) - 1) % 4 \in 0 .. 3
      BY <1>12
    <3>2. \A j \in 0 .. 3 : mask[j] = j + 1
      BY DEF InPayload
    <3> QED
      BY <3>1, <3>2
  <2> QED
    BY <2>3, <2>4, <2>5, <2>6
<1>5. PICK u : u = [n \in 1 .. t |-> PayloadPiece(type, k, m + n)]
  OBVIOUS
<1>6. \A n \in 1 .. t : u[n] = PayloadPiece(type, k, m + n) /\ u[n] \in Pieces
  <2>1. \A n \in 1 .. t : u[n] = PayloadPiece(type, k, m + n)
    BY <1>5, Zenon
  <2>2. \A n \in 1 .. t : m + n \in 1 .. 255
    BY <1>11
  <2>3. \A n \in 1 .. t : PayloadPiece(type, k, m + n) \in Pieces
    BY <1>2, <2>2, PieceTypes
  <2> QED
    BY <2>1, <2>3
<1>7. u \in Seq(Pieces) /\ Len(u) = t
  BY <1>5, <1>6
<1>8. Unmasked(type) = u
  <2>1. \A n \in 1 .. t : LET b == Stream[looked + n]
                          IN  Piece(type, b.frame, b.v, mask[(maskCtr + n - 1) % 4])
                                = PayloadPiece(type, k, m + n)
    BY <1>4 DEF PayloadPiece
  <2> QED
    BY <1>1, <1>5, <2>1 DEF Unmasked
<1> QED
  BY <1>1, <1>6, <1>7, <1>8

\* Giving up at a frame that ends the websocket keeps the invariant.
LEMMA GiveUpKeepsInv ==
  ASSUME SocketInv, PayloadTurn, GiveUp, closedHere' \in BOOLEAN,
         NEW k \in 1 .. Len(frames), At(k), InPayload(k), Ends(frames[k]),
         closes' = 1 \/ (closes' = closes + 1 /\ frames[k].op # "CLOSE")
  PROVE  SocketInv'
<1>1. frames \in Seq(Frames) /\ SocketTypes /\ result = "MORE"
  BY DEF SocketInv, PayloadTurn, SocketTypes
<1>2. due
  BY DEF InPayload
<1>3. OutIs(Len(All))
  BY <1>1, <1>2, NothingMeantBehind DEF InPayload
<1>4. out = All
  <2>1. out \in Seq(Pieces) /\ All \in Seq(Pieces) /\ Len(out) = Len(All) /\ \A n \in 1 .. Len(out) : out[n] = All[n]
    BY <1>1, <1>3, AllIs DEF OutIs, FirstMeant
  <2> QED
    BY <2>1, SeqEqual
<1>5. closes' = 1 \/ (closes' = 2 /\ ProtocolBroken)
  BY <1>1 DEF SocketInv, ProtocolBroken
<1>6. frames' = frames /\ out' = out /\ result' = "DONE" /\ SocketTypes'
  <2>1. frames' = frames
    BY DEF GiveUp
  <2> QED
    BY <1>1, <2>1, FramesStay DEF GiveUp, SocketTypes, frVars
<1> QED
  BY <1>4, <1>5, <1>6, FramesStay DEF SocketInv

LEMMA PingTooLongKeepsInv ==
  ASSUME SocketInv, PingTooLong
  PROVE  SocketInv'
<1>1. PayloadTurn /\ flags = "PING" /\ frLen > SmallLen /\ GiveUp
  BY DEF PingTooLong
<1>2. PICK k \in 1 .. Len(frames) :
              /\ At(k) /\ InPayload(k) /\ frames[k] \in Frames /\ InFront(k) \in Nat
              /\ flags = frames[k].op /\ len8.masked = frames[k].masked
              /\ Ends(frames[k]) => due
  BY <1>1, PayloadAt
<1>3. Ends(frames[k])
  <2>1. frames[k].len \in 0 .. 255
    BY <1>2, FrameIs
  <2>2. frames[k].len > SmallLen
    <3>1. PICK l \in 0 .. 255 : l = frames[k].len
      BY <2>1
    <3>2. frLen \in 0 .. l
      BY <1>2, <3>1 DEF InPayload
    <3>3. l > SmallLen
      BY <1>1, <3>2, SocketAssumption
    <3> QED
      BY <3>1, <3>3
  <2> QED
    BY <1>1, <1>2, <2>2 DEF Ends
<1>4. ~frameCont
  BY <1>2, <1>3 DEF InPayload
<1>5. closes' = closes + 1 /\ closedHere' = TRUE
  BY <1>4 DEF PingTooLong
<1> QED
  BY <1>1, <1>2, <1>3, <1>5, GiveUpKeepsInv

LEMMA ReceiveUnmaskedKeepsInv ==
  ASSUME SocketInv, ReceiveUnmasked
  PROVE  SocketInv'
<1>1. PayloadTurn /\ flags = "DATA" /\ ~len8.masked /\ GiveUp /\ closes' = closes + 1 /\ closedHere' = TRUE
  BY DEF ReceiveUnmasked
<1>2. PICK k \in 1 .. Len(frames) :
              /\ At(k) /\ InPayload(k) /\ frames[k] \in Frames /\ InFront(k) \in Nat
              /\ flags = frames[k].op /\ len8.masked = frames[k].masked
              /\ Ends(frames[k]) => due
  BY <1>1, PayloadAt
<1>3. Ends(frames[k])
  BY <1>1, <1>2 DEF Ends
<1> QED
  BY <1>1, <1>2, <1>3, GiveUpKeepsInv

LEMMA CloseKeepsInv ==
  ASSUME SocketInv, Close
  PROVE  SocketInv'
<1>1. PayloadTurn /\ flags = "CLOSE" /\ GiveUp /\ closedHere' = TRUE
      /\ closes' = IF closedHere THEN closes ELSE closes + 1
  BY DEF Close
<1>2. PICK k \in 1 .. Len(frames) :
              /\ At(k) /\ InPayload(k) /\ frames[k] \in Frames /\ InFront(k) \in Nat
              /\ flags = frames[k].op /\ len8.masked = frames[k].masked
              /\ Ends(frames[k]) => due
  BY <1>1, PayloadAt
<1>3. Ends(frames[k])
  BY <1>1, <1>2 DEF Ends
<1>4. closes' = 1
  BY <1>1 DEF SocketInv, PayloadTurn
<1>5. /\ closedHere' \in BOOLEAN /\ PayloadTurn /\ GiveUp /\ At(k) /\ InPayload(k)
      /\ closes' = 1 \/ (closes' = closes + 1 /\ frames[k].op # "CLOSE")
  BY <1>1, <1>2, <1>4
<1> QED
  BY <1>3, <1>5, GiveUpKeepsInv

\* A frame that does not end the websocket means as much as its whole payload.
LEMMA WholeMeant ==
  ASSUME frames \in Seq(Frames), NEW k \in 1 .. Len(frames), Passed(k), ~Ends(frames[k])
  PROVE  /\ Len(Meaning(k)) = PartMeant(frames[k], frames[k].len)
         /\ MeantInFront(k) \in Nat /\ Len(All) \in Nat
         /\ MeantInFront(k + 1) = MeantInFront(k) + PartMeant(frames[k], frames[k].len)
         /\ MeantInFront(k) + PartMeant(frames[k], frames[k].len) <= Len(All)
         /\ \A n \in 1 .. Len(Meaning(k)) : All[MeantInFront(k) + n] = Meaning(k)[n]
         /\ Passed(k + 1)
<1>1. frames[k].op \in Opcodes
  BY FrameSent, FrameIs
<1>2. Len(Meaning(k)) = PartMeant(frames[k], frames[k].len)
  <2>1. frames[k].op # "CLOSE"
    BY DEF Ends
  <2> QED
    BY <1>1, <2>1, MeaningIs DEF PartMeant, Opcodes
<1>3. k \in 1 .. Len(frames) + 1 /\ Len(frames) \in Nat
  BY StreamIs
<1>4. Passed(k + 1)
  <2>1. \A j \in 1 .. (k + 1) - 1 : j = k \/ j \in 1 .. k - 1
    OBVIOUS
  <2> QED
    BY <2>1 DEF Passed
<1>5. Len(All) \in Nat
  BY AllIs, LenProperties
<1>6. /\ MeantInFront(k) \in Nat /\ MeantInFront(k + 1) = MeantInFront(k) + Len(Meaning(k))
      /\ MeantInFront(k + 1) <= Len(All)
      /\ \A n \in 1 .. Len(Meaning(k)) : All[MeantInFront(k) + n] = Meaning(k)[n]
  BY <1>3, AllIs
<1> QED
  BY <1>2, <1>4, <1>5, <1>6, Zenon

\* A byte's remainder is the byte.
LEMMA ByteMod == \A n \in 0 .. 255 : n % 256 = n
OBVIOUS

\* Taking payload keeps the invariant if what it means came out.
LEMMA PayloadKeepsInv ==
  ASSUME SocketInv, PayloadTurn, PayloadTaken,
         NEW k \in 1 .. Len(frames), At(k), InPayload(k), frames[k] \in Frames, ~Ends(frames[k]),
         NEW l, NEW h, NEW m, NEW t, l \in 0 .. 255, h \in 2 .. 14, m \in 0 .. 255, t \in 0 .. 255,
         TakenAt(k, l, h, m, t),
         FirstMeant(out', MeantInFront(k) + PartMeant(frames[k], m + t))
  PROVE  SocketInv'
<1>1. /\ l = frames[k].len /\ h = HeadBytes(frames[k])
      /\ m + t <= l /\ frLen = l - m /\ t = Taken
      /\ looked = InFront(k) + (h + m) /\ maskCtr = m /\ looked + t \in 0 .. got
  BY Zenon DEF TakenAt
<1>9. m + t <= l
  BY <1>1
<1>2. /\ frames \in Seq(Frames) /\ Len(frames) \in Nat /\ result = "MORE" /\ receiving
      /\ frameCont \in BOOLEAN /\ got \in Nat
  <2>1. frames \in Seq(Frames)
    BY DEF SocketInv, SocketTypes
  <2>2. Len(Stream) \in Nat
    BY <2>1, StreamIs
  <2> QED
    BY <2>1, <2>2, StreamIs DEF SocketInv, SocketTypes, PayloadTurn
<1>3. /\ looked' = looked + t /\ maskCtr' = (m + t) % 256 /\ frLen' = (l - m) - t
      /\ wsStatus' = IF l - m = t THEN 0 ELSE wsStatus
      /\ frameCont' = (frameCont \/ l - m # t) /\ due' = FALSE
      /\ frames' = frames /\ got' = got /\ receiving' = receiving /\ flags' = flags /\ len8' = len8
      /\ mask' = mask /\ closedHere' = closedHere /\ result' = result /\ closes' = closes
  BY <1>1, Zenon DEF PayloadTaken
<1>4. Passed(k) /\ wsStatus = 14 /\ flags = frames[k].op /\ len8 = LengthCode(frames[k])
  <2>1. wsStatus = 14
    BY DEF At, InHead, PayloadTurn
  <2> QED
    BY <2>1 DEF At
<1>5. /\ k \in 1 .. Len(frames) + 1 /\ k + 1 \in 1 .. Len(frames) + 1
      /\ InFront(k) \in Nat /\ InFront(k + 1) = InFront(k) + (h + l)
  <2>1. k \in 1 .. Len(frames) + 1 /\ k + 1 \in 1 .. Len(frames) + 1
    BY <1>2
  <2>2. InFront(k) \in Nat /\ InFront(k + 1) = InFront(k) + FrameBytes(frames[k])
    BY <1>2, <2>1, StreamIs
  <2>3. FrameBytes(frames[k]) = h + l
    BY <1>1, Zenon DEF FrameBytes
  <2> QED
    BY <2>1, <2>2, <2>3
<1>6. SocketTypes'
  <2>1. looked' \in 0 .. got'
    BY <1>1, <1>3
  <2>2. frameCont' \in BOOLEAN
    BY <1>3, Zenon
  <2>3. Stream' = Stream
    BY <1>3, FramesStay
  <2> QED
    BY <1>2, <1>3, <2>1, <2>2, <2>3 DEF SocketInv, SocketTypes
<1>7. \E j \in 1 .. Len(frames) + 1 : At(j)'
  <2>1. CASE m + t = l
    <3>1. l - m = t
      BY <2>1
    <3>2. wsStatus' = 0
      BY <1>3, <3>1
    <3>3. FirstMeant(out', MeantInFront(k + 1)) /\ Passed(k + 1)
      BY <1>1, <1>2, <1>4, <2>1, WholeMeant
    <3>4. OutIs(MeantInFront(k + 1))'
      BY <1>3, <3>3, FramesStay, Zenon DEF OutIs, FirstMeant
    <3>5. looked' = InFront(k + 1)
      <4>1. \A i \in Nat : (i + (h + m)) + t = i + (h + l)
        BY <2>1
      <4> QED
        BY <1>1, <1>3, <1>5, <4>1
    <3>6. looked' = InFront(k + 1)' + 0
      BY <1>3, <1>5, <3>5, FramesStay
    <3>7. InHead(k + 1)'
      BY <1>3, <3>2, <3>4, <3>6 DEF InHead
    <3>8. Passed(k + 1)'
      BY <1>3, <3>3, FramesStay
    <3>9. At(k + 1)'
      BY <3>2, <3>7, <3>8 DEF At
    <3> QED
      BY <1>5, <3>9
  <2>2. CASE m + t # l
    <3>1. l - m # t /\ (l - m) - t = l - (m + t) /\ (l - m) - t > 0 /\ (l - m) - t \in 0 .. l
          /\ m + t = l - (l - (m + t)) /\ (m + t) % 256 = m + t
      <4>1. l - m # t /\ (l - m) - t = l - (m + t) /\ m + t = l - (l - (m + t))
        BY <2>2
      <4>2. m + t \in 0 .. 255 /\ m + t < l
        BY <1>9, <2>2
      <4>3. l - (m + t) > 0 /\ l - (m + t) \in 0 .. l
        BY <4>2
      <4>4. (m + t) % 256 = m + t
        BY <4>2, ByteMod, Zenon
      <4> QED
        BY <4>1, <4>3, <4>4, Zenon
    <3>2. wsStatus' = 14 /\ frLen' = l - (m + t) /\ maskCtr' = m + t /\ frameCont' = TRUE
      BY <1>3, <1>4, <3>1, Zenon
    <3>3. looked' = InFront(k)' + (h + (m + t))
      <4>1. \A i \in Nat : (i + (h + m)) + t = i + (h + (m + t))
        OBVIOUS
      <4> QED
        BY <1>1, <1>3, <1>5, <4>1, FramesStay
    <3>4. OutIs(MeantInFront(k) + PartMeant(frames[k], m + t))'
      BY <1>3, FramesStay, Zenon DEF OutIs, FirstMeant, PartMeant
    <3>5. /\ frLen' \in 0 .. frames'[k].len
          /\ looked' = InFront(k)' + (HeadBytes(frames'[k]) + (frames'[k].len - frLen'))
          /\ maskCtr' = frames'[k].len - frLen' /\ frLen' > 0
          /\ m + t = frames'[k].len - frLen'
      BY <1>1, <1>3, <3>1, <3>2, <3>3, Zenon
    <3>6. frames'[k].masked => \A n \in 0 .. 3 : mask'[n] = n + 1
      BY <1>3, Zenon DEF InPayload
    <3>7. ~due' /\ ~Ends(frames'[k])
      BY <1>3
    <3>8. OutIs(MeantInFront(k) + PartMeant(frames[k], frames[k].len - frLen))'
      BY <1>3, <3>4, <3>5, Zenon
    <3>9. InPayload(k)'
      BY <3>2, <3>5, <3>6, <3>7, <3>8, Zenon DEF InPayload, HeadBytes, MaskBytes, Ends
    <3>10. k \in 1 .. Len(frames') /\ flags' = frames'[k].op /\ len8' = LengthCode(frames[k])'
      BY <1>3, <1>4 DEF LengthCode
    <3>11. Passed(k)'
      BY <1>3, <1>4, FramesStay
    <3>12. At(k)'
      BY <3>2, <3>9, <3>10, <3>11 DEF At
    <3> QED
      BY <1>5, <3>12
  <2> QED
    BY <2>1, <2>2
<1>8. \E j \in 1 .. Len(frames') + 1 : At(j)'
  BY <1>3, <1>7
<1> QED
  BY <1>2, <1>3, <1>6, <1>8 DEF SocketInv

\* What came out before payload is taken, but for the head of a pong.
LEMMA OutBefore ==
  ASSUME SocketInv, NEW k \in 1 .. Len(frames), InPayload(k), NEW l, NEW h, NEW m, NEW t,
         l \in 0 .. 255, m \in 0 .. 255, TakenAt(k, l, h, m, t), MeantInFront(k) \in Nat,
         frames[k].op # "PING" \/ ~due
  PROVE  FirstMeant(out, MeantInFront(k) + PartMeant(frames[k], m))
<1>1. l = frames[k].len /\ m = l - frLen /\ m = frames[k].len - frLen
  BY Zenon DEF TakenAt
<1>2. CASE due
  <2>1. frLen = l /\ OutIs(MeantInFront(k))
    BY <1>1, <1>2 DEF InPayload
  <2>2. m = 0
    BY <1>1, <2>1
  <2>3. PartMeant(frames[k], m) = 0
    BY <1>2, <2>2 DEF PartMeant
  <2>4. MeantInFront(k) + PartMeant(frames[k], m) = MeantInFront(k)
    BY <2>3
  <2> QED
    BY <2>1, <2>4, Zenon DEF OutIs
<1>3. CASE ~due
  BY <1>1, <1>3, Zenon DEF InPayload, OutIs
<1> QED
  BY <1>2, <1>3

LEMMA ReceiveKeepsInv ==
  ASSUME SocketInv, Receive
  PROVE  SocketInv'
<1>1. PayloadTurn /\ flags = "DATA" /\ len8.masked /\ PayloadTaken /\ out' = out \o Unmasked("data")
  BY DEF Receive
<1>2. PICK k \in 1 .. Len(frames) :
              /\ At(k) /\ InPayload(k) /\ frames[k] \in Frames /\ InFront(k) \in Nat
              /\ flags = frames[k].op /\ len8.masked = frames[k].masked
              /\ Ends(frames[k]) => due
  BY <1>1, PayloadAt
<1>3. frames[k].op = "DATA" /\ frames[k].masked /\ ~Ends(frames[k]) /\ frames \in Seq(Frames) /\ Passed(k)
  BY <1>1, <1>2 DEF Ends, SocketInv, SocketTypes, At
<1>4. PICK l \in 0 .. 255, h \in 2 .. 14, m \in 0 .. 255, t \in 0 .. 255 : TakenAt(k, l, h, m, t)
  BY <1>2, TakenIs
<1>5. l = frames[k].len /\ m + t <= l /\ m = frames[k].len - frLen /\ t = Taken
  BY <1>4, Zenon DEF TakenAt
<1>14. m + t <= l
  BY <1>5
<1>6. PICK u \in Seq(Pieces) :
           /\ u = Unmasked("data") /\ Len(u) = t
           /\ \A n \in 1 .. t : u[n] = PayloadPiece("data", k, m + n)
  BY <1>2, <1>3, <1>5, UnmaskedIs
<1>7. PICK r \in Nat : r = MeantInFront(k)
  BY <1>3, WholeMeant
<1>8. /\ Len(Meaning(k)) = l /\ Len(All) \in Nat /\ r + l <= Len(All)
      /\ \A n \in 1 .. l : All[r + n] = Meaning(k)[n]
      /\ \A n \in 1 .. l : Meaning(k)[n] = PayloadPiece("data", k, n)
  <2>1. PartMeant(frames[k], l) = l
    BY <1>3 DEF PartMeant
  <2> QED
    BY <1>3, <1>5, <1>7, <2>1, WholeMeant, MeaningIs
<1>9. FirstMeant(out, r + m)
  <2>1. PartMeant(frames[k], m) = m
    BY <1>3 DEF PartMeant
  <2> QED
    BY <1>2, <1>3, <1>4, <1>7, <2>1, OutBefore
<1>10. ASSUME NEW j \in 1 .. t PROVE u[j] = All[(r + m) + j]
  <2>1. m + j \in 1 .. l /\ r + (m + j) = (r + m) + j
    BY <1>14
  <2> QED
    BY <1>6, <1>8, <2>1
<1>11. (r + m) + t <= Len(All) /\ (r + m) + t = r + (m + t)
  <2>1. Len(All) \in Nat /\ r + l <= Len(All)
    BY <1>8
  <2> QED
    BY <1>14, <2>1
<1>12. FirstMeant(out \o u, (r + m) + t)
  BY <1>3, <1>6, <1>9, <1>10, <1>11, MeantGrows
<1>13. FirstMeant(out', MeantInFront(k) + PartMeant(frames[k], m + t))
  <2>1. PartMeant(frames[k], m + t) = m + t
    BY <1>3 DEF PartMeant
  <2> QED
    BY <1>1, <1>6, <1>7, <1>11, <1>12, <2>1, Zenon
<1> QED
  BY <1>1, <1>2, <1>3, <1>4, <1>13, PayloadKeepsInv

LEMMA PingKeepsInv ==
  ASSUME SocketInv, Ping
  PROVE  SocketInv'
<1>1. PayloadTurn /\ flags = "PING" /\ frLen <= SmallLen /\ PayloadTaken
  BY DEF Ping
<1>2. PICK k \in 1 .. Len(frames) :
              /\ At(k) /\ InPayload(k) /\ frames[k] \in Frames /\ InFront(k) \in Nat
              /\ flags = frames[k].op /\ len8.masked = frames[k].masked
              /\ Ends(frames[k]) => due
  BY <1>1, PayloadAt
<1>3. frames[k].op = "PING" /\ frames[k].masked /\ frames \in Seq(Frames) /\ Passed(k)
  BY <1>1, <1>2, FrameIs DEF SocketInv, SocketTypes, At
<1>4. PICK l \in 0 .. 255, h \in 2 .. 14, m \in 0 .. 255, t \in 0 .. 255 : TakenAt(k, l, h, m, t)
  BY <1>2, TakenIs
<1>5. /\ l = frames[k].len /\ m + t <= l /\ m = frames[k].len - frLen /\ t = Taken /\ h = HeadBytes(frames[k])
      /\ looked = InFront(k) + (h + m)
  BY <1>4, Zenon DEF TakenAt
<1>17. m + t <= l
  BY <1>5
<1>6. ~Ends(frames[k])
  <2>1. due => frLen = frames[k].len
    BY <1>2 DEF InPayload
  <2>2. ~due => ~Ends(frames[k])
    BY <1>2
  <2>3. due => ~ (frames[k].len > SmallLen)
    <3>1. \A x \in 0 .. 255 : x <= SmallLen => ~ (x > SmallLen)
      BY SocketAssumption
    <3> QED
      BY <1>1, <1>5, <2>1, <3>1, Zenon
  <2> QED
    BY <1>3, <2>2, <2>3 DEF Ends
<1>7. PICK u \in Seq(Pieces) :
           /\ u = Unmasked("echo") /\ Len(u) = t
           /\ \A n \in 1 .. t : u[n] = PayloadPiece("echo", k, m + n)
  BY <1>2, <1>3, <1>5, UnmaskedIs
<1>8. PICK r \in Nat : r = MeantInFront(k)
  BY <1>3, <1>6, WholeMeant
<1>9. /\ Len(Meaning(k)) = 1 + l /\ Len(All) \in Nat /\ r + (1 + l) <= Len(All)
      /\ \A n \in 1 .. 1 + l : All[r + n] = Meaning(k)[n]
      /\ Meaning(k)[1] = Piece("pong", k, l, 0)
      /\ \A n \in 1 .. l : Meaning(k)[1 + n] = PayloadPiece("echo", k, n)
  <2>1. PartMeant(frames[k], l) = 1 + l
    BY <1>3 DEF PartMeant
  <2> QED
    BY <1>3, <1>5, <1>6, <1>8, <2>1, WholeMeant, MeaningIs
<1>10. PICK o : o = IF frameCont THEN out ELSE Append(out, Piece("pong", Stream[looked].frame, frLen, 0))
  OBVIOUS
<1>11. out' = o \o u
  BY <1>7, <1>10, Zenon DEF Ping
<1>12. FirstMeant(o, r + (1 + m))
  <2>1. CASE due
    <3>1. ~frameCont /\ frLen = l /\ OutIs(MeantInFront(k))
      BY <1>2, <1>5, <2>1 DEF InPayload
    <3>2. m = 0
      <4>1. m = l - l
        BY <1>5, <3>1, Zenon
      <4> QED
        BY <4>1
    <3>3. Stream[looked].frame = k
      <4>1. FrameBytes(frames[k]) = h + l
        BY <1>5, Zenon DEF FrameBytes
      <4>2. h \in 1 .. h + l /\ h + 0 = h
        OBVIOUS
      <4>3. looked = InFront(k) + h
        BY <1>5, <3>2, <4>2
      <4>4. Stream[InFront(k) + h] = Encoded(k)[h]
        BY <1>3, <4>1, <4>2, StreamIs
      <4>5. Encoded(k)[h].frame = k
        BY <1>3, <4>1, <4>2, EncodedIs
      <4> QED
        BY <4>3, <4>4, <4>5
    <3>4. o = Append(out, Piece("pong", k, l, 0))
      BY <1>10, <3>1, <3>3
    <3>5. Piece("pong", k, l, 0) = All[r + 1] /\ Piece("pong", k, l, 0) \in Pieces
      <4>1. 1 \in 1 .. 1 + l
        OBVIOUS
      <4>2. Piece("pong", k, l, 0) \in Pieces
        BY DEF Piece, Pieces
      <4> QED
        BY <1>9, <4>1, <4>2
    <3>6. out \in Seq(Pieces) /\ Len(out) = r /\ \A n \in 1 .. r : out[n] = All[n]
      BY <1>8, <3>1 DEF OutIs, FirstMeant
    <3> HIDE DEF Piece
    <3>7. PICK p \in Pieces : p = Piece("pong", k, l, 0)
      BY <3>5
    <3>8. /\ o \in Seq(Pieces) /\ Len(o) = r + 1 /\ o[r + 1] = p
          /\ \A n \in 1 .. r : o[n] = out[n]
      BY <3>4, <3>6, <3>7, AppendProperties
    <3>9. r + 1 <= Len(All) /\ r + (1 + m) = r + 1
      BY <1>9, <3>2
    <3>10. \A n \in 1 .. r + 1 : o[n] = All[n]
      <4>1. \A n \in 1 .. r + 1 : n = r + 1 \/ n \in 1 .. r
        OBVIOUS
      <4> QED
        BY <3>5, <3>6, <3>7, <3>8, <4>1, Zenon
    <3> QED
      BY <3>8, <3>9, <3>10 DEF FirstMeant
  <2>2. CASE ~due
    <3>1. frameCont
      BY <1>2, <2>2 DEF InPayload
    <3>2. o = out
      BY <1>10, <3>1
    <3>3. PartMeant(frames[k], m) = 1 + m
      BY <1>3 DEF PartMeant
    <3> QED
      BY <1>2, <1>4, <1>8, <2>2, <3>2, <3>3, OutBefore
  <2> QED
    BY <2>1, <2>2
<1>13. ASSUME NEW j \in 1 .. t PROVE u[j] = All[(r + (1 + m)) + j]
  <2>1. m + j \in 1 .. l /\ 1 + (m + j) \in 1 .. 1 + l /\ r + (1 + (m + j)) = (r + (1 + m)) + j
    BY <1>17
  <2>2. All[r + (1 + (m + j))] = Meaning(k)[1 + (m + j)]
    BY <1>9, <2>1
  <2>3. Meaning(k)[1 + (m + j)] = PayloadPiece("echo", k, m + j)
    BY <1>9, <2>1
  <2> QED
    BY <1>7, <2>1, <2>2, <2>3
<1>14. (r + (1 + m)) + t <= Len(All) /\ (r + (1 + m)) + t = r + (1 + (m + t))
  <2>1. Len(All) \in Nat /\ r + (1 + l) <= Len(All)
    BY <1>9
  <2> QED
    BY <1>17, <2>1
<1>15. FirstMeant(o \o u, (r + (1 + m)) + t)
  <2>1. PICK q : q = r + (1 + m)
    OBVIOUS
  <2>2. FirstMeant(o, q) /\ q + t <= Len(All)
    BY <1>12, <1>14, <2>1, Zenon
  <2>3. \A j \in 1 .. t : u[j] = All[q + j]
    BY <1>13, <2>1, Zenon
  <2>4. FirstMeant(o \o u, q + t)
    BY <1>3, <1>7, <2>2, <2>3, MeantGrows
  <2> QED
    BY <2>1, <2>4, Zenon
<1>16. FirstMeant(out', MeantInFront(k) + PartMeant(frames[k], m + t))
  <2>1. PartMeant(frames[k], m + t) = 1 + (m + t)
    BY <1>3 DEF PartMeant
  <2> QED
    BY <1>8, <1>11, <1>14, <1>15, <2>1, Zenon
<1> QED
  BY <1>1, <1>2, <1>4, <1>6, <1>16, PayloadKeepsInv

LEMMA UnknownKeepsInv ==
  ASSUME SocketInv, Unknown
  PROVE  SocketInv'
<1>1. PayloadTurn /\ flags = "PONG" /\ PayloadTaken /\ out' = out
  BY DEF Unknown
<1>2. PICK k \in 1 .. Len(frames) :
              /\ At(k) /\ InPayload(k) /\ frames[k] \in Frames /\ InFront(k) \in Nat
              /\ flags = frames[k].op /\ len8.masked = frames[k].masked
              /\ Ends(frames[k]) => due
  BY <1>1, PayloadAt
<1>3. frames[k].op = "PONG" /\ ~Ends(frames[k]) /\ frames \in Seq(Frames) /\ Passed(k)
  BY <1>1, <1>2 DEF Ends, SocketInv, SocketTypes, At
<1>4. PICK l \in 0 .. 255, h \in 2 .. 14, m \in 0 .. 255, t \in 0 .. 255 : TakenAt(k, l, h, m, t)
  BY <1>2, TakenIs
<1>5. PartMeant(frames[k], m) = 0 /\ PartMeant(frames[k], m + t) = 0 /\ MeantInFront(k) \in Nat
  BY <1>3, WholeMeant DEF PartMeant
<1>6. FirstMeant(out', MeantInFront(k) + PartMeant(frames[k], m + t))
  BY <1>1, <1>2, <1>3, <1>4, <1>5, OutBefore
<1> QED
  BY <1>1, <1>2, <1>3, <1>4, <1>6, PayloadKeepsInv

\* Where the function is stays the same if it does nothing.
LEMMA SameAt ==
  ASSUME NEW k, At(k),
         frames' = frames, looked' = looked, due' = due, out' = out, mask' = mask,
         frameCont' = frameCont, wsStatus' = wsStatus, flags' = flags, len8' = len8,
         frLen' = frLen, maskCtr' = maskCtr
  PROVE  At(k)'
<1>1. InFront(k)' = InFront(k) /\ MeantInFront(k)' = MeantInFront(k) /\ (Passed(k)' <=> Passed(k))
  BY FramesStay
<1>3. InHead(k) => InHead(k)'
  <2>1. OutIs(MeantInFront(k)) => OutIs(MeantInFront(k))'
    BY OutKept
  <2> QED
    BY <1>1, <2>1 DEF InHead
<1>4. InPayload(k) => InPayload(k)'
  <2>1. OutIs(MeantInFront(k)) => OutIs(MeantInFront(k))'
    BY OutKept
  <2>2. OutIs(MeantInFront(k) + PartMeant(frames[k], frames[k].len - frLen))
          => OutIs(MeantInFront(k) + PartMeant(frames[k], frames[k].len - frLen))'
    BY FramesStay, Zenon DEF OutIs, FirstMeant, PartMeant
  <2> QED
    BY <1>1, <2>1, <2>2, Zenon DEF InPayload, HeadBytes, MaskBytes, Ends
<1>5. k \in 1 .. Len(frames) /\ flags = frames[k].op => k \in 1 .. Len(frames') /\ flags' = frames'[k].op
  OBVIOUS
<1>6. LengthCode(frames[k])' = LengthCode(frames[k])
  BY DEF LengthCode
<1> QED
  BY <1>1, <1>3, <1>4, <1>5, <1>6, Zenon DEF At

\* The steps around the loop.
LEMMA SegmentKeepsInv ==
  ASSUME SocketInv, Segment
  PROVE  SocketInv'
<1>1. /\ SocketTypes /\ ~receiving /\ result = "MORE" /\ receiving' = TRUE
      /\ frames' = frames /\ looked' = looked /\ due' = due /\ result' = result /\ closes' = closes
      /\ closedHere' = closedHere /\ out' = out /\ mask' = mask /\ frameCont' = frameCont
      /\ wsStatus' = wsStatus /\ flags' = flags /\ len8' = len8 /\ frLen' = frLen /\ maskCtr' = maskCtr
  BY DEF SocketInv, Segment, frVars, privVars
<1>2. got' \in 0 .. Len(Stream) /\ looked' \in 0 .. got'
  <2>1. Len(Stream) \in Nat
    BY <1>1, StreamIs DEF SocketTypes
  <2> QED
    BY <1>1, <2>1 DEF Segment, SocketTypes
<1>3. SocketTypes'
  BY <1>1, <1>2, FramesStay DEF SocketTypes
<1>4. PICK k \in 1 .. Len(frames) + 1 : At(k)
  BY <1>1 DEF SocketInv
<1>5. At(k)'
  BY <1>1, <1>4, SameAt
<1>6. \E j \in 1 .. Len(frames') + 1 : At(j)'
  BY <1>1, <1>5
<1> QED
  BY <1>1, <1>3, <1>6 DEF SocketInv

LEMMA CloseHereKeepsInv ==
  ASSUME SocketInv, CloseHere
  PROVE  SocketInv'
<1>1. /\ SocketTypes /\ ~receiving /\ result = "MORE" /\ receiving' = receiving /\ got' = got
      /\ frames' = frames /\ looked' = looked /\ due' = due /\ result' = result /\ closes' = closes + 1
      /\ closedHere' = TRUE /\ ~closedHere /\ out' = out /\ mask' = mask /\ frameCont' = frameCont
      /\ wsStatus' = wsStatus /\ flags' = flags /\ len8' = len8 /\ frLen' = frLen /\ maskCtr' = maskCtr
  BY DEF SocketInv, CloseHere, frVars, privVars
<1>2. SocketTypes'
  BY <1>1, FramesStay DEF SocketTypes
<1>3. PICK k \in 1 .. Len(frames) + 1 : At(k)
  BY <1>1 DEF SocketInv
<1>4. At(k)'
  BY <1>1, <1>3, SameAt
<1>5. \E j \in 1 .. Len(frames') + 1 : At(j)'
  BY <1>1, <1>4
<1>6. closes = 0
  BY <1>1 DEF SocketInv
<1> QED
  BY <1>1, <1>2, <1>5, <1>6 DEF SocketInv

LEMMA SegmentDoneKeepsInv ==
  ASSUME SocketInv, SegmentDone
  PROVE  SocketInv'
<1>1. /\ SocketTypes /\ receiving' = FALSE /\ got' = got /\ ~due /\ receiving
      /\ frames' = frames /\ looked' = looked /\ due' = due /\ result' = result /\ closes' = closes
      /\ closedHere' = closedHere /\ out' = out /\ mask' = mask /\ frameCont' = frameCont
      /\ wsStatus' = wsStatus /\ flags' = flags /\ len8' = len8 /\ frLen' = frLen /\ maskCtr' = maskCtr
  BY DEF SocketInv, SegmentDone, frVars, privVars
<1>2. SocketTypes'
  BY <1>1, FramesStay DEF SocketTypes
<1>3. CASE result = "MORE"
  <2>1. PICK k \in 1 .. Len(frames) + 1 : At(k)
    BY <1>3 DEF SocketInv
  <2>2. At(k)'
    BY <1>1, <2>1, SameAt
  <2>3. \E j \in 1 .. Len(frames') + 1 : At(j)'
    BY <1>1, <2>2
  <2> QED
    BY <1>1, <1>2, <1>3, <2>3 DEF SocketInv
<1>4. CASE result = "DONE"
  BY <1>1, <1>2, <1>4, FramesStay DEF SocketInv
<1> QED
  BY <1>1, <1>3, <1>4 DEF SocketTypes

\* Every step keeps the invariant.
LEMMA SocketStep ==
  ASSUME SocketInv, [SocketNext]_socketVars
  PROVE  SocketInv'
<1>1. CASE SocketNext
  <2>1. \/ Segment \/ CloseHere \/ SegmentDone
        \/ Flags \/ Length0 \/ Length \/ Mask
        \/ Ping \/ PingTooLong \/ Receive \/ ReceiveUnmasked \/ Close \/ Unknown
    BY <1>1 DEF SocketNext, SocketTurn
  <2> QED
    BY <2>1, SegmentKeepsInv, CloseHereKeepsInv, SegmentDoneKeepsInv, FlagsKeepsInv,
       Length0KeepsInv, LengthKeepsInv, MaskKeepsInv, PingKeepsInv, PingTooLongKeepsInv,
       ReceiveKeepsInv, ReceiveUnmaskedKeepsInv, CloseKeepsInv, UnknownKeepsInv, Zenon
<1>2. CASE UNCHANGED socketVars
  <2>1. /\ frames' = frames /\ looked' = looked /\ due' = due /\ result' = result /\ closes' = closes
        /\ closedHere' = closedHere /\ out' = out /\ mask' = mask /\ frameCont' = frameCont
        /\ wsStatus' = wsStatus /\ flags' = flags /\ len8' = len8 /\ frLen' = frLen /\ maskCtr' = maskCtr
        /\ got' = got /\ receiving' = receiving
    BY <1>2 DEF socketVars, frVars, privVars
  <2>2. SocketTypes'
    BY <2>1, FramesStay DEF SocketInv, SocketTypes
  <2>3. CASE result = "MORE"
    <3>1. PICK k \in 1 .. Len(frames) + 1 : At(k)
      BY <2>3 DEF SocketInv
    <3>2. At(k)'
      BY <2>1, <3>1, SameAt
    <3>3. \E j \in 1 .. Len(frames') + 1 : At(j)'
      BY <2>1, <3>2
    <3> QED
      BY <2>1, <2>2, <2>3, <3>3 DEF SocketInv
  <2>4. CASE result = "DONE"
    BY <2>1, <2>2, <2>4, FramesStay DEF SocketInv
  <2> QED
    BY <2>3, <2>4 DEF SocketInv, SocketTypes
<1> QED
  BY <1>1, <1>2

\* In a frame the function has not seen the end of the stream.
LEMMA InFrameNotDone ==
  ASSUME SocketInv, NEW k \in 1 .. Len(frames), At(k), ~due
  PROVE  looked # Len(Stream)
<1>1. frames \in Seq(Frames)
  BY DEF SocketInv, SocketTypes
<1>2. k \in 1 .. Len(frames) + 1 /\ Len(Stream) \in Nat
  BY <1>1, StreamIs
<1>3. PICK i \in Nat : i = InFront(k)
  BY <1>1, <1>2, StreamIs
<1>4. PICK e \in {0, 2, 8}, q \in {0, 4}, l \in 0 .. 255 :
        e = frames[k].ext /\ q = MaskBytes(frames[k]) /\ l = frames[k].len
  BY <1>1, FrameSent, FrameIs
<1>5. HeadBytes(frames[k]) = 2 + e + q
  BY <1>4 DEF HeadBytes
<1>6. i + (2 + e + q + l) <= Len(Stream)
  <2>1. FrameBytes(frames[k]) = 2 + e + q + l
    BY <1>4, <1>5 DEF FrameBytes
  <2> QED
    BY <1>1, <1>3, <2>1, StreamIs
<1>7. PICK w \in 0 .. 14 : w = wsStatus
  BY DEF At
<1>8. CASE w = 14
  <2>1. frLen \in 0 .. l /\ frLen > 0 /\ looked = i + ((2 + e + q) + (l - frLen))
    BY <1>3, <1>4, <1>5, <1>7, <1>8 DEF At, InPayload
  <2>2. ~ (looked >= i + (2 + e + q + l))
    BY <2>1
  <2> QED
    BY <1>2, <1>6, <2>1, <2>2
<1>9. CASE w \in 0 .. 9
  <2>1. InHead(k)
    BY <1>7, <1>9 DEF At
  <2>2. looked = i + w
    BY <1>3, <1>7, <1>9, <2>1 DEF InHead
  <2>3. w \in 2 .. 9 => w - 2 < e
    BY <1>4, <1>7, <2>1 DEF InHead
  <2>4. i + w < i + (2 + e + q + l)
    BY <1>9, <2>3
  <2> QED
    BY <1>2, <1>6, <2>2, <2>4
<1>10. CASE w \in 10 .. 13
  <2>1. InHead(k)
    BY <1>7, <1>10 DEF At
  <2>2. frames[k].masked /\ looked = i + (2 + e + (w - 10))
    BY <1>3, <1>4, <1>7, <1>10, <2>1 DEF InHead
  <2>3. q = 4
    BY <1>4, <2>2 DEF MaskBytes
  <2>4. i + (2 + e + (w - 10)) < i + (2 + e + q + l)
    BY <1>10, <2>3
  <2> QED
    BY <1>2, <1>6, <2>2, <2>4
<1> QED
  BY <1>8, <1>9, <1>10

\* The first pieces of what is meant are a prefix of it; all of them are it.
LEMMA FirstMeantIs ==
  ASSUME frames \in Seq(Frames), NEW r, OutIs(r)
  PROVE  IsPrefix(out, All) /\ (r = Len(All) => out = All)
<1>1. All \in Seq(Pieces) /\ out \in Seq(Pieces) /\ Len(out) = r /\ r <= Len(All) /\ r \in Nat
      /\ \A n \in 1 .. r : out[n] = All[n]
  BY AllIs, LenProperties DEF OutIs, FirstMeant
<1>2. r = Len(All) => out = All
  BY <1>1, SeqEqual
<1>3. SubSeq(out, 1, r) = SubSeq(All, 1, r)
  <2>1. /\ SubSeq(out, 1, r) \in Seq(Pieces) /\ SubSeq(All, 1, r) \in Seq(Pieces)
        /\ Len(SubSeq(out, 1, r)) = r /\ Len(SubSeq(All, 1, r)) = r
        /\ \A n \in 1 .. r : SubSeq(out, 1, r)[n] = out[n] /\ SubSeq(All, 1, r)[n] = All[n]
    BY <1>1
  <2> QED
    BY <1>1, <2>1, SeqEqual
<1> QED
  BY <1>1, <1>2, <1>3 DEF IsPrefix

\* The invariant says what is checked.
LEMMA SocketInvMeans ==
  ASSUME SocketInv
  PROVE  SegmentsDoNotMatter /\ ClosedOnce
<1>1. SocketTypes /\ frames \in Seq(Frames) /\ result \in {"MORE", "DONE"} /\ "MORE" # "DONE"
  BY DEF SocketInv, SocketTypes
<1>2. ClosedOnce
  <2>1. closes <= 1 \/ ProtocolBroken
    BY <1>1 DEF SocketInv
  <2>2. result = "DONE" => closes > 0
    BY DEF SocketInv
  <2> QED
    BY <2>1, <2>2 DEF ClosedOnce, ProtocolBroken
<1>3. CASE result = "DONE"
  <2>1. out = All
    BY <1>3 DEF SocketInv
  <2>2. OutIs(Len(All))
    BY <1>1, <2>1, AllIs, LenProperties DEF OutIs, FirstMeant
  <2> QED
    BY <1>1, <1>2, <2>1, <2>2, FirstMeantIs DEF SegmentsDoNotMatter
<1>4. CASE result = "MORE"
  <2>1. PICK k \in 1 .. Len(frames) + 1 : At(k)
    BY <1>4 DEF SocketInv
  <2>2. \E r : OutIs(r)
    BY <2>1 DEF At, InHead, InPayload
  <2>3. ASSUME ~receiving, looked = Len(Stream)
        PROVE  out = All
    <3>1. ~due
      BY <1>1, <2>3 DEF SocketTypes
    <3>2. Len(frames) \in Nat
      BY <1>1, StreamIs
    <3>3. k = Len(frames) + 1
      BY <2>1, <2>3, <3>1, <3>2, InFrameNotDone
    <3>4. OutIs(MeantInFront(Len(frames) + 1))
      BY <2>1, <3>2, <3>3 DEF At, InHead
    <3>5. MeantInFront(Len(frames) + 1) = Len(All)
      BY <1>1, AllIs
    <3> QED
      BY <1>1, <3>4, <3>5, FirstMeantIs
  <2>4. IsPrefix(out, All)
    BY <1>1, <2>2, FirstMeantIs
  <2> QED
    BY <1>1, <1>2, <1>4, <2>3, <2>4 DEF SegmentsDoNotMatter
<1> QED
  BY <1>1, <1>3, <1>4

\* However a client's frames are cut into segments, the application gets their payloads and the
\* client its pongs, whole, in order and rightly unmasked, and the client gets one close frame
\* (cgiWebSocketRecv).
THEOREM WebsocketFrames == SocketSpec => [](SegmentsDoNotMatter /\ ClosedOnce)
<1>1. SocketInit => SocketInv
  BY InitSocketInv
<1>2. SocketInv /\ [SocketNext]_socketVars => SocketInv'
  BY SocketStep
<1>3. SocketInv => SegmentsDoNotMatter /\ ClosedOnce
  BY SocketInvMeans
<1> QED
  BY <1>1, <1>2, <1>3, PTL DEF SocketSpec

\* Frames mean the same however they are cut into segments, a websocket is closed with one close
\* frame, and the open ones are on the list (cgiwebsocket.c).
THEOREM WebsocketsAreRight == SocketSpec /\ ListSpec => []WebsocketsRight
<1>1. SegmentsDoNotMatter /\ ClosedOnce /\ ListIsRight => WebsocketsRight
  BY DEF WebsocketsRight
<1> QED
  BY <1>1, WebsocketFrames, WebsocketsListed, PTL
==============================================================================
