---------------------------- MODULE WifiScanProofs ----------------------------
(***************************************************************************)
(* The scan flag and the listings of WifiScan, for every set of            *)
(* connections and every number of access points and of scans.             *)
(*                                                                         *)
(* That an undisturbed listing comes out whole needs what it has sent so   *)
(* far: exactly the access points before its position, while no scan is    *)
(* going on (Listing).                                                     *)
(***************************************************************************)
EXTENDS WifiScan, SequenceTheorems, TLAPS

\* A listing in which nothing has happened.
Listing ==
  \A c \in Conns : state[c] = "listing" /\ steady[c] =>
    /\ ~inProgress
    /\ pos[c] >= 1
    /\ pos[c] <= aps.n \/ (pos[c] = 1 /\ aps.n = 0)
    /\ out[c] = Listed(pos[c] - 1)

IInv ==
  /\ ScanTypeOK
  /\ ScanFlagTrue
  /\ Listing
  /\ ListingComplete

\* The pieces are well typed.
LEMMA PieceTypes ==
  /\ Http \in Piece /\ Busy \in Piece /\ Open \in Piece /\ Close \in Piece
  /\ ScanTypeOK => \A i \in Nat : Entry(i) \in Piece
<1>1. Http \in Piece /\ Busy \in Piece /\ Open \in Piece /\ Close \in Piece
  BY DEF Http, Busy, Open, Close, Piece
<1>2. ASSUME ScanTypeOK, NEW i \in Nat
      PROVE  Entry(i) \in Piece
  BY <1>2 DEF ScanTypeOK, Entry, Piece
<1> QED
  BY <1>1, <1>2

\* A list grows by its next access point.
LEMMA ListedGrows ==
  ASSUME ScanTypeOK, NEW k \in Nat
  PROVE  Append(Listed(k), Entry(k + 1)) = Listed(k + 1)
<1> DEFINE s == Append(Listed(k), Entry(k + 1))
           t == Listed(k + 1)
<1>1. Listed(k) = [i \in 1 .. k + 2 |-> IF i = 1 THEN Http ELSE IF i = 2 THEN Open ELSE Entry(i - 2)]
  BY DEF Listed, Entry
<1>2. t = [i \in 1 .. (k + 1) + 2 |-> IF i = 1 THEN Http ELSE IF i = 2 THEN Open ELSE Entry(i - 2)]
  BY DEF Listed, Entry
<1>3. \A i \in 1 .. k + 2 : Listed(k)[i] \in Piece
  BY <1>1, PieceTypes
<1>4. Listed(k) \in Seq(Piece) /\ Len(Listed(k)) = k + 2
  BY <1>1, <1>3
<1>5. \A i \in 1 .. k + 3 : s[i] = t[i]
  BY <1>1, <1>2, <1>4, PieceTypes
<1>6. s = [i \in 1 .. k + 3 |-> s[i]]
  BY <1>4, PieceTypes
<1> QED
  BY <1>2, <1>5, <1>6

\* The empty list, as a request opens it.
LEMMA ListedNone == Listed(0) = <<Http, Open>>
BY DEF Listed

\* Initially no connection has a response.
LEMMA InitInv == ScanInit => IInv
<1> SUFFICES ASSUME ScanInit PROVE IInv
  OBVIOUS
<1>1. ScanTypeOK
  <2>1. 0 \in 0 .. MaxAps
    BY ScanAssumption
  <2>2. <<>> \in Seq(Piece)
    BY EmptySeq
  <2> QED
    BY <2>1, <2>2 DEF ScanInit, ScanTypeOK
<1> QED
  BY <1>1 DEF ScanInit, IInv, ScanFlagTrue, Listing, ListingComplete
----------------------------------------------------------------------------
\* A scan that is asked for leaves the state typed.
LEMMA StartScanTypes ==
  ASSUME ScanTypeOK, StartScan
  PROVE  inProgress' = TRUE /\ aps' = aps /\ scans' \in Nat /\ refused' \in BOOLEAN
<1>1. inProgress' = TRUE /\ aps' = aps /\ SdkScan
  BY DEF StartScan
<1>2. scans' \in {scans, scans + 1} /\ refused' \in BOOLEAN
  BY <1>1 DEF SdkScan
<1> QED
  BY <1>1, <1>2 DEF ScanTypeOK

\* What a call for connection c leaves of the state of the others, and of the scan.
CallStep(c) ==
  /\ staOn' = staOn /\ aps' = aps
  /\ UNCHANGED <<inProgress, scans, refused>> \/ (~inProgress /\ StartScan)
  /\ \A d \in Conns \ {c} : state'[d] = state[d] /\ pos'[d] = pos[d] /\ out'[d] = out[d]
  /\ \A d \in Conns \ {c} : steady'[d] = (steady[d] /\ inProgress' = inProgress)
  /\ steady'[c] = (state[c] # "listing" \/ steady[c])

\* What it makes of the state of c: nothing to list, or a listing that is right if it
\* was not disturbed.
OwnStep(c) ==
  /\ state'[c] = "listing" /\ steady'[c] =>
       /\ ~inProgress'
       /\ pos'[c] >= 1
       /\ pos'[c] <= aps.n \/ (pos'[c] = 1 /\ aps.n = 0)
       /\ out'[c] = Listed(pos'[c] - 1)
  /\ state'[c] = "done" /\ steady'[c] =>
       out'[c] \in {<<Http, Busy>>, Append(Listed(aps.n), Close)}

\* Such a call keeps the invariant.
LEMMA CallKeeps ==
  ASSUME IInv, NEW c \in Conns, CallStep(c), OwnStep(c), ScanTypeOK'
  PROVE  IInv'
<1>1. ScanFlagTrue'
  <2>1. CASE UNCHANGED <<inProgress, scans, refused>>
    BY <2>1 DEF IInv, ScanFlagTrue
  <2>2. CASE ~inProgress /\ StartScan
    <3>1. scans = 0 /\ inProgress' = TRUE
      BY <2>2 DEF IInv, ScanFlagTrue, ScanTypeOK, StartScan
    <3>2. PICK started \in BOOLEAN : /\ scans' = IF started THEN scans + 1 ELSE scans
                                     /\ refused' = ~started
      BY <2>2 DEF StartScan, SdkScan
    <3>3. CASE started
      <4>1. refused' = FALSE
        BY <3>2, <3>3, Zenon
      <4>2. scans' = scans + 1
        BY <3>2, <3>3, Zenon
      <4> QED
        BY <3>1, <4>1, <4>2 DEF ScanFlagTrue
    <3>4. CASE ~started
      <4>1. scans' = 0 /\ refused' = TRUE
        BY <3>1, <3>2, <3>4, Zenon
      <4> QED
        BY <3>1, <4>1 DEF ScanFlagTrue
    <3> QED
      BY <3>3, <3>4
  <2> QED
    BY <2>1, <2>2 DEF CallStep
<1>2. \A k \in Nat : Listed(k)' = Listed(k)
  BY DEF Listed, Entry, CallStep, Http, Open
<1>3. \A d \in Conns : pos'[d] \in Nat /\ pos[d] \in Nat /\ aps.n \in Nat
  BY ScanAssumption DEF IInv, ScanTypeOK
<1>4. ASSUME NEW d \in Conns, d # c, steady'[d]
      PROVE  /\ steady[d] /\ inProgress' = inProgress
             /\ state'[d] = state[d] /\ pos'[d] = pos[d] /\ out'[d] = out[d]
  BY <1>4 DEF CallStep
<1>5. Listing'
  <2> SUFFICES ASSUME NEW d \in Conns, state'[d] = "listing", steady'[d]
               PROVE  /\ ~inProgress'
                      /\ pos'[d] >= 1
                      /\ pos'[d] <= aps'.n \/ (pos'[d] = 1 /\ aps'.n = 0)
                      /\ out'[d] = Listed(pos[d] - 1)'
    BY DEF Listing
  <2>1. aps' = aps
    BY DEF CallStep
  <2>2. /\ ~inProgress'
        /\ pos'[d] >= 1
        /\ pos'[d] <= aps.n \/ (pos'[d] = 1 /\ aps.n = 0)
        /\ out'[d] = Listed(pos'[d] - 1)
    <3>1. CASE d = c
      BY <3>1 DEF OwnStep
    <3>2. CASE d # c
      <4>1. /\ steady[d] /\ inProgress' = inProgress
            /\ state[d] = "listing" /\ pos'[d] = pos[d] /\ out'[d] = out[d]
        BY <1>4, <3>2
      <4> QED
        BY <4>1 DEF IInv, Listing
    <3> QED
      BY <3>1, <3>2
  <2>3. pos'[d] - 1 \in Nat
    BY <1>3, <2>2
  <2> QED
    BY <1>2, <2>1, <2>2, <2>3
<1>6. ListingComplete'
  <2> SUFFICES ASSUME NEW d \in Conns, state'[d] = "done", steady'[d]
               PROVE  out'[d] \in {<<Http, Busy>>, Append(Listed(aps.n)', Close)}
    BY DEF ListingComplete, Http, Busy, Close
  <2>1. out'[d] \in {<<Http, Busy>>, Append(Listed(aps.n), Close)}
    <3>1. CASE d = c
      BY <3>1 DEF OwnStep
    <3>2. CASE d # c
      BY <1>4, <3>2 DEF IInv, ListingComplete
    <3> QED
      BY <3>1, <3>2
  <2>2. aps' = aps /\ aps.n \in Nat
    BY <1>3 DEF CallStep
  <2> QED
    BY <1>2, <2>1, <2>2
<1> QED
  BY <1>1, <1>5, <1>6 DEF IInv
----------------------------------------------------------------------------
\* The first part of cgiWiFiScan, for a request or in a disturbed listing.
LEMMA BeginStep ==
  ASSUME IInv, NEW c \in Conns, NEW STATE before, before \in Seq(Piece),
         NEW STATE p, p \in 0 .. MaxAps, Begin(c, before, p), staOn' = staOn, SteadyAfter(c),
         before = <<>> \/ (state[c] = "listing" /\ inProgress)
  PROVE  IInv'
<1> USE DEF IInv, ScanTypeOK
<1>1. 1 \in 0 .. MaxAps /\ aps.n \in Nat
  BY ScanAssumption
<1>2. before \o <<Http, Busy>> \in Seq(Piece) /\ before \o <<Http, Open>> \in Seq(Piece)
  BY PieceTypes
<1>3. steady' = [d \in Conns |-> IF d = c THEN state[c] # "listing" \/ steady[c]
                                            ELSE steady[d] /\ inProgress' = inProgress]
  BY DEF SteadyAfter
<1>4. steady' \in [Conns -> BOOLEAN]
  BY <1>3
<1>5. steady'[c] /\ state[c] = "listing" => steady[c]
  BY <1>3
<1>6. CASE inProgress
  <2>1. /\ out' = [out EXCEPT ![c] = before \o <<Http, Busy>>]
        /\ pos' = [pos EXCEPT ![c] = p]
        /\ state' = [state EXCEPT ![c] = "done"]
        /\ UNCHANGED scanVars
    BY <1>6 DEF Begin
  <2>2. ScanTypeOK'
    BY <1>2, <1>4, <2>1 DEF scanVars
  <2>3. CallStep(c)
    BY <1>3, <2>1 DEF CallStep, scanVars
  <2>4. state[c] = "listing" => ~steady[c]
    BY <1>6 DEF Listing
  <2>5. OwnStep(c)
    <3>1. CASE state[c] = "listing"
      BY <1>5, <2>1, <2>4, <3>1 DEF OwnStep
    <3>2. CASE before = <<>>
      <4>1. before \o <<Http, Busy>> = <<Http, Busy>>
        BY <3>2
      <4> QED
        BY <2>1, <4>1 DEF OwnStep
    <3> QED
      BY <3>1, <3>2
  <2> QED
    BY <2>2, <2>3, <2>5, CallKeeps
<1>7. CASE ~inProgress
  <2>1. /\ out' = [out EXCEPT ![c] = before \o <<Http, Open>>]
        /\ pos' = [pos EXCEPT ![c] = 1]
        /\ state' = [state EXCEPT ![c] = "listing"]
        /\ UNCHANGED scanVars
    BY <1>7 DEF Begin
  <2>2. ScanTypeOK'
    BY <1>1, <1>2, <1>4, <2>1 DEF scanVars
  <2>3. CallStep(c)
    BY <1>3, <2>1 DEF CallStep, scanVars
  <2>4. before \o <<Http, Open>> = Listed(0)
    <3>1. before = <<>>
      BY <1>7
    <3>2. before \o <<Http, Open>> = <<Http, Open>>
      BY <3>1
    <3> QED
      BY <3>2, ListedNone
  <2>5. out'[c] = Listed(1 - 1) /\ pos'[c] = 1 /\ ~inProgress' /\ state'[c] = "listing"
    <3>1. out'[c] = Listed(0)
      BY <2>1, <2>4
    <3>2. pos'[c] = 1 /\ state'[c] = "listing"
      BY <2>1
    <3>3. ~inProgress'
      BY <1>7, <2>1 DEF scanVars
    <3>4. 1 - 1 = 0
      OBVIOUS
    <3> QED
      BY <3>1, <3>2, <3>3, <3>4
  <2>6. OwnStep(c)
    BY <1>1, <2>5 DEF OwnStep
  <2> QED
    BY <2>2, <2>3, <2>6, CallKeeps
<1> QED
  BY <1>6, <1>7

\* The next access point of a listing, or its end.
LEMMA ListStep ==
  ASSUME IInv, NEW c \in Conns, state[c] = "listing", ~inProgress, ListNext(c),
         staOn' = staOn, SteadyAfter(c)
  PROVE  IInv'
<1> USE DEF IInv, ScanTypeOK
<1>1. /\ pos[c] \in Nat /\ aps.n \in 0 .. MaxAps /\ MaxAps \in Nat /\ out[c] \in Seq(Piece)
      /\ Entry(pos[c]) \in Piece /\ Close \in Piece
  BY ScanAssumption, PieceTypes
<1>2. steady' = [d \in Conns |-> IF d = c THEN state[c] # "listing" \/ steady[c]
                                            ELSE steady[d] /\ inProgress' = inProgress]
  BY DEF SteadyAfter
<1>3. steady' \in [Conns -> BOOLEAN] /\ (steady'[c] => steady[c])
  BY <1>2
<1>4. steady[c] => /\ pos[c] >= 1
                   /\ pos[c] <= aps.n \/ (pos[c] = 1 /\ aps.n = 0)
                   /\ out[c] = Listed(pos[c] - 1)
  BY DEF Listing
<1>5. ASSUME steady[c]
      PROVE  Append(out[c], Entry(pos[c])) = Listed(pos[c])
  <2>1. pos[c] - 1 \in Nat
    BY <1>1, <1>4, <1>5
  <2>2. Append(Listed(pos[c] - 1), Entry((pos[c] - 1) + 1)) = Listed((pos[c] - 1) + 1)
    BY <2>1, ListedGrows
  <2>3. (pos[c] - 1) + 1 = pos[c]
    BY <1>1
  <2> QED
    BY <1>4, <1>5, <2>2, <2>3
<1>6. CASE ~AtEnd(pos[c])
  <2>1. /\ out' = [out EXCEPT ![c] = Append(out[c], Entry(pos[c]))]
        /\ pos' = [pos EXCEPT ![c] = pos[c] + 1]
        /\ UNCHANGED <<state, scanVars>>
    BY <1>6 DEF ListNext
  <2>2. pos[c] < aps.n /\ pos[c] + 1 \in 0 .. MaxAps
    BY <1>1, <1>6 DEF AtEnd
  <2>3. Append(out[c], Entry(pos[c])) \in Seq(Piece)
    BY <1>1
  <2>4. ScanTypeOK'
    BY <1>3, <2>1, <2>2, <2>3 DEF scanVars
  <2>5. CallStep(c)
    BY <1>2, <2>1 DEF CallStep, scanVars
  <2>6. OwnStep(c)
    <3>1. out'[c] = Append(out[c], Entry(pos[c])) /\ pos'[c] = pos[c] + 1 /\ ~inProgress' /\ state'[c] # "done"
      BY <2>1 DEF scanVars
    <3>2. pos'[c] >= 1 /\ pos'[c] <= aps.n /\ pos'[c] - 1 = pos[c]
      <4>1. pos'[c] = pos[c] + 1
        BY <3>1
      <4> HIDE DEF IInv, ScanTypeOK
      <4> QED
        BY <1>1, <2>2, <4>1
    <3>3. steady'[c] => out'[c] = Listed(pos'[c] - 1)
      <4> HIDE DEF IInv, ScanTypeOK
      <4> QED
        BY <1>3, <1>5, <3>1, <3>2
    <3> HIDE DEF IInv, ScanTypeOK
    <3> QED
      BY <3>1, <3>2, <3>3 DEF OwnStep
  <2> QED
    BY <2>4, <2>5, <2>6, CallKeeps
<1>7. CASE AtEnd(pos[c])
  <2> DEFINE text == IF pos[c] = aps.n THEN Append(out[c], Entry(pos[c])) ELSE out[c]
  <2>1. /\ out' = [out EXCEPT ![c] = Append(text, Close)]
        /\ state' = [state EXCEPT ![c] = "done"]
        /\ StartScan
        /\ UNCHANGED pos
    BY <1>7 DEF ListNext
  <2>2. text \in Seq(Piece) /\ Append(text, Close) \in Seq(Piece)
    BY <1>1
  <2>3. ScanTypeOK'
    <3>1. inProgress' = TRUE /\ aps' = aps /\ scans' \in Nat /\ refused' \in BOOLEAN
      BY <2>1, StartScanTypes
    <3> HIDE DEF text
    <3> QED
      BY <1>3, <2>1, <2>2, <3>1
  <2>4. CallStep(c)
    BY <1>2, <2>1 DEF CallStep, StartScan
  <2>5. OwnStep(c)
    <3>1. ASSUME steady[c]
          PROVE  text = Listed(aps.n)
      <4>1. pos[c] >= aps.n
        BY <1>7 DEF AtEnd
      <4>2. CASE pos[c] = aps.n
        BY <1>5, <3>1, <4>2
      <4>3. CASE pos[c] # aps.n
        <5>1. pos[c] = 1 /\ aps.n = 0
          BY <1>1, <1>4, <3>1, <4>1, <4>3
        <5>2. out[c] = Listed(1 - 1)
          BY <1>4, <3>1, <5>1
        <5> QED
          BY <4>3, <5>1, <5>2
      <4> QED
        BY <4>2, <4>3
    <3> HIDE DEF text
    <3>2. out'[c] = Append(text, Close) /\ state'[c] = "done"
      BY <2>1
    <3> QED
      BY <1>3, <3>1, <3>2 DEF OwnStep
  <2> QED
    BY <2>3, <2>4, <2>5, CallKeeps
<1> QED
  BY <1>6, <1>7

\* A connection closes.
LEMMA DisconStep ==
  ASSUME IInv, NEW c \in Conns, DisconCb(c)
  PROVE  IInv'
<1> USE DEF IInv, ScanTypeOK
<1>1. 0 \in 0 .. MaxAps /\ <<>> \in Seq(Piece)
  BY ScanAssumption, EmptySeq
<1>2. /\ UNCHANGED scanVars \/ (~inProgress /\ StartScan)
      /\ state' = [state EXCEPT ![c] = "idle"]
      /\ pos' = [pos EXCEPT ![c] = 0]
      /\ out' = [out EXCEPT ![c] = <<>>]
      /\ steady' = [d \in Conns |-> IF d = c THEN state[c] # "listing" \/ steady[c]
                                               ELSE steady[d] /\ inProgress' = inProgress]
      /\ staOn' = staOn
  BY DEF DisconCb, SteadyAfter
<1>3. steady' \in [Conns -> BOOLEAN]
  BY <1>2
<1>4. ScanTypeOK'
  <2>1. inProgress' \in BOOLEAN /\ scans' \in Nat /\ refused' \in BOOLEAN /\ aps' = aps
    <3>1. CASE UNCHANGED scanVars
      BY <3>1 DEF scanVars
    <3>2. CASE StartScan
      BY <3>2, StartScanTypes
    <3> QED
      BY <1>2, <3>1, <3>2
  <2>2. /\ state' \in [Conns -> {"idle", "listing", "done"}]
        /\ pos' \in [Conns -> 0 .. MaxAps]
        /\ out' \in [Conns -> Seq(Piece)]
    BY <1>1, <1>2
  <2> QED
    BY <1>2, <1>3, <2>1, <2>2
<1>5. CallStep(c)
  BY <1>2 DEF CallStep, scanVars, StartScan
<1>6. OwnStep(c)
  BY <1>2 DEF OwnStep
<1> QED
  BY <1>4, <1>5, <1>6, CallKeeps

\* A scan is done; no listing counts as undisturbed any more.
LEMMA ScanDoneStep ==
  ASSUME IInv, ScanDone
  PROVE  IInv'
<1>1. /\ steady' = [c \in Conns |-> FALSE] /\ inProgress' = FALSE /\ scans' = scans - 1 /\ scans = 1
      /\ refused' = refused
  BY DEF IInv, ScanTypeOK, ScanFlagTrue, ScanDone
<1>2. aps' \in [scan : Nat, n : 0 .. MaxAps]
  BY DEF IInv, ScanTypeOK, ScanDone, NewAps
<1>3. ScanTypeOK'
  <2>1. scans' \in Nat
    BY <1>1
  <2>2. inProgress' \in BOOLEAN /\ steady' \in [Conns -> BOOLEAN]
    BY <1>1
  <2>3. UNCHANGED <<staOn, refused, state, pos, out>>
    BY DEF ScanDone, connVars
  <2> QED
    BY <1>2, <2>1, <2>2, <2>3 DEF IInv, ScanTypeOK
<1>4. ScanFlagTrue'
  <2>1. refused = FALSE
    BY <1>1 DEF IInv, ScanFlagTrue, ScanTypeOK
  <2> QED
    BY <1>1, <2>1 DEF ScanFlagTrue
<1>5. Listing' /\ ListingComplete'
  BY <1>1 DEF Listing, ListingComplete
<1> QED
  BY <1>3, <1>4, <1>5 DEF IInv

\* A change of the mode leaves the scan and the listings alone.
LEMMA ModeStep ==
  ASSUME IInv, staOn' \in BOOLEAN, UNCHANGED <<scanVars, connVars, steady>>
  PROVE  IInv'
<1>1. /\ inProgress' = inProgress /\ aps' = aps /\ scans' = scans /\ refused' = refused
      /\ state' = state /\ pos' = pos /\ out' = out /\ steady' = steady
  BY DEF scanVars, connVars
<1>2. ScanTypeOK' /\ ScanFlagTrue'
  BY <1>1 DEF IInv, ScanTypeOK, ScanFlagTrue
<1>3. \A k \in Nat : Listed(k)' = Listed(k)
  BY <1>1 DEF Listed, Entry, Http, Open
<1>4. aps.n \in Nat /\ \A c \in Conns : pos[c] \in Nat
  BY ScanAssumption DEF IInv, ScanTypeOK
<1>5. Listing'
  <2> SUFFICES ASSUME NEW c \in Conns, state[c] = "listing", steady[c]
               PROVE  /\ ~inProgress
                      /\ pos[c] >= 1
                      /\ pos[c] <= aps.n \/ (pos[c] = 1 /\ aps.n = 0)
                      /\ out[c] = Listed(pos[c] - 1)'
    BY <1>1 DEF Listing
  <2>1. /\ ~inProgress
        /\ pos[c] >= 1
        /\ pos[c] <= aps.n \/ (pos[c] = 1 /\ aps.n = 0)
        /\ out[c] = Listed(pos[c] - 1)
    BY DEF IInv, Listing
  <2>2. pos[c] - 1 \in Nat
    BY <1>4, <2>1
  <2> QED
    BY <1>1, <1>3, <2>1, <2>2
<1>6. ListingComplete'
  BY <1>1, <1>3, <1>4 DEF IInv, ListingComplete, Http, Busy, Close
<1> QED
  BY <1>2, <1>5, <1>6 DEF IInv

\* A connection that breaks has no listing any more.
LEMMA ReconStep ==
  ASSUME IInv, NEW c \in Conns, ReconCb(c)
  PROVE  IInv'
<1>1. /\ state' = [state EXCEPT ![c] = "idle"] /\ pos' = [pos EXCEPT ![c] = 0]
      /\ out' = [out EXCEPT ![c] = <<>>] /\ steady' = steady
      /\ UNCHANGED <<staOn, inProgress, aps, scans, refused>>
  BY DEF ReconCb, scanVars
<1>2. 0 \in 0 .. MaxAps /\ <<>> \in Seq(Piece)
  BY ScanAssumption, EmptySeq
<1>3. ScanTypeOK' /\ ScanFlagTrue'
  BY <1>1, <1>2 DEF IInv, ScanTypeOK, ScanFlagTrue
<1>4. \A k \in Nat : Listed(k)' = Listed(k)
  BY <1>1 DEF Listed, Entry, Http, Open
<1>5. \A d \in Conns : state'[d] # "idle" =>
        /\ d # c /\ state'[d] = state[d] /\ pos'[d] = pos[d] /\ out'[d] = out[d]
  BY <1>1 DEF IInv, ScanTypeOK
<1>6. aps.n \in Nat /\ \A d \in Conns : pos[d] \in Nat
  BY ScanAssumption DEF IInv, ScanTypeOK
<1>7. Listing'
  <2> SUFFICES ASSUME NEW d \in Conns, state'[d] = "listing", steady'[d]
               PROVE  /\ ~inProgress'
                      /\ pos'[d] >= 1
                      /\ pos'[d] <= aps'.n \/ (pos'[d] = 1 /\ aps'.n = 0)
                      /\ out'[d] = Listed(pos[d] - 1)'
    BY DEF Listing
  <2>1. state[d] = "listing" /\ steady[d] /\ pos'[d] = pos[d] /\ out'[d] = out[d]
    BY <1>1, <1>5
  <2>2. /\ ~inProgress
        /\ pos[d] >= 1
        /\ pos[d] <= aps.n \/ (pos[d] = 1 /\ aps.n = 0)
        /\ out[d] = Listed(pos[d] - 1)
    BY <2>1 DEF IInv, Listing
  <2>3. pos[d] - 1 \in Nat
    BY <1>6, <2>2
  <2> QED
    BY <1>1, <1>4, <2>1, <2>2, <2>3
<1>8. ListingComplete'
  BY <1>1, <1>4, <1>5, <1>6 DEF IInv, ListingComplete, Http, Busy, Close
<1> QED
  BY <1>3, <1>7, <1>8 DEF IInv

\* A restart leaves no scan and no connection.
LEMMA RestartStep ==
  ASSUME IInv, RestartChip
  PROVE  IInv'
<1>1. ScanTypeOK'
  <2>1. 0 \in 0 .. MaxAps /\ <<>> \in Seq(Piece)
    BY ScanAssumption, EmptySeq
  <2> QED
    BY <2>1 DEF RestartChip, ScanTypeOK
<1> QED
  BY <1>1 DEF RestartChip, IInv, ScanFlagTrue, Listing, ListingComplete

\* Every step keeps the invariant.
LEMMA StepInv == IInv /\ [ScanNext]_wifiVars => IInv'
<1> SUFFICES ASSUME IInv, [ScanNext]_wifiVars
             PROVE  IInv'
  OBVIOUS
<1>1. CASE ScanDone
  BY <1>1, ScanDoneStep
<1>2. ASSUME NEW c \in Conns, Request(c)
      PROVE  IInv'
  <2>1. <<>> \in Seq(Piece) /\ 0 \in 0 .. MaxAps
    BY ScanAssumption, EmptySeq
  <2>2. Begin(c, <<>>, 0) /\ SteadyAfter(c) /\ staOn' = staOn
    BY <1>2 DEF Request
  <2> QED
    BY <2>1, <2>2, BeginStep
<1>3. ASSUME NEW c \in Conns, SentCb(c)
      PROVE  IInv'
  <2>1. out[c] \in Seq(Piece) /\ pos[c] \in 0 .. MaxAps
    BY DEF IInv, ScanTypeOK
  <2>2. state[c] = "listing" /\ SteadyAfter(c) /\ staOn' = staOn
    BY <1>3 DEF SentCb
  <2>3. CASE inProgress
    <3>1. Begin(c, out[c], pos[c])
      BY <1>3, <2>3 DEF SentCb
    <3> QED
      BY <2>1, <2>2, <2>3, <3>1, BeginStep
  <2>4. CASE ~inProgress
    <3>1. ListNext(c)
      BY <1>3, <2>4 DEF SentCb
    <3> QED
      BY <2>2, <2>4, <3>1, ListStep
  <2> QED
    BY <2>3, <2>4
<1>4. ASSUME NEW c \in Conns, DisconCb(c)
      PROVE  IInv'
  BY <1>4, DisconStep
<1>5. ASSUME NEW c \in Conns, ReconCb(c)
      PROVE  IInv'
  BY <1>5, ReconStep
<1>6. CASE EnableStation \/ ChangeMode \/ UNCHANGED wifiVars
  <2>1. staOn' \in BOOLEAN /\ UNCHANGED <<scanVars, connVars, steady>>
    BY <1>6 DEF EnableStation, ChangeMode, wifiVars, IInv, ScanTypeOK
  <2> QED
    BY <2>1, ModeStep
<1>7. CASE RestartChip
  BY <1>7, RestartStep
<1> QED
  BY <1>1, <1>2, <1>3, <1>4, <1>5, <1>6, <1>7 DEF ScanNext

----------------------------------------------------------------------------
\* The inductive invariant.
THEOREM ScanInvariant == ScanSpec => []IInv
BY InitInv, StepInv, PTL DEF ScanSpec

\* Every state is well typed; a position is never beyond the most access points seen.
THEOREM ScanTypes == ScanSpec => []ScanTypeOK
<1>1. IInv => ScanTypeOK
  BY DEF IInv
<1> QED
  BY <1>1, ScanInvariant, PTL

\* For any number of connections, in every mode and through changes of it: the SDK never
\* makes two scans at a time, and the flag is set exactly while it makes one or after it
\* has refused one (cgiwifi.c, wifiStartScan and wifiScanDoneCb).
THEOREM ScanFlag == ScanSpec => []ScanFlagTrue
<1>1. IInv => ScanFlagTrue
  BY DEF IInv
<1> QED
  BY <1>1, ScanInvariant, PTL

\* An undisturbed listing is complete, whatever other connections do meanwhile.
THEOREM ScanListsAll == ScanSpec => []ListingComplete
<1>1. IInv => ListingComplete
  BY DEF IInv
<1> QED
  BY <1>1, ScanInvariant, PTL
=============================================================================
