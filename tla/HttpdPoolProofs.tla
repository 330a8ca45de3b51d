--------------------------- MODULE HttpdPoolProofs ---------------------------
(***************************************************************************)
(* The safety properties of HttpdPool, for every number of slots, every    *)
(* finite set of endpoints and every number of connections.                *)
(*                                                                         *)
(* The inductive invariant is the conjunction of the properties: the       *)
(* accounting says that a registered endpoint owns a slot (so a disconnect *)
(* frees one) and, without aborts, at most one (so a full pool would need  *)
(* as many connections as slots, which the SDK's limit excludes).          *)
(***************************************************************************)
EXTENDS HttpdPool, FiniteSetTheorems, TLAPS

IInv ==
  /\ PoolTypeOK
  /\ SlotAccounting
  /\ ServedFromOwnSlot
  /\ OverflowNeedsAbort

\* The slots are MaxSlots many; the slots of an endpoint are finitely many.
LEMMA SlotsFinite ==
  /\ IsFiniteSet(Slots)
  /\ Cardinality(Slots) = MaxSlots
  /\ \A p \in Peers : IsFiniteSet(SlotsOf(p)) /\ Cardinality(SlotsOf(p)) \in Nat
<1>1. IsFiniteSet(Slots) /\ Cardinality(Slots) = MaxSlots
  <2>1. MaxSlots - 1 \in Int /\ 0 \in Int
    BY PoolAssumption
  <2>2. IsFiniteSet(0 .. MaxSlots - 1)
        /\ Cardinality(0 .. MaxSlots - 1) = IF 0 > MaxSlots - 1 THEN 0 ELSE MaxSlots - 1 - 0 + 1
    BY <2>1, FS_Interval
  <2> QED
    BY <2>2, PoolAssumption DEF Slots
<1>2. ASSUME NEW p \in Peers
      PROVE  IsFiniteSet(SlotsOf(p)) /\ Cardinality(SlotsOf(p)) \in Nat
  <2>1. SlotsOf(p) \subseteq Slots
    BY DEF SlotsOf
  <2>2. IsFiniteSet(SlotsOf(p))
    BY <2>1, <1>1, FS_Subset
  <2> QED
    BY <2>2, FS_CardinalityType
<1> QED
  BY <1>1, <1>2

\* Two different slots of an endpoint make at least two.
LEMMA TwoSlots ==
  ASSUME NEW p \in Peers, NEW i \in SlotsOf(p), NEW j \in SlotsOf(p), i # j
  PROVE  Cardinality(SlotsOf(p)) >= 2
<1> DEFINE R == SlotsOf(p) \ {i}
<1>1. IsFiniteSet(SlotsOf(p))
  BY SlotsFinite
<1>2. IsFiniteSet(R) /\ Cardinality(R) = Cardinality(SlotsOf(p)) - 1
  BY <1>1, FS_RemoveElement
<1>3. Cardinality(R) # 0
  <2>1. R # {}
    OBVIOUS
  <2> QED
    BY <2>1, <1>2, FS_EmptySet
<1>4. Cardinality(R) \in Nat /\ Cardinality(SlotsOf(p)) \in Nat
  BY <1>1, <1>2, FS_CardinalityType
<1> QED
  BY <1>2, <1>3, <1>4

\* A full pool although the SDK still had room for a connection: some endpoint has
\* two slots or a slot without a connection, so one of its connections broke.
LEMMA FullPoolNeedsAbort ==
  ASSUME PoolTypeOK, SlotAccounting, Cardinality(SdkConnections) < MaxSlots,
         \A i \in Slots : pool[i] # None
  PROVE  \E p \in Peers : aborts[p] > 0
<1> SUFFICES ASSUME \A p \in Peers : aborts[p] = 0
             PROVE  FALSE
  BY DEF PoolTypeOK
<1> DEFINE f == [i \in Slots |-> pool[i].peer]
<1>1. ASSUME NEW i \in Slots
      PROVE  pool[i].peer \in Peers /\ i \in SlotsOf(pool[i].peer)
  BY DEF PoolTypeOK, Entry, SlotsOf
<1>2. ASSUME NEW i \in Slots
      PROVE  Registered(pool[i].peer)
  <2>1. SlotsOf(pool[i].peer) # {} /\ pool[i].peer \in Peers
    BY <1>1
  <2>2. Cardinality(SlotsOf(pool[i].peer)) # 0
    BY <2>1, SlotsFinite, FS_EmptySet
  <2> QED
    BY <2>1, <2>2 DEF SlotAccounting
<1>3. f \in [Slots -> SdkConnections]
  BY <1>1, <1>2 DEF SdkConnections, Registered
<1>4. IsFiniteSet(SdkConnections)
  <2>1. SdkConnections \subseteq Peers
    BY DEF SdkConnections
  <2> QED
    BY <2>1, PoolAssumption, FS_Subset
<1>5. PICK i \in Slots, j \in Slots : i # j /\ f[i] = f[j]
  <2>1. IsFiniteSet(Slots) /\ Cardinality(SdkConnections) < Cardinality(Slots)
    BY SlotsFinite
  <2> HIDE DEF f
  <2>2. \E x, y \in Slots : x # y /\ f[x] = f[y]
    BY ONLY <1>3, <1>4, <2>1, FS_PigeonHole
  <2> QED
    BY <2>2
<1>6. pool[i].peer \in Peers /\ i \in SlotsOf(pool[i].peer) /\ j \in SlotsOf(pool[i].peer)
  BY <1>1, <1>5
<1>7. Cardinality(SlotsOf(pool[i].peer)) >= 2
  BY <1>5, <1>6, TwoSlots
<1> QED
  BY <1>2, <1>6, <1>7 DEF SlotAccounting

----------------------------------------------------------------------------
\* How the slots of an endpoint change when one slot is written.

\* An empty slot is given to an endpoint: it owns one slot more.
LEMMA SlotAdded ==
  ASSUME PoolTypeOK, NEW p \in Peers, NEW i \in Slots, pool[i] = None, NEW e \in Entry, e.peer = p,
         pool' = [pool EXCEPT ![i] = e]
  PROVE  /\ SlotsOf(p)' = SlotsOf(p) \cup {i}
         /\ Cardinality(SlotsOf(p)') = Cardinality(SlotsOf(p)) + 1
         /\ \A q \in Peers : q # p => SlotsOf(q)' = SlotsOf(q)
<1>1. SlotsOf(p)' = SlotsOf(p) \cup {i} /\ i \notin SlotsOf(p)
  BY NoneAssumption DEF SlotsOf, PoolTypeOK
<1>2. Cardinality(SlotsOf(p)') = Cardinality(SlotsOf(p)) + 1
  BY <1>1, SlotsFinite, FS_AddElement
<1>3. ASSUME NEW q \in Peers, q # p
      PROVE  SlotsOf(q)' = SlotsOf(q)
  BY <1>3, NoneAssumption DEF SlotsOf, PoolTypeOK
<1> QED
  BY <1>1, <1>2, <1>3

\* A slot of an endpoint is emptied: it owns one slot less.
LEMMA SlotRemoved ==
  ASSUME PoolTypeOK, NEW p \in Peers, NEW i \in SlotsOf(p), pool' = [pool EXCEPT ![i] = None]
  PROVE  /\ SlotsOf(p)' = SlotsOf(p) \ {i}
         /\ Cardinality(SlotsOf(p)') = Cardinality(SlotsOf(p)) - 1
         /\ \A q \in Peers : q # p => SlotsOf(q)' = SlotsOf(q)
<1>1. SlotsOf(p)' = SlotsOf(p) \ {i}
  BY DEF SlotsOf, PoolTypeOK
<1>2. Cardinality(SlotsOf(p)') = Cardinality(SlotsOf(p)) - 1
  BY <1>1, SlotsFinite, FS_RemoveElement
<1>3. ASSUME NEW q \in Peers, q # p
      PROVE  SlotsOf(q)' = SlotsOf(q)
  BY <1>3 DEF SlotsOf, PoolTypeOK
<1> QED
  BY <1>1, <1>2, <1>3

\* A slot is bound to another espconn: it stays with its endpoint.
LEMMA SlotRebound ==
  ASSUME PoolTypeOK, NEW p \in Peers, NEW i \in SlotsOf(p), NEW n \in Nat,
         pool' = [pool EXCEPT ![i].conn = n]
  PROVE  /\ pool' \in [Slots -> Entry \cup {None}]
         /\ \A q \in Peers : SlotsOf(q)' = SlotsOf(q)
         /\ pool'[i].born = pool[i].born /\ pool'[i].conn = n
         /\ \A j \in Slots : j # i => pool'[j] = pool[j]
<1>1. i \in Slots /\ pool[i] \in Entry /\ pool[i] # None /\ pool[i].peer = p
  BY DEF SlotsOf, PoolTypeOK
<1>2. pool'[i] = [pool[i] EXCEPT !.conn = n] /\ \A j \in Slots : j # i => pool'[j] = pool[j]
  BY <1>1 DEF PoolTypeOK
<1>3. pool'[i] \in Entry /\ pool'[i].peer = p /\ pool'[i].born = pool[i].born /\ pool'[i].conn = n
  BY <1>1, <1>2 DEF Entry
<1>4. pool'[i] # None
  BY <1>3, NoneAssumption
<1>5. pool' \in [Slots -> Entry \cup {None}]
  BY <1>1, <1>2, <1>3 DEF PoolTypeOK
<1>6. ASSUME NEW q \in Peers
      PROVE  SlotsOf(q)' = SlotsOf(q)
  BY <1>1, <1>2, <1>3, <1>4 DEF SlotsOf
<1> QED
  BY <1>2, <1>3, <1>5, <1>6

----------------------------------------------------------------------------
\* A registered endpoint owns a slot.
LEMMA RegisteredHasSlot ==
  ASSUME PoolTypeOK, SlotAccounting
  PROVE  EventsFindASlot
<1> SUFFICES ASSUME NEW p \in Peers, Registered(p), SlotsOf(p) = {}
             PROVE  FALSE
  BY DEF EventsFindASlot
<1>1. Cardinality(SlotsOf(p)) = 0
  BY FS_EmptySet
<1>2. Cardinality(SlotsOf(p)) = aborts[p] + 1
  BY DEF SlotAccounting
<1>3. aborts[p] \in Nat
  BY DEF PoolTypeOK
<1> QED
  BY <1>1, <1>2, <1>3

\* Initially every slot is empty and no endpoint is connected.
LEMMA InitInv == PoolInit => IInv
<1> SUFFICES ASSUME PoolInit PROVE IInv
  OBVIOUS
<1>1. PoolTypeOK
  BY DEF PoolInit, PoolTypeOK, LinkState
<1>2. ASSUME NEW p \in Peers
      PROVE  SlotsOf(p) = {} /\ Cardinality(SlotsOf(p)) = 0 /\ ~Registered(p)
  <2>1. SlotsOf(p) = {}
    BY DEF PoolInit, SlotsOf
  <2> QED
    BY <2>1, FS_EmptySet DEF PoolInit, Registered
<1> QED
  BY <1>1, <1>2 DEF IInv, SlotAccounting, ServedFromOwnSlot, OverflowNeedsAbort, PoolInit

----------------------------------------------------------------------------
\* Every step keeps the types.
LEMMA TypeStep ==
  ASSUME PoolTypeOK, [PoolNext]_poolVars
  PROVE  PoolTypeOK'
<1>1. CASE Reboot
  BY <1>1 DEF Reboot, PoolTypeOK, LinkState
<1>2. ASSUME NEW p \in Peers, PoolConnectCb(p)
      PROVE  PoolTypeOK'
  <2>1. NewEntry(p) \in Entry /\ made + 1 \in Nat
    BY DEF PoolTypeOK, Entry, NewEntry
  <2> QED
    BY <1>2, <2>1 DEF PoolConnectCb, Handshake, PoolTypeOK, LinkState
<1>3. ASSUME NEW p \in Peers, ConnectRefused(p)
      PROVE  PoolTypeOK'
  BY <1>3 DEF ConnectRefused, Handshake, PoolTypeOK, LinkState
<1>4. ASSUME NEW p \in Peers, NEW i \in Slots, IsFound(i, p),
             pool' = [pool EXCEPT ![i].conn = sdkSide[p].id]
      PROVE  pool' \in [Slots -> Entry \cup {None}]
  <2>1. i \in SlotsOf(p) /\ sdkSide[p].id \in Nat
    BY <1>4 DEF IsFound, PoolTypeOK
  <2> QED
    BY <1>4, <2>1, SlotRebound
<1>5. ASSUME NEW p \in Peers, Traffic(p)
      PROVE  PoolTypeOK'
  <2>1. pool' \in [Slots -> Entry \cup {None}]
    BY <1>5, <1>4 DEF Traffic, PoolTypeOK
  <2> QED
    BY <1>5, <2>1 DEF Traffic, PoolTypeOK, LinkState
<1>6. ASSUME NEW p \in Peers, ServerClose(p)
      PROVE  PoolTypeOK'
  <2>1. pool' \in [Slots -> Entry \cup {None}]
    BY <1>6, <1>4 DEF ServerClose, PoolTypeOK
  <2> QED
    BY <1>6, <2>1 DEF ServerClose, PoolTypeOK, LinkState
<1>7. ASSUME NEW p \in Peers, PoolDisconCb(p)
      PROVE  PoolTypeOK'
  BY <1>7 DEF PoolDisconCb, PoolTypeOK, LinkState
<1>8. ASSUME NEW p \in Peers, ReconCb(p)
      PROVE  PoolTypeOK'
  BY <1>8 DEF ReconCb, PoolTypeOK, LinkState
<1>9. ASSUME NEW p \in Peers, RefusedGone(p)
      PROVE  PoolTypeOK'
  BY <1>9 DEF RefusedGone, PoolTypeOK, LinkState
<1>10. CASE UNCHANGED poolVars
  BY <1>10 DEF poolVars, PoolTypeOK
<1> QED
  BY <1>1, <1>2, <1>3, <1>5, <1>6, <1>7, <1>8, <1>9, <1>10 DEF PoolNext, PeerStep

\* What a step of one endpoint does to the slots and to the connections of the endpoints:
\* the number of slots moves with the connections, and other endpoints are untouched.
LEMMA PeerStepSlots ==
  ASSUME IInv, NEW p \in Peers, PeerStep(p)
  PROVE  /\ \A q \in Peers \ {p} :
              /\ SlotsOf(q)' = SlotsOf(q)
              /\ \A j \in SlotsOf(q) : pool'[j] = pool[j]
              /\ sdkSide'[q] = sdkSide[q] /\ aborts'[q] = aborts[q]
         /\ Cardinality(SlotsOf(p)') = aborts'[p] + (IF Registered(p)' THEN 1 ELSE 0)
         /\ Registered(p)' /\ aborts'[p] = 0 =>
              \A j \in SlotsOf(p)' : pool'[j].born = sdkSide'[p].id /\ pool'[j].conn = sdkSide'[p].id
<1> USE DEF IInv
<1>1. SlotsOf(p) \subseteq Slots /\ \A q \in Peers \ {p} : SlotsOf(q) \cap SlotsOf(p) = {}
  BY DEF SlotsOf
<1>2. Cardinality(SlotsOf(p)) = aborts[p] + (IF Registered(p) THEN 1 ELSE 0)
  BY DEF SlotAccounting
<1>3. aborts[p] \in Nat /\ sdkSide[p].id \in Nat /\ sdkSide[p] \in [state : LinkState, id : Nat]
  BY DEF PoolTypeOK
<1>4. Registered(p) => SlotsOf(p) # {}
  BY RegisteredHasSlot DEF EventsFindASlot
<1>5. CASE PoolConnectCb(p)
  <2> DEFINE e == NewEntry(p)
  <2>1. PICK i \in Slots : pool[i] = None /\ pool' = [pool EXCEPT ![i] = e]
    BY <1>5 DEF PoolConnectCb
  <2>2. e \in Entry /\ e.peer = p
    BY DEF Entry, PoolTypeOK, NewEntry
  <2>3. /\ SlotsOf(p)' = SlotsOf(p) \cup {i}
        /\ Cardinality(SlotsOf(p)') = Cardinality(SlotsOf(p)) + 1
        /\ \A q \in Peers : q # p => SlotsOf(q)' = SlotsOf(q)
    BY <2>1, <2>2, SlotAdded
  <2>4. ~Registered(p) /\ Registered(p)' /\ sdkSide'[p].id = made + 1
        /\ aborts' = aborts /\ \A q \in Peers \ {p} : sdkSide'[q] = sdkSide[q]
    BY <1>5, <1>3 DEF PoolConnectCb, Handshake, Registered, PoolTypeOK
  <2>5. \A q \in Peers \ {p} : \A j \in SlotsOf(q) : pool'[j] = pool[j]
    BY <2>1 DEF SlotsOf, PoolTypeOK
  <2>6. ASSUME aborts[p] = 0
        PROVE  SlotsOf(p)' = {i}
    <3>1. Cardinality(SlotsOf(p)) = 0
      BY <1>2, <2>4, <2>6
    <3>2. SlotsOf(p) = {}
      BY <3>1, SlotsFinite, FS_EmptySet
    <3> QED
      BY <3>2, <2>3
  <2>7. pool'[i].born = made + 1 /\ pool'[i].conn = made + 1
    BY <2>1 DEF PoolTypeOK, NewEntry
  <2>8. Cardinality(SlotsOf(p)') = aborts'[p] + (IF Registered(p)' THEN 1 ELSE 0)
    BY <1>2, <1>3, <2>3, <2>4
  <2> QED
    BY <2>3, <2>4, <2>5, <2>6, <2>7, <2>8
<1>6. CASE ConnectRefused(p) \/ RefusedGone(p)
  <2>1. pool' = pool /\ aborts' = aborts /\ ~Registered(p) /\ ~Registered(p)'
        /\ \A q \in Peers \ {p} : sdkSide'[q] = sdkSide[q]
    BY <1>6, <1>3 DEF ConnectRefused, RefusedGone, Handshake, Registered, PoolTypeOK
  <2>2. \A q \in Peers : SlotsOf(q)' = SlotsOf(q)
    BY <2>1 DEF SlotsOf
  <2> QED
    BY <1>2, <2>1, <2>2
<1>7. CASE Traffic(p) \/ ServerClose(p)
  <2>1. Registered(p)
    BY <1>7 DEF Traffic, ServerClose, Registered
  <2>2. PICK i \in Slots : IsFound(i, p) /\ pool' = [pool EXCEPT ![i].conn = sdkSide[p].id]
    BY <1>4, <1>7, <2>1 DEF Traffic, ServerClose
  <2>3. i \in SlotsOf(p)
    BY <2>2 DEF IsFound
  <2>4. /\ \A q \in Peers : SlotsOf(q)' = SlotsOf(q)
        /\ pool'[i].born = pool[i].born /\ pool'[i].conn = sdkSide[p].id
        /\ \A j \in Slots : j # i => pool'[j] = pool[j]
    BY <1>3, <2>2, <2>3, SlotRebound
  <2>5. Registered(p)' /\ sdkSide'[p].id = sdkSide[p].id /\ aborts' = aborts
        /\ \A q \in Peers \ {p} : sdkSide'[q] = sdkSide[q]
    BY <1>3, <1>4, <1>7, <2>1 DEF Traffic, ServerClose, Registered, PoolTypeOK
  <2>6. \A q \in Peers \ {p} : \A j \in SlotsOf(q) : pool'[j] = pool[j]
    BY <1>1, <2>3, <2>4 DEF SlotsOf
  <2>7. aborts[p] = 0 => \A j \in SlotsOf(p) : pool'[j].born = sdkSide[p].id /\ pool'[j].conn = sdkSide[p].id
    BY <1>1, <2>1, <2>3, <2>4 DEF ServedFromOwnSlot
  <2>8. Cardinality(SlotsOf(p)') = aborts'[p] + (IF Registered(p)' THEN 1 ELSE 0)
    BY <1>2, <2>1, <2>4, <2>5
  <2> QED
    BY <2>4, <2>5, <2>6, <2>7, <2>8
<1>8. CASE PoolDisconCb(p)
  <2>1. Registered(p)
    BY <1>8 DEF PoolDisconCb
  <2>2. PICK i \in Slots : IsFound(i, p) /\ pool' = [pool EXCEPT ![i] = None]
    BY <1>4, <1>8, <2>1 DEF PoolDisconCb
  <2>3. i \in SlotsOf(p)
    BY <2>2 DEF IsFound
  <2>4. /\ Cardinality(SlotsOf(p)') = Cardinality(SlotsOf(p)) - 1
        /\ \A q \in Peers : q # p => SlotsOf(q)' = SlotsOf(q)
    BY <2>2, <2>3, SlotRemoved
  <2>5. ~Registered(p)' /\ aborts' = aborts /\ \A q \in Peers \ {p} : sdkSide'[q] = sdkSide[q]
    BY <1>3, <1>8 DEF PoolDisconCb, Registered, PoolTypeOK
  <2>6. \A q \in Peers \ {p} : \A j \in SlotsOf(q) : pool'[j] = pool[j]
    BY <1>1, <2>2, <2>3 DEF SlotsOf, PoolTypeOK
  <2>7. Cardinality(SlotsOf(p)') = aborts'[p] + (IF Registered(p)' THEN 1 ELSE 0)
    BY <1>2, <1>3, <2>1, <2>4, <2>5
  <2> QED
    BY <2>4, <2>5, <2>6, <2>7
<1>9. CASE ReconCb(p)
  <2>1. Registered(p) /\ ~Registered(p)' /\ pool' = pool /\ aborts'[p] = aborts[p] + 1
        /\ \A q \in Peers \ {p} : sdkSide'[q] = sdkSide[q] /\ aborts'[q] = aborts[q]
    BY <1>3, <1>9 DEF ReconCb, Registered, PoolTypeOK
  <2>2. \A q \in Peers : SlotsOf(q)' = SlotsOf(q)
    BY <2>1 DEF SlotsOf
  <2> QED
    BY <1>2, <1>3, <2>1, <2>2
<1> QED
  BY <1>5, <1>6, <1>7, <1>8, <1>9 DEF PeerStep

\* A step that refuses a connection finds an endpoint with an abort.
LEMMA OverflowStep ==
  ASSUME IInv, NEW p \in Peers, PeerStep(p)
  PROVE  OverflowNeedsAbort'
<1> USE DEF IInv
<1>1. CASE ConnectRefused(p)
  BY <1>1, FullPoolNeedsAbort DEF ConnectRefused, Handshake, OverflowNeedsAbort
<1>2. CASE PoolConnectCb(p)
  BY <1>2 DEF PoolConnectCb, OverflowNeedsAbort, PoolTypeOK
<1>3. CASE ReconCb(p)
  <2>1. aborts[p] \in Nat /\ aborts'[p] = aborts[p] + 1
    BY <1>3 DEF ReconCb, PoolTypeOK
  <2>2. aborts'[p] > 0
    BY <2>1
  <2> QED
    BY <2>2 DEF OverflowNeedsAbort
<1>4. CASE Traffic(p) \/ ServerClose(p) \/ PoolDisconCb(p) \/ RefusedGone(p)
  BY <1>4 DEF Traffic, ServerClose, PoolDisconCb, RefusedGone, OverflowNeedsAbort
<1> QED
  BY <1>1, <1>2, <1>3, <1>4 DEF PeerStep

\* Every step keeps the invariant.
LEMMA StepInv == IInv /\ [PoolNext]_poolVars => IInv'
<1> SUFFICES ASSUME IInv, [PoolNext]_poolVars
             PROVE  IInv'
  OBVIOUS
<1>1. PoolTypeOK'
  BY TypeStep DEF IInv
<1>2. CASE Reboot
  <2>1. ASSUME NEW p \in Peers
        PROVE  Cardinality(SlotsOf(p)') = 0 /\ ~Registered(p)' /\ aborts'[p] = 0
    <3>1. SlotsOf(p)' = {}
      BY <1>2 DEF Reboot, SlotsOf
    <3> QED
      BY <1>2, <3>1, FS_EmptySet DEF Reboot, Registered
  <2>2. SlotAccounting'
    BY <2>1 DEF SlotAccounting
  <2> QED
    BY <1>1, <1>2, <2>1, <2>2 DEF IInv, ServedFromOwnSlot, OverflowNeedsAbort, Reboot
<1>3. ASSUME NEW p \in Peers, PeerStep(p)
      PROVE  IInv'
  <2>1. SlotAccounting'
    <3>1. ASSUME NEW q \in Peers, q # p
          PROVE  Cardinality(SlotsOf(q)') = aborts'[q] + (IF Registered(q)' THEN 1 ELSE 0)
      BY <1>3, <3>1, PeerStepSlots DEF IInv, SlotAccounting, Registered
    <3> QED
      BY <1>3, <3>1, PeerStepSlots DEF SlotAccounting
  <2>2. ServedFromOwnSlot'
    <3>1. ASSUME NEW q \in Peers, q # p, Registered(q)', aborts'[q] = 0, NEW j \in SlotsOf(q)'
          PROVE  pool'[j].born = sdkSide'[q].id /\ pool'[j].conn = sdkSide'[q].id
      BY <1>3, <3>1, PeerStepSlots DEF IInv, ServedFromOwnSlot, Registered
    <3> QED
      BY <1>3, <3>1, PeerStepSlots DEF ServedFromOwnSlot
  <2> QED
    BY <1>1, <1>3, <2>1, <2>2, OverflowStep DEF IInv
<1>4. CASE UNCHANGED poolVars
  BY <1>4 DEF IInv, poolVars, PoolTypeOK, SlotAccounting, ServedFromOwnSlot, OverflowNeedsAbort,
              SlotsOf, Registered
<1> QED
  BY <1>2, <1>3, <1>4 DEF PoolNext

\* The inductive invariant holds of every behaviour.
THEOREM PoolInvariant == PoolSpec => []IInv
BY InitInv, StepInv, PTL DEF PoolSpec

\* The variables of the pool keep their types.
THEOREM PoolTypes == PoolSpec => []PoolTypeOK
<1>1. IInv => PoolTypeOK
  BY DEF IInv
<1> QED
  BY <1>1, PoolInvariant, PTL

\* Slots are neither lost nor shared: one per live connection, one per abort.
THEOREM PoolAccounting == PoolSpec => []SlotAccounting
<1>1. IInv => SlotAccounting
  BY DEF IInv
<1> QED
  BY <1>1, PoolInvariant, PTL

\* A callback of the platform always finds its connection in the pool.
THEOREM PoolKnowsConnections == PoolSpec => []EventsFindASlot
<1>1. IInv => EventsFindASlot
  BY RegisteredHasSlot DEF IInv
<1> QED
  BY <1>1, PoolInvariant, PTL

\* A connection of an endpoint without aborts is served from its own slot.
THEOREM PoolServesOwnSlot == PoolSpec => []ServedFromOwnSlot
<1>1. IInv => ServedFromOwnSlot
  BY DEF IInv
<1> QED
  BY <1>1, PoolInvariant, PTL

\* Without aborts the pool never overflows and the chip is never restarted.
THEOREM PoolOverflow == PoolSpec => []OverflowNeedsAbort
<1>1. IInv => OverflowNeedsAbort
  BY DEF IInv
<1> QED
  BY <1>1, PoolInvariant, PTL
=============================================================================
