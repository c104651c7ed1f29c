--------------------------- MODULE FloodgateProofs ---------------------------
(***************************************************************************)
(* Floodgate for every fabric, flows, losses and settings: counters, VOQs  *)
(* and windows agree, absolute counters keep their order, and packets stay *)
(* in order.                                                               *)
(***************************************************************************)
EXTENDS FloodgateInvariant

-----------------------------------------------------------------------------
(* Types *)

\* What the settings may be, as far as the proofs need it.
LEMMA SettingTypes ==
  ASSUME settings \in Configuration
  PROVE  /\ VoqLimit \in Nat /\ Window \in Nat /\ AckTh \in Nat /\ MaxLoss \in Nat
         /\ Absolute \in BOOLEAN /\ DynamicHash \in BOOLEAN /\ SynTimer \in BOOLEAN
         /\ DynamicHash => VoqLimit > 0
         /\ SynTimer => Absolute
         /\ Sizes \in [Flow -> Seq(Positive)]
  BY FloodgateParameters
     DEF VoqLimit, Window, AckTh, MaxLoss, Absolute, DynamicHash, SynTimer, Sizes, Positive

-----------------------------------------------------------------------------
(* The groups of VOQs *)

LEMMA PutType ==
  ASSUME NEW I, NEW S, NEW f \in Partial(I, S), NEW x \in I, NEW y \in S
  PROVE  VG!Put(f, x, y) \in Partial(I, S)
<1>1. f \in [DOMAIN f -> S] /\ DOMAIN f \subseteq I
  BY PartialIs
<1>2. VG!Put(f, x, y) \in [DOMAIN f \cup {x} -> S]
  BY <1>1 DEF VG!Put
<1> QED
  BY <1>1, <1>2, PartialIs

LEMMA WithoutType ==
  ASSUME NEW I, NEW S, NEW f \in Partial(I, S), NEW x
  PROVE  VG!Without(f, x) \in Partial(I, S)
<1>1. f \in [DOMAIN f -> S] /\ DOMAIN f \subseteq I
  BY PartialIs
<1>2. VG!Without(f, x) \in [DOMAIN f \ {x} -> S]
  BY <1>1 DEF VG!Without
<1> QED
  BY <1>1, <1>2, PartialIs

\* The VOQ of a destination: none only under a dynamic hash, and one at most.
LEMMA FindIs ==
  ASSUME settings \in Configuration, NEW g \in GroupType, NEW d \in Host
  PROVE  /\ VG!FindVOQId(g, d) \subseteq Ids
         /\ \A x, y \in VG!FindVOQId(g, d) : x = y
         /\ VG!FindVOQId(g, d) = {} => DynamicHash /\ d \notin DOMAIN g.dst2voq
         /\ DynamicHash /\ VG!FindVOQId(g, d) # {} =>
              d \in DOMAIN g.dst2voq /\ VG!FindVOQId(g, d) = {g.dst2voq[d]}
<1>1. VoqLimit \in Nat /\ APHash[d] \in Nat /\ (DynamicHash => VoqLimit > 0)
  BY SettingTypes, FloodgateParameters
<1>2. g.dst2voq \in [DOMAIN g.dst2voq -> Ids]
  BY PartialIs DEF GroupType
<1>3. CASE VoqLimit = 0
  BY <1>1, <1>3 DEF VG!FindVOQId, Ids
<1>4. CASE VoqLimit # 0 /\ ~DynamicHash
  <2>1. APHash[d] % VoqLimit \in 0 .. VoqLimit - 1
    BY <1>1, <1>4
  <2> QED
    BY <1>4, <2>1 DEF VG!FindVOQId, Ids
<1>5. CASE VoqLimit # 0 /\ DynamicHash
  <2>1. VG!FindVOQId(g, d) = {g.dst2voq[e] : e \in DOMAIN g.dst2voq \cap {d}}
    BY <1>5 DEF VG!FindVOQId
  <2> QED
    BY <1>2, <1>5, <2>1
<1> QED
  BY <1>3, <1>4, <1>5

LEMMA GetIs ==
  ASSUME settings \in Configuration, NEW g \in GroupType, NEW d \in Host
  PROVE  /\ VG!GetVOQId(g, d) \in Ids
         /\ VG!FindVOQId(g, d) # {} => VG!GetVOQId(g, d) \in VG!FindVOQId(g, d)
<1> DEFINE found == VG!FindVOQId(g, d)
           free == (0 .. VoqLimit - 1) \ DOMAIN g.VOQs
<1>1. VoqLimit \in Nat /\ APHash[d] \in Nat /\ (DynamicHash => VoqLimit > 0)
  BY SettingTypes, FloodgateParameters
<1>2. found \subseteq Ids /\ (found = {} => DynamicHash)
  BY FindIs
<1> HIDE DEF found
<1>3. CASE found # {}
  BY <1>2, <1>3 DEF VG!GetVOQId, found
<1>4. CASE found = {} /\ free # {}
  <2>1. \E x \in free : \A y \in free : y <= x
    BY <1>1, <1>4, Greatest, Zenon
  <2>2. VG!GetVOQId(g, d) = CHOOSE id \in free : \A i \in free : i <= id
    BY <1>4 DEF VG!GetVOQId, found
  <2>3. VG!GetVOQId(g, d) \in free
    BY <2>1, <2>2
  <2> QED
    BY <1>4, <2>3 DEF Ids, found
<1>5. CASE found = {} /\ free = {}
  <2>1. VG!GetVOQId(g, d) = APHash[d] % VoqLimit
    BY <1>5 DEF VG!GetVOQId, found
  <2>2. APHash[d] % VoqLimit \in 0 .. VoqLimit - 1
    BY <1>1, <1>2, <1>5
  <2> QED
    BY <1>5, <2>1, <2>2 DEF Ids, found
<1> QED
  BY <1>3, <1>4, <1>5

LEMMA InVOQType ==
  ASSUME NEW g \in GroupType, NEW id
  PROVE  InVOQ(g, id) \in Seq(Packet)
<1>1. g.VOQs \in [DOMAIN g.VOQs -> Seq(Packet)]
  BY PartialIs DEF GroupType
<1> QED
  BY <1>1 DEF InVOQ

\* A packet put in a VOQ: it is the last of the VOQ its destination is bound
\* to from now on, and no other VOQ or destination is touched.
LEMMA EnqueueIs ==
  ASSUME settings \in Configuration, NEW g \in GroupType, NEW d \in Host, NEW p \in Packet,
         NEW r, r = VG!EnqueueVOQ(g, d, p), NEW id, id = VG!GetVOQId(g, d)
  PROVE  /\ r \in GroupType
         /\ DOMAIN r.VOQs = DOMAIN g.VOQs \cup {id} /\ id \in Ids
         /\ InVOQ(r, id) = Append(InVOQ(g, id), p)
         /\ \A i : i # id => InVOQ(r, i) = InVOQ(g, i)
         /\ id \in VG!FindVOQ(r, d)
         /\ \A e \in Host : e # d => VG!FindVOQId(r, e) = VG!FindVOQId(g, e)
         /\ VG!FindVOQId(g, d) # {} => VG!FindVOQId(r, d) = VG!FindVOQId(g, d)
         /\ DynamicHash => DOMAIN r.dst2voq = DOMAIN g.dst2voq \cup {d}
<1> DEFINE q == InVOQ(g, id)
<1>1. id \in Ids /\ q \in Seq(Packet) /\ Append(q, p) \in Seq(Packet)
  BY GetIs, InVOQType
<1>2. /\ r.VOQs = VG!Put(g.VOQs, id, Append(q, p))
      /\ r.dst2voq = IF DynamicHash THEN VG!Put(g.dst2voq, d, id) ELSE g.dst2voq
      /\ r = [VOQs |-> r.VOQs, dst2voq |-> r.dst2voq]
  BY DEF VG!EnqueueVOQ, InVOQ
<1>3. g.VOQs \in Partial(Ids, Seq(Packet)) /\ g.dst2voq \in Partial(Host, Ids)
  BY DEF GroupType
<1> HIDE DEF q
<1>4. /\ r.VOQs \in Partial(Ids, Seq(Packet))
      /\ DOMAIN r.VOQs = DOMAIN g.VOQs \cup {id}
      /\ r.VOQs[id] = Append(q, p)
      /\ \A z \in DOMAIN g.VOQs : z # id => r.VOQs[z] = g.VOQs[z]
  <2>1. r.VOQs = VG!Put(g.VOQs, id, Append(q, p))
    BY <1>2
  <2>2. r.VOQs \in Partial(Ids, Seq(Packet))
    BY <1>1, <1>3, <2>1, PutType, Zenon
  <2> QED
    BY <2>1, <2>2 DEF VG!Put
<1>5. CASE DynamicHash
  <2>1. r.dst2voq = VG!Put(g.dst2voq, d, id)
    BY <1>2, <1>5
  <2>2. /\ r.dst2voq \in Partial(Host, Ids)
        /\ DOMAIN r.dst2voq = DOMAIN g.dst2voq \cup {d}
        /\ r.dst2voq[d] = id
        /\ \A z \in DOMAIN g.dst2voq : z # d => r.dst2voq[z] = g.dst2voq[z]
    <3>1. r.dst2voq \in Partial(Host, Ids)
      BY <1>1, <1>3, <2>1, PutType
    <3> QED
      BY <2>1, <3>1 DEF VG!Put
  <2>3. r \in GroupType
    BY <1>2, <1>4, <2>2 DEF GroupType
  <2>4. VoqLimit # 0
    BY <1>5, SettingTypes
  <2>5. \A e \in Host : e # d => VG!FindVOQId(r, e) = VG!FindVOQId(g, e)
    BY <2>2, <2>4, <1>5 DEF VG!FindVOQId
  <2>6. VG!FindVOQId(r, d) = {id}
    BY <2>2, <2>4, <1>5 DEF VG!FindVOQId
  <2>7. id \in VG!FindVOQ(r, d)
    BY <1>4, <2>6 DEF VG!FindVOQ
  <2>8. VG!FindVOQId(g, d) # {} => VG!FindVOQId(r, d) = VG!FindVOQId(g, d)
    BY <2>6, GetIs, FindIs
  <2> QED
    BY <1>1, <1>4, <2>2, <2>3, <2>5, <2>7, <2>8 DEF InVOQ, q
<1>6. CASE ~DynamicHash
  <2>1. r.dst2voq = g.dst2voq
    BY <1>2, <1>6
  <2>2. r \in GroupType
    BY <1>2, <1>3, <1>4, <2>1 DEF GroupType
  <2>3. \A e \in Host : VG!FindVOQId(r, e) = VG!FindVOQId(g, e)
    BY <2>1 DEF VG!FindVOQId
  <2>4. id \in VG!FindVOQ(r, d)
    BY <1>4, <1>6, <2>3, FindIs, GetIs DEF VG!FindVOQ
  <2> QED
    BY <1>1, <1>4, <1>6, <2>2, <2>3, <2>4 DEF InVOQ, q
<1> QED
  BY <1>5, <1>6, SettingTypes

LEMMA PopIs ==
  ASSUME settings \in Configuration, NEW g \in GroupType, NEW id \in DOMAIN g.VOQs, g.VOQs[id] # << >>,
         NEW d \in Host, NEW left \in Int, NEW r, r = VG!PopVOQ(g, id, d, left)
  PROVE  Popped(g, id, d, left, r)
<1> DEFINE q == Tail(g.VOQs[id])
           h == [g EXCEPT !.VOQs[id] = q]
<1>1. /\ g.VOQs \in [DOMAIN g.VOQs -> Seq(Packet)] /\ DOMAIN g.VOQs \subseteq Ids
      /\ g.dst2voq \in [DOMAIN g.dst2voq -> Ids] /\ DOMAIN g.dst2voq \subseteq Host
      /\ g = [VOQs |-> g.VOQs, dst2voq |-> g.dst2voq]
  BY PartialIs DEF GroupType
<1>2. q \in Seq(Packet)
  BY <1>1
<1>3. /\ h.VOQs = [g.VOQs EXCEPT ![id] = q] /\ h.dst2voq = g.dst2voq
      /\ h = [VOQs |-> h.VOQs, dst2voq |-> h.dst2voq]
  <2>1. h = [g EXCEPT !.VOQs = [g.VOQs EXCEPT ![id] = q]]
    BY <1>1, Zenon
  <2> HIDE DEF h, q
  <2>2. h.VOQs = [g.VOQs EXCEPT ![id] = q] /\ h.dst2voq = g.dst2voq
    BY <1>1, <2>1
  <2>3. h = [VOQs |-> h.VOQs, dst2voq |-> h.dst2voq]
    BY <1>1, <2>1, Zenon
  <2> QED
    BY <2>2, <2>3
<1>4. /\ h.VOQs \in [DOMAIN g.VOQs -> Seq(Packet)] /\ h.VOQs[id] = q /\ DOMAIN h.VOQs = DOMAIN g.VOQs
      /\ \A i \in DOMAIN g.VOQs : i # id => h.VOQs[i] = g.VOQs[i]
  BY <1>1, <1>2, <1>3
<1>5. r = VG!ReleaseVOQ(h, id, d, left)
  BY DEF VG!PopVOQ
<1> HIDE DEF h, q
<1>6. h.VOQs \in Partial(Ids, Seq(Packet)) /\ h.dst2voq \in Partial(Host, Ids)
  BY <1>1, <1>3, <1>4, PartialIs, Zenon
<1>7. CASE DynamicHash /\ left = 0
  <2>1. /\ r.VOQs = IF h.VOQs[id] = << >> THEN VG!Without(h.VOQs, id) ELSE h.VOQs
        /\ r.dst2voq = VG!Without(h.dst2voq, d)
        /\ r = [VOQs |-> r.VOQs, dst2voq |-> r.dst2voq]
    BY <1>5, <1>7 DEF VG!ReleaseVOQ
  <2>2. /\ r.dst2voq \in Partial(Host, Ids)
        /\ DOMAIN r.dst2voq = DOMAIN g.dst2voq \ {d}
        /\ \A z \in DOMAIN g.dst2voq : z # d => r.dst2voq[z] = g.dst2voq[z]
    <3>1. r.dst2voq \in Partial(Host, Ids)
      BY <1>6, <2>1, WithoutType
    <3> QED
      BY <1>3, <2>1, <3>1 DEF VG!Without
  <2>3. VoqLimit # 0
    BY <1>7, SettingTypes
  <2>4. \A e \in Host : e # d => VG!FindVOQId(r, e) = VG!FindVOQId(g, e)
    BY <2>2, <2>3, <1>7 DEF VG!FindVOQId
  <2>5. CASE q = << >>
    <3>1. r.VOQs = VG!Without(h.VOQs, id)
      BY <1>4, <2>1, <2>5
    <3>2. /\ r.VOQs \in Partial(Ids, Seq(Packet))
          /\ DOMAIN r.VOQs = DOMAIN g.VOQs \ {id}
          /\ \A z \in DOMAIN g.VOQs : z # id => r.VOQs[z] = g.VOQs[z]
      <4>1. r.VOQs \in Partial(Ids, Seq(Packet))
        BY <1>6, <3>1, WithoutType
      <4> QED
        BY <1>4, <3>1, <4>1 DEF VG!Without
    <3>3. r \in GroupType
      BY <2>1, <2>2, <3>2 DEF GroupType
    <3> QED
      BY <1>7, <2>2, <2>4, <2>5, <3>2, <3>3, Zenon DEF InVOQ, Popped, q
  <2>6. CASE q # << >>
    <3>1. r.VOQs = h.VOQs
      BY <1>4, <2>1, <2>6
    <3>2. r \in GroupType
      BY <1>6, <2>1, <2>2, <3>1 DEF GroupType
    <3> QED
      BY <1>4, <1>7, <2>2, <2>4, <2>6, <3>1, <3>2 DEF InVOQ, Popped, q
  <2> QED
    BY <2>5, <2>6
<1>8. CASE ~ (DynamicHash /\ left = 0)
  <2>1. r = h
    BY <1>5, <1>8 DEF VG!ReleaseVOQ
  <2>2. r \in GroupType
    BY <1>3, <1>6, <2>1 DEF GroupType
  <2>3. \A e \in Host : VG!FindVOQId(r, e) = VG!FindVOQId(g, e)
    <3>1. r.dst2voq = g.dst2voq
      BY <1>3, <2>1
    <3> QED
      BY <3>1 DEF VG!FindVOQId
  <2> QED
    BY <1>3, <1>4, <1>8, <2>1, <2>2, <2>3, Zenon DEF InVOQ, Popped, q
<1> QED
  BY <1>7, <1>8

-----------------------------------------------------------------------------
(* Bytes in a queue, and bytes that wait *)

LEMMA SizeType ==
  ASSUME NEW d, NEW U
  PROVE  SizesOf(d, U) \in [Frame -> Nat]
<1>1. ASSUME NEW x \in Frame PROVE SizeOf(x, d, U) \in Nat
  <2>1. CASE x.kind = "DATA"
    BY <2>1 DEF Frame, Packet, SizeOf, Positive
  <2>2. CASE x.kind # "DATA"
    BY <2>2 DEF SizeOf, IsFor
  <2> QED
    BY <2>1, <2>2
<1> QED
  BY <1>1 DEF SizesOf

LEMMA PacketsAreFrames ==
  /\ Packet \subseteq Frame
  /\ \A q \in Seq(Packet) : q \in Seq(Frame)
<1>1. Packet \subseteq Frame
  BY DEF Frame
<1>2. ASSUME NEW q \in Seq(Packet) PROVE q \in Seq(Frame)
  BY <1>1
<1> QED
  BY <1>1, <1>2

LEMMA BytesAre ==
  ASSUME NEW q \in Seq(Frame), NEW d, NEW U
  PROVE  Bytes(q, d, U) = CellSum(Weights(q, SizesOf(d, U))) /\ Bytes(q, d, U) \in Nat
<1>1. [i \in DOMAIN q |-> IF IsFor(q[i], d, U) THEN q[i].size ELSE 0] = Weights(q, SizesOf(d, U))
  <2>1. \A i \in DOMAIN q : q[i] \in Frame
    OBVIOUS
  <2>2. \A i \in DOMAIN q : SizesOf(d, U)[q[i]] = IF IsFor(q[i], d, U) THEN q[i].size ELSE 0
    BY <2>1 DEF SizesOf, SizeOf
  <2> QED
    BY <2>2 DEF Weights
<1>2. CellSum(Weights(q, SizesOf(d, U))) \in Nat
  BY SizeType, WeightsType
<1> QED
  BY <1>1, <1>2 DEF Bytes

LEMMA BytesEmpty ==
  ASSUME NEW d, NEW U
  PROVE  Bytes(<< >>, d, U) = 0
<1>1. << >> \in Seq(Frame)
  OBVIOUS
<1> QED
  BY <1>1, BytesAre, SumEmpty, Zenon

LEMMA BytesAppend ==
  ASSUME NEW q \in Seq(Frame), NEW p \in Frame, NEW d, NEW U
  PROVE  Bytes(Append(q, p), d, U) = Bytes(q, d, U) + SizeOf(p, d, U)
<1> DEFINE w == SizesOf(d, U)
<1>1. w \in [Frame -> Nat] /\ w[p] = SizeOf(p, d, U)
  BY SizeType DEF SizesOf
<1>2. Append(q, p) \in Seq(Frame)
  OBVIOUS
<1>3. /\ Bytes(Append(q, p), d, U) = CellSum(Weights(Append(q, p), w))
      /\ Bytes(q, d, U) = CellSum(Weights(q, w))
  BY <1>2, BytesAre, Zenon
<1> HIDE DEF w
<1>4. CellSum(Weights(Append(q, p), w)) = CellSum(Weights(q, w)) + w[p]
  BY <1>1, SumAppend
<1> QED
  BY <1>1, <1>3, <1>4

LEMMA BytesTail ==
  ASSUME NEW q \in Seq(Frame), q # << >>, NEW d, NEW U
  PROVE  Bytes(q, d, U) = Bytes(Tail(q), d, U) + SizeOf(Head(q), d, U)
<1> DEFINE w == SizesOf(d, U)
<1>1. w \in [Frame -> Nat] /\ Head(q) \in Frame /\ w[Head(q)] = SizeOf(Head(q), d, U)
  BY SizeType DEF SizesOf
<1>2. Tail(q) \in Seq(Frame)
  OBVIOUS
<1>3. /\ Bytes(Tail(q), d, U) = CellSum(Weights(Tail(q), w))
      /\ Bytes(q, d, U) = CellSum(Weights(q, w))
  BY <1>2, BytesAre, Zenon
<1> HIDE DEF w
<1>4. CellSum(Weights(q, w)) = CellSum(Weights(Tail(q), w)) + w[Head(q)]
  BY <1>1, SumTail
<1> QED
  BY <1>1, <1>3, <1>4

LEMMA PlacesFinite ==
  ASSUME settings \in Configuration
  PROVE  IsFiniteSet(Places)
<1>1. IsFiniteSet(Host) /\ VoqLimit \in Nat
  BY SettingTypes, FloodgateParameters
<1>2. IsFiniteSet(0 .. VoqLimit - 1)
  <2>1. 0 \in Int /\ VoqLimit - 1 \in Int
    BY <1>1
  <2> QED
    BY <2>1, FS_Interval
<1>3. IsFiniteSet(Ids)
  BY <1>1, <1>2, FS_Union, Zenon DEF Ids
<1>4. IsFiniteSet({0, 1})
  <2>1. IsFiniteSet({0}) /\ IsFiniteSet({1})
    BY FS_Singleton, Zenon
  <2>2. {0, 1} = {0} \cup {1}
    OBVIOUS
  <2> QED
    BY <2>1, <2>2, FS_Union, Zenon
<1> QED
  BY <1>3, <1>4, FS_Product DEF Places

LEMMA GroupsOf ==
  ASSUME NEW s, NEW m \in MmuType(s), NEW g \in {0, 1}
  PROVE  /\ m.groups[g] \in GroupType
         /\ DOMAIN m.groups[g].VOQs \subseteq Ids
<1>1. m.groups[g] \in GroupType
  BY DEF MmuType
<1> QED
  BY <1>1, PartialIs DEF GroupType

LEMMA VoqsAre ==
  ASSUME NEW s, NEW m \in MmuType(s)
  PROVE  /\ Voqs(m) \subseteq Places
         /\ \A v \in Places : VoqAt(m, v) \in Seq(Packet) /\ VoqAt(m, v) \in Seq(Frame)
         /\ \A v \in Voqs(m) : VoqAt(m, v) = Voq(m, v)
         /\ \A v \in Places \ Voqs(m) : VoqAt(m, v) = << >>
<1>1. ASSUME NEW v
      PROVE  v \in Voqs(m) <=> v \in Places /\ v[2] \in DOMAIN m.groups[v[1]].VOQs
  <2>1. v \in Voqs(m) <=> \E g \in {0, 1} : v \in {g} \X DOMAIN m.groups[g].VOQs
    BY DEF Voqs
  <2>2. \A g \in {0, 1} : DOMAIN m.groups[g].VOQs \subseteq Ids
    BY GroupsOf
  <2> QED
    BY <2>1, <2>2 DEF Places
<1>2. ASSUME NEW v \in Places PROVE VoqAt(m, v) \in Seq(Packet)
  <2>1. v[1] \in {0, 1}
    BY DEF Places
  <2> QED
    BY <2>1, GroupsOf, InVOQType DEF VoqAt
<1>3. Voqs(m) \subseteq Places
  BY <1>1
<1>4. \A v \in Voqs(m) : VoqAt(m, v) = Voq(m, v)
  BY <1>1 DEF VoqAt, Voq, InVOQ
<1>5. \A v \in Places \ Voqs(m) : VoqAt(m, v) = << >>
  BY <1>1 DEF VoqAt, InVOQ
<1> QED
  BY <1>2, <1>3, <1>4, <1>5, PacketsAreFrames

\* The bytes that wait, as a sum over all places.
LEMMA WaitingIs ==
  ASSUME settings \in Configuration, NEW s, NEW m \in MmuType(s), NEW d, NEW U
  PROVE  /\ WaitingAt(m, d, U) \in [Places -> Nat]
         /\ WaitingBytes(m, d, U) = CellSum(WaitingAt(m, d, U))
         /\ WaitingBytes(m, d, U) \in Nat
<1> DEFINE n == [v \in Voqs(m) |-> Bytes(Voq(m, v), d, U)]
           k == WaitingAt(m, d, U)
<1>1. k \in [Places -> Nat]
  BY VoqsAre, BytesAre DEF WaitingAt
<1>2. /\ \A v \in Voqs(m) : v \in Places /\ k[v] = n[v]
      /\ \A v \in Places \ Voqs(m) : k[v] = 0
  BY VoqsAre, BytesEmpty DEF WaitingAt
<1>3. DOMAIN n = Voqs(m) /\ DOMAIN k = Places
  BY <1>1
<1> HIDE DEF n, k
<1>4. Cells(k) = Cells(n)
  <2>1. \A c : c \in Cells(k) <=> \E v \in Places : c \in {v} \X (1 .. k[v])
    BY <1>3 DEF Cells
  <2>2. \A c : c \in Cells(n) <=> \E v \in Voqs(m) : c \in {v} \X (1 .. n[v])
    BY <1>3 DEF Cells
  <2>3. \A v \in Places \ Voqs(m) : 1 .. k[v] = {}
    BY <1>2
  <2>4. \A c : c \in Cells(k) => c \in Cells(n)
    BY <1>2, <2>1, <2>2, <2>3
  <2>5. \A c : c \in Cells(n) => c \in Cells(k)
    BY <1>2, <2>1, <2>2
  <2> QED
    BY <2>4, <2>5, Zenon
<1>5. CellSum(k) \in Nat
  <2>1. k \in [Places -> Int]
    BY <1>1
  <2> QED
    BY <2>1, PlacesFinite, CellsFinite
<1> QED
  BY <1>1, <1>4, <1>5 DEF WaitingBytes, CellSum, n, k

\* A change of one VOQ changes the bytes that wait by as much.
LEMMA WaitingChange ==
  ASSUME settings \in Configuration, NEW s, NEW m \in MmuType(s), NEW t, NEW r \in MmuType(t),
         NEW v \in Places, \A w \in Places : w # v => VoqAt(r, w) = VoqAt(m, w), NEW d, NEW U
  PROVE  WaitingBytes(r, d, U) = WaitingBytes(m, d, U) + (Bytes(VoqAt(r, v), d, U) - Bytes(VoqAt(m, v), d, U))
<1> DEFINE n == WaitingAt(m, d, U)
           k == WaitingAt(r, d, U)
           b == Bytes(VoqAt(r, v), d, U)
<1>1. n \in [Places -> Nat] /\ k \in [Places -> Nat] /\ b \in Nat
  BY WaitingIs, VoqsAre, BytesAre
<1>2. k = [n EXCEPT ![v] = b]
  BY Zenon DEF WaitingAt
<1>3. n[v] = Bytes(VoqAt(m, v), d, U)
  BY DEF WaitingAt
<1>4. WaitingBytes(r, d, U) = CellSum(k) /\ WaitingBytes(m, d, U) = CellSum(n)
  BY WaitingIs
<1> HIDE DEF n, k, b
<1>5. CellSum([n EXCEPT ![v] = b]) = CellSum(n) + (b - n[v])
  BY <1>1, PlacesFinite, CellsChange, Zenon
<1> QED
  BY <1>2, <1>3, <1>4, <1>5 DEF b

LEMMA BytesLeast ==
  ASSUME NEW q \in Seq(Frame), NEW i \in DOMAIN q, NEW d, NEW U
  PROVE  SizeOf(q[i], d, U) <= Bytes(q, d, U)
<1> DEFINE n == Weights(q, SizesOf(d, U))
<1>1. Len(q) \in Nat /\ DOMAIN q = 1 .. Len(q) /\ q[i] \in Frame
  OBVIOUS
<1>2. n \in [1 .. Len(q) -> Nat]
  BY SizeType, WeightsType
<1>3. n[i] = SizeOf(q[i], d, U)
  BY <1>1 DEF Weights, SizesOf
<1>4. IsFiniteSet(1 .. Len(q))
  <2>1. 1 \in Int /\ Len(q) \in Int
    BY <1>1
  <2> QED
    BY <2>1, FS_Interval
<1>5. Bytes(q, d, U) = CellSum(n)
  BY BytesAre
<1> HIDE DEF n
<1>6. n[i] <= CellSum(n)
  BY <1>1, <1>2, <1>4, CellsLeast, Zenon
<1> QED
  BY <1>3, <1>5, <1>6

LEMMA BytesNone ==
  ASSUME NEW q \in Seq(Frame), NEW d, NEW U, \A i \in DOMAIN q : ~ IsFor(q[i], d, U)
  PROVE  Bytes(q, d, U) = 0
<1> DEFINE n == Weights(q, SizesOf(d, U))
<1>1. n \in [1 .. Len(q) -> Nat] /\ DOMAIN q = 1 .. Len(q)
  BY SizeType, WeightsType
<1>2. \A i \in 1 .. Len(q) : n[i] = 0
  <2>1. \A i \in 1 .. Len(q) : q[i] \in Frame
    OBVIOUS
  <2> QED
    BY <1>1, <2>1 DEF Weights, SizesOf, SizeOf
<1>3. Bytes(q, d, U) = CellSum(n)
  BY BytesAre
<1> HIDE DEF n
<1> QED
  BY <1>1, <1>2, <1>3, CellsNone

\* A packet that waits counts, and what counts is there.
LEMMA WaitingLeast ==
  ASSUME settings \in Configuration, NEW s, NEW m \in MmuType(s), NEW d, NEW U,
         NEW v \in Places, NEW i \in DOMAIN VoqAt(m, v)
  PROVE  SizeOf(VoqAt(m, v)[i], d, U) <= WaitingBytes(m, d, U)
<1> DEFINE n == WaitingAt(m, d, U)
           x == SizeOf(VoqAt(m, v)[i], d, U)
           b == Bytes(VoqAt(m, v), d, U)
<1>1. n \in [Places -> Nat] /\ n[v] = b /\ WaitingBytes(m, d, U) = CellSum(n) /\ CellSum(n) \in Nat
  BY WaitingIs, Zenon DEF WaitingAt
<1>2. x <= b /\ b \in Nat /\ x \in Nat
  <2>1. VoqAt(m, v) \in Seq(Frame) /\ VoqAt(m, v)[i] \in Frame
    BY VoqsAre
  <2>2. SizesOf(d, U)[VoqAt(m, v)[i]] \in Nat
    BY <2>1, SizeType
  <2>3. x \in Nat
    BY <2>1, <2>2 DEF SizesOf
  <2> QED
    BY <2>1, <2>3, BytesLeast, BytesAre
<1> HIDE DEF n, x, b
<1>3. n[v] <= CellSum(n)
  BY <1>1, PlacesFinite, CellsLeast
<1> QED
  BY <1>1, <1>2, <1>3 DEF x

LEMMA WaitingSome ==
  ASSUME settings \in Configuration, NEW s, NEW m \in MmuType(s), NEW d, NEW U,
         \A v \in Places : \A i \in DOMAIN VoqAt(m, v) : ~ IsFor(VoqAt(m, v)[i], d, U)
  PROVE  WaitingBytes(m, d, U) = 0
<1> DEFINE n == WaitingAt(m, d, U)
<1>1. n \in [Places -> Nat] /\ WaitingBytes(m, d, U) = CellSum(n)
  BY WaitingIs
<1>2. \A v \in Places : n[v] = 0
  BY VoqsAre, BytesNone DEF WaitingAt
<1> HIDE DEF n
<1> QED
  BY <1>1, <1>2, CellsNone

-----------------------------------------------------------------------------
(* A switch at work: its counters and the egress queues *)

LEMMA WorkType ==
  ASSUME NEW s, NEW m \in MmuType(s), NEW r, r.nxtData \in Counters, r.buffering \in Counters,
         r.groups \in [{0, 1} -> GroupType], Kept(m, r),
         r = [nxtData |-> r.nxtData, rcvAck |-> r.rcvAck, fresh |-> r.fresh, buffering |-> r.buffering,
              groups |-> r.groups, rcvData |-> r.rcvData, nxtAck |-> r.nxtAck, lstAck |-> r.lstAck]
  PROVE  r \in MmuType(s)
  BY DEF MmuType, Kept

LEMMA GroupIn ==
  ASSUME NEW s, NEW d
  PROVE  Group(s, d) \in {0, 1}
  BY DEF Group

LEMMA PortIn ==
  ASSUME NEW s \in Switch, NEW d \in Host
  PROVE  PortTo(s, d) \in Link
<1>1. NextHop[s][d] \in Switch \cup Host
  BY FloodgateParameters
<1> QED
  BY <1>1 DEF PortTo, Link, Routed

\* What becomes of a packet put in the egress queue of its port.
LEMMA EnqueueOut ==
  ASSUME NEW s \in Switch, NEW q \in [Link -> Seq(Packet)], NEW p \in Packet
  PROVE  /\ Enqueue(s, q, p) \in [Link -> Seq(Packet)]
         /\ Enqueue(s, q, p)[PortTo(s, p.dst)] = Append(q[PortTo(s, p.dst)], p)
         /\ \A l \in Link : l # PortTo(s, p.dst) => Enqueue(s, q, p)[l] = q[l]
<1> DEFINE o == PortTo(s, p.dst)
<1>1. o \in Link
  BY PortIn DEF Packet
<1>2. q[o] \in Seq(Packet) /\ Append(q[o], p) \in Seq(Packet)
  BY <1>1
<1>3. Enqueue(s, q, p) = [q EXCEPT ![o] = Append(q[o], p)]
  BY DEF Enqueue, PortTo
<1> HIDE DEF o
<1> QED
  BY <1>1, <1>2, <1>3 DEF o

LEMMA ChargeIs ==
  ASSUME NEW s, NEW m \in MmuType(s), NEW p \in Packet, NEW r, r = Charge(m, p.dst, p.size)
  PROVE  /\ r \in MmuType(s) /\ Kept(m, r) /\ r.buffering = m.buffering /\ r.groups = m.groups
         /\ r.nxtData[p.dst] = m.nxtData[p.dst] + p.size
         /\ \A d \in Host : d # p.dst => r.nxtData[d] = m.nxtData[d]
<1> DEFINE N == [m.nxtData EXCEPT ![p.dst] = @ + p.size]
<1>1. m.nxtData \in Counters /\ p.dst \in Host /\ p.size \in Nat
  BY DEF MmuType, Packet, Positive
<1>2. N \in Counters /\ N[p.dst] = m.nxtData[p.dst] + p.size /\ \A d \in Host : d # p.dst => N[d] = m.nxtData[d]
  BY <1>1 DEF Counters
<1>3. r = [m EXCEPT !.nxtData = N]
  BY DEF Charge
<1> HIDE DEF N
<1>4. /\ r.nxtData = N /\ r.buffering = m.buffering /\ r.groups = m.groups /\ Kept(m, r)
      /\ r = [nxtData |-> r.nxtData, rcvAck |-> r.rcvAck, fresh |-> r.fresh, buffering |-> r.buffering,
              groups |-> r.groups, rcvData |-> r.rcvData, nxtAck |-> r.nxtAck, lstAck |-> r.lstAck]
  BY <1>3 DEF MmuType, Kept
<1>5. m.buffering \in Counters /\ m.groups \in [{0, 1} -> GroupType]
  BY DEF MmuType
<1> QED
  BY <1>2, <1>4, <1>5, WorkType

LEMMA TagIs ==
  ASSUME NEW s, NEW m \in MmuType(s), NEW p \in Packet, NEW x, x = Tag(m, p)
  PROVE  x \in Packet /\ Same(p, x) /\ x.psn = IF Absolute THEN m.nxtData[p.dst] ELSE 0
<1>1. m.nxtData[p.dst] \in Nat
  BY DEF MmuType, Counters, Packet
<1> QED
  BY <1>1 DEF Tag, Packet, Same

LEMMA WaitedIs ==
  ASSUME settings \in Configuration, NEW s, NEW st \in AtWork(s), NEW p \in Packet, NEW r, r = Waited(s, st, p),
         NEW g, g = Group(s, p.dst)
  PROVE  /\ r \in AtWork(s) /\ r.q = st.q /\ Kept(st.m, r.m) /\ r.m.nxtData = st.m.nxtData
         /\ r.m.buffering[p.dst] = st.m.buffering[p.dst] + p.size
         /\ \A d \in Host : d # p.dst => r.m.buffering[d] = st.m.buffering[d]
         /\ r.m.groups[g] = VG!EnqueueVOQ(st.m.groups[g], p.dst, p)
         /\ \A h \in {0, 1} : h # g => r.m.groups[h] = st.m.groups[h]
<1> DEFINE m == st.m
           B == [m.buffering EXCEPT ![p.dst] = @ + p.size]
           G == [m.groups EXCEPT ![g] = VG!EnqueueVOQ(@, p.dst, p)]
<1>1. m \in MmuType(s) /\ st.q \in [Link -> Seq(Packet)]
  BY DEF AtWork
<1> HIDE DEF m
<1>2. m.buffering \in Counters /\ p.dst \in Host /\ p.size \in Nat /\ m.groups \in [{0, 1} -> GroupType]
  BY <1>1 DEF MmuType, Packet, Positive
<1>3. B \in Counters /\ B[p.dst] = m.buffering[p.dst] + p.size /\ \A d \in Host : d # p.dst => B[d] = m.buffering[d]
  BY <1>2 DEF Counters
<1>4. g \in {0, 1} /\ m.groups[g] \in GroupType
  BY <1>2, GroupIn
<1>5. VG!EnqueueVOQ(m.groups[g], p.dst, p) \in GroupType
  BY <1>2, <1>4, EnqueueIs
<1>6. /\ G \in [{0, 1} -> GroupType] /\ G[g] = VG!EnqueueVOQ(m.groups[g], p.dst, p)
      /\ \A h \in {0, 1} : h # g => G[h] = m.groups[h]
  BY <1>2, <1>4, <1>5
<1>7. r.m = [m EXCEPT !.buffering = B, !.groups = G] /\ r.q = st.q /\ r = [m |-> r.m, q |-> r.q]
  BY DEF Waited, m
<1> HIDE DEF B, G
<1>8. /\ r.m.nxtData = m.nxtData /\ r.m.buffering = B /\ r.m.groups = G /\ Kept(m, r.m)
      /\ r.m = [nxtData |-> r.m.nxtData, rcvAck |-> r.m.rcvAck, fresh |-> r.m.fresh, buffering |-> r.m.buffering,
                groups |-> r.m.groups, rcvData |-> r.m.rcvData, nxtAck |-> r.m.nxtAck, lstAck |-> r.m.lstAck]
  BY <1>1, <1>7, Zenon DEF MmuType, Kept
<1>9. r.m \in MmuType(s)
  <2>1. m.nxtData \in Counters
    BY <1>1 DEF MmuType
  <2> QED
    BY <1>1, <1>3, <1>6, <1>8, <2>1, WorkType
<1>10. r \in AtWork(s)
  BY <1>1, <1>7, <1>9 DEF AtWork
<1> QED
  BY <1>3, <1>6, <1>7, <1>8, <1>10 DEF m

\* A packet at the head of a VOQ, and what sending it does.
LEMMA HeadIs ==
  ASSUME NEW s, NEW m \in MmuType(s), NEW v \in Places, NEW p \in HeadOf(m, v)
  PROVE  /\ v \in Voqs(m) /\ VoqAt(m, v) # << >> /\ p = Head(VoqAt(m, v)) /\ p \in Packet
         /\ v[1] \in {0, 1} /\ m.groups[v[1]] \in GroupType
         /\ v[2] \in DOMAIN m.groups[v[1]].VOQs /\ VoqAt(m, v) = m.groups[v[1]].VOQs[v[2]]
<1>1. v[1] \in {0, 1}
  BY DEF Places
<1>2. m.groups[v[1]] \in GroupType
  BY <1>1, GroupsOf
<1>3. /\ v[2] \in DOMAIN m.groups[v[1]].VOQs /\ m.groups[v[1]].VOQs[v[2]] # << >>
      /\ p = Head(m.groups[v[1]].VOQs[v[2]])
  BY DEF HeadOf
<1>4. VoqAt(m, v) = m.groups[v[1]].VOQs[v[2]] /\ VoqAt(m, v) \in Seq(Packet)
  BY <1>3, VoqsAre DEF VoqAt, InVOQ
<1>5. v \in Voqs(m)
  BY <1>3, <1>4, VoqsAre
<1>6. VoqAt(m, v) # << >> /\ p = Head(VoqAt(m, v)) /\ p \in Packet
  <2> DEFINE w == VoqAt(m, v)
  <2>1. w # << >> /\ p = Head(w) /\ w \in Seq(Packet)
    BY <1>3, <1>4
  <2> HIDE DEF w
  <2>2. Head(w) \in Packet
    BY <2>1
  <2> QED
    BY <2>1, <2>2 DEF w
<1> QED
  BY <1>1, <1>2, <1>3, <1>4, <1>5, <1>6

LEMMA SentIs ==
  ASSUME settings \in Configuration, NEW s \in Switch, NEW st \in AtWork(s), NEW v \in Places,
         NEW p \in HeadOf(st.m, v), NEW r, r = Sent(s, st, v, p), st.m.buffering[p.dst] >= p.size
  PROVE  /\ r \in AtWork(s) /\ Kept(st.m, r.m)
         /\ r.m.nxtData[p.dst] = st.m.nxtData[p.dst] + p.size
         /\ \A d \in Host : d # p.dst => r.m.nxtData[d] = st.m.nxtData[d]
         /\ r.q = Enqueue(s, st.q, Tag(r.m, p))
         /\ r.m.buffering[p.dst] = st.m.buffering[p.dst] - p.size
         /\ \A d \in Host : d # p.dst => r.m.buffering[d] = st.m.buffering[d]
         /\ r.m.groups[v[1]] = VG!PopVOQ(st.m.groups[v[1]], v[2], p.dst, r.m.buffering[p.dst])
         /\ \A h \in {0, 1} : h # v[1] => r.m.groups[h] = st.m.groups[h]
<1> DEFINE m == st.m
           c == Charge(m, p.dst, p.size)
           left == m.buffering[p.dst] - p.size
           B == [c.buffering EXCEPT ![p.dst] = left]
           G == [c.groups EXCEPT ![v[1]] = VG!PopVOQ(@, v[2], p.dst, left)]
<1>1. m \in MmuType(s) /\ st.q \in [Link -> Seq(Packet)]
  BY DEF AtWork
<1> HIDE DEF m
<1>2. /\ v[1] \in {0, 1} /\ m.groups[v[1]] \in GroupType
      /\ v[2] \in DOMAIN m.groups[v[1]].VOQs /\ m.groups[v[1]].VOQs[v[2]] # << >>
      /\ p \in Packet
  BY <1>1, HeadIs DEF m
<1>3. p \in Packet
  BY <1>2
<1>5. /\ c \in MmuType(s) /\ Kept(m, c) /\ c.buffering = m.buffering /\ c.groups = m.groups
      /\ c.nxtData[p.dst] = m.nxtData[p.dst] + p.size
      /\ \A d \in Host : d # p.dst => c.nxtData[d] = m.nxtData[d]
  <2> HIDE DEF c
  <2>1. c = Charge(m, p.dst, p.size)
    BY DEF c
  <2> QED
    BY <1>1, <1>3, <2>1, ChargeIs
<1> HIDE DEF c
<1>6. m.buffering \in Counters /\ p.dst \in Host /\ p.size \in Nat /\ m.groups \in [{0, 1} -> GroupType] /\ left \in Nat
  <2>1. m.buffering \in Counters /\ p.dst \in Host /\ p.size \in Nat /\ m.groups \in [{0, 1} -> GroupType]
    BY <1>1, <1>3 DEF MmuType, Packet, Positive
  <2>2. m.buffering[p.dst] \in Nat /\ m.buffering[p.dst] >= p.size
    BY <2>1 DEF Counters, m
  <2> QED
    BY <2>1, <2>2
<1> HIDE DEF left
<1>7. B \in Counters /\ B[p.dst] = left /\ \A d \in Host : d # p.dst => B[d] = m.buffering[d]
  BY <1>5, <1>6 DEF Counters
<1>8. VG!PopVOQ(m.groups[v[1]], v[2], p.dst, left) \in GroupType
  <2>1. left \in Int
    BY <1>6
  <2> QED
    BY <1>2, <1>6, <2>1, PopIs, Zenon DEF Popped
<1>9. /\ G \in [{0, 1} -> GroupType] /\ G[v[1]] = VG!PopVOQ(m.groups[v[1]], v[2], p.dst, left)
      /\ \A h \in {0, 1} : h # v[1] => G[h] = m.groups[h]
  BY <1>2, <1>5, <1>6, <1>8
<1>10. /\ r.m = [c EXCEPT !.buffering = B, !.groups = G] /\ r.q = Enqueue(s, st.q, Tag(c, p))
       /\ r = [m |-> r.m, q |-> r.q]
  BY DEF Sent, Pass, m, c, left
<1> HIDE DEF B, G
<1>11. /\ r.m.nxtData = c.nxtData /\ r.m.buffering = B /\ r.m.groups = G /\ Kept(m, r.m)
       /\ r.m = [nxtData |-> r.m.nxtData, rcvAck |-> r.m.rcvAck, fresh |-> r.m.fresh, buffering |-> r.m.buffering,
                 groups |-> r.m.groups, rcvData |-> r.m.rcvData, nxtAck |-> r.m.nxtAck, lstAck |-> r.m.lstAck]
  BY <1>5, <1>10, Zenon DEF MmuType, Kept
<1>12. r.m \in MmuType(s)
  <2>1. c.nxtData \in Counters
    BY <1>5 DEF MmuType
  <2> QED
    BY <1>1, <1>7, <1>9, <1>11, <2>1, WorkType
<1>13. Tag(r.m, p) = Tag(c, p)
  BY <1>11 DEF Tag
<1>14. r.q \in [Link -> Seq(Packet)]
  <2>1. Tag(c, p) \in Packet
    BY <1>3, <1>5, TagIs
  <2> QED
    BY <1>1, <1>10, <2>1, EnqueueOut
<1>15. r \in AtWork(s)
  BY <1>10, <1>12, <1>14 DEF AtWork
<1>16. r.m.buffering[p.dst] = left
  BY <1>7, <1>11
<1>17. r.m.groups[v[1]] = VG!PopVOQ(m.groups[v[1]], v[2], p.dst, r.m.buffering[p.dst])
  BY <1>9, <1>11, <1>16
<1>18. r.q = Enqueue(s, st.q, Tag(r.m, p))
  BY <1>10, <1>13
<1> QED
  BY <1>5, <1>7, <1>9, <1>11, <1>15, <1>16, <1>17, <1>18 DEF m, left

LEMMA SendOneIsSent ==
  ASSUME NEW s, NEW st, NEW v
  PROVE  SendOne(s, st, v) = Sent(s, st, v, CHOOSE x \in HeadOf(st.m, v) : TRUE)
  BY DEF SendOne, Sent

LEMMA WaitedAt ==
  ASSUME settings \in Configuration, NEW s, NEW st \in AtWork(s), NEW p \in Packet, NEW r, r = Waited(s, st, p),
         NEW v, v = <<Group(s, p.dst), VG!GetVOQId(st.m.groups[Group(s, p.dst)], p.dst)>>
  PROVE  WaitsAt(s, st.m, r.m, p, v)
<1> DEFINE g == Group(s, p.dst)
           m == st.m
           id == VG!GetVOQId(m.groups[g], p.dst)
           n == r.m
<1>1. /\ r \in AtWork(s) /\ n.groups[g] = VG!EnqueueVOQ(m.groups[g], p.dst, p)
      /\ \A h \in {0, 1} : h # g => n.groups[h] = m.groups[h]
  BY WaitedIs
<1>2. m \in MmuType(s) /\ n \in MmuType(s)
  BY <1>1 DEF AtWork
<1>3. g \in {0, 1} /\ p.dst \in Host
  BY GroupIn DEF Packet
<1>4. v = <<g, id>>
  OBVIOUS
<1> HIDE DEF m, n, g, id
<1>5. m.groups[g] \in GroupType
  BY <1>2, <1>3, GroupsOf
<1> DEFINE a == m.groups[g]
           b == n.groups[g]
<1>6. /\ b \in GroupType
      /\ DOMAIN b.VOQs = DOMAIN a.VOQs \cup {id} /\ id \in Ids
      /\ InVOQ(b, id) = Append(InVOQ(a, id), p)
      /\ \A i : i # id => InVOQ(b, i) = InVOQ(a, i)
      /\ id \in VG!FindVOQ(b, p.dst)
      /\ \A e \in Host : e # p.dst => VG!FindVOQId(b, e) = VG!FindVOQId(a, e)
      /\ VG!FindVOQId(a, p.dst) # {} => VG!FindVOQId(b, p.dst) = VG!FindVOQId(a, p.dst)
      /\ DynamicHash => DOMAIN b.dst2voq = DOMAIN a.dst2voq \cup {p.dst}
  BY <1>1, <1>3, <1>5, EnqueueIs DEF id
<1> HIDE DEF a, b
<1>7. v \in Places /\ v[1] = g /\ v[2] = id
  BY <1>3, <1>4, <1>6 DEF Places
<1>8. VoqAt(n, v) = Append(VoqAt(m, v), p)
  BY <1>6, <1>7 DEF VoqAt, a, b
<1>9. ASSUME NEW w \in Places, w # v PROVE VoqAt(n, w) = VoqAt(m, w)
  <2>1. w[1] \in {0, 1} /\ (w[1] # g \/ w[2] # id)
    BY <1>4, <1>9 DEF Places
  <2>2. CASE w[1] # g
    BY <1>1, <2>1, <2>2 DEF VoqAt
  <2>3. CASE w[1] = g
    BY <1>6, <2>1, <2>3 DEF VoqAt, a, b
  <2> QED
    BY <2>2, <2>3
<1>10. v \in Bound(s, n, p.dst)
  <2>1. id \in VG!FindVOQId(b, p.dst)
    BY <1>6 DEF VG!FindVOQ
  <2> QED
    BY <1>4, <2>1 DEF Bound, b, g
<1>11. ASSUME NEW e \in Host, e # p.dst \/ Bound(s, m, e) # {} PROVE Bound(s, n, e) = Bound(s, m, e)
  <2>1. Group(s, e) \in {0, 1}
    BY GroupIn
  <2>2. CASE Group(s, e) # g
    BY <1>1, <2>1, <2>2 DEF Bound
  <2>3. CASE Group(s, e) = g
    <3>1. e # p.dst \/ VG!FindVOQId(a, e) # {}
      BY <1>11, <2>3 DEF Bound, a
    <3>2. VG!FindVOQId(b, e) = VG!FindVOQId(a, e)
      BY <1>6, <3>1
    <3> QED
      BY <2>3, <3>2 DEF Bound, a, b
  <2> QED
    BY <2>2, <2>3
<1>12. ASSUME DynamicHash, NEW h \in {0, 1}
       PROVE  /\ DOMAIN n.groups[h].VOQs \subseteq DOMAIN m.groups[h].VOQs \cup {v[2]}
              /\ DOMAIN n.groups[h].dst2voq \subseteq DOMAIN m.groups[h].dst2voq \cup {p.dst}
              /\ p.dst \in DOMAIN n.groups[h].dst2voq \ DOMAIN m.groups[h].dst2voq => h = Group(s, p.dst)
              /\ v[2] \in DOMAIN n.groups[h].VOQs \ DOMAIN m.groups[h].VOQs => h = v[1]
  <2>1. CASE h = g
    BY <1>6, <1>7, <1>12, <2>1 DEF a, b, g
  <2>2. CASE h # g
    BY <1>1, <2>2
  <2> QED
    BY <2>1, <2>2
<1> QED
  BY <1>7, <1>8, <1>9, <1>10, <1>11, <1>12, Zenon DEF WaitsAt, m, n

LEMMA SentAt ==
  ASSUME settings \in Configuration, NEW s \in Switch, NEW st \in AtWork(s), NEW v \in Places,
         NEW p \in HeadOf(st.m, v), NEW r, r = Sent(s, st, v, p), st.m.buffering[p.dst] >= p.size
  PROVE  LeftAt(s, st.m, r.m, p, v)
<1> DEFINE m == st.m
           g == v[1]
           id == v[2]
           n == r.m
           left == n.buffering[p.dst]
<1>1. /\ r \in AtWork(s) /\ n.groups[g] = VG!PopVOQ(m.groups[g], id, p.dst, left)
      /\ \A h \in {0, 1} : h # g => n.groups[h] = m.groups[h]
  BY SentIs
<1>2. m \in MmuType(s) /\ n \in MmuType(s)
  BY <1>1 DEF AtWork
<1> HIDE DEF m
<1>3. /\ g \in {0, 1} /\ m.groups[g] \in GroupType /\ id \in DOMAIN m.groups[g].VOQs
      /\ m.groups[g].VOQs[id] # << >> /\ VoqAt(m, v) = m.groups[g].VOQs[id] /\ p.dst \in Host
  <2>1. p \in HeadOf(m, v)
    BY DEF m
  <2>2. /\ g \in {0, 1} /\ m.groups[g] \in GroupType /\ id \in DOMAIN m.groups[g].VOQs
        /\ VoqAt(m, v) = m.groups[g].VOQs[id] /\ VoqAt(m, v) # << >> /\ p \in Packet
    BY <1>2, <2>1, HeadIs
  <2> QED
    BY <2>2 DEF Packet
<1>4. left \in Int
  <2>1. n.buffering \in Counters
    BY <1>2 DEF MmuType
  <2> QED
    BY <1>3, <2>1 DEF Counters
<1> HIDE DEF n, g, id, left
<1> DEFINE a == m.groups[g]
           b == n.groups[g]
<1>5. /\ b \in GroupType
      /\ DOMAIN b.VOQs = IF DynamicHash /\ left = 0 /\ Tail(a.VOQs[id]) = << >>
                           THEN DOMAIN a.VOQs \ {id} ELSE DOMAIN a.VOQs
      /\ InVOQ(b, id) = Tail(a.VOQs[id])
      /\ \A i : i # id => InVOQ(b, i) = InVOQ(a, i)
      /\ \A e \in Host : e # p.dst \/ left # 0 => VG!FindVOQId(b, e) = VG!FindVOQId(a, e)
      /\ DynamicHash => DOMAIN b.dst2voq = IF left = 0 THEN DOMAIN a.dst2voq \ {p.dst} ELSE DOMAIN a.dst2voq
  <2> DEFINE d == p.dst
  <2> HIDE DEF a, b, d
  <2>1. a \in GroupType /\ id \in DOMAIN a.VOQs /\ a.VOQs[id] # << >> /\ b = VG!PopVOQ(a, id, d, left) /\ d \in Host
    BY <1>1, <1>3 DEF a, b, d
  <2>2. Popped(a, id, d, left, b)
    BY <1>4, <2>1, PopIs, SMTT(30)
  <2> QED
    BY <2>2 DEF Popped, d
<1> HIDE DEF a, b
<1>6. VoqAt(n, v) = Tail(VoqAt(m, v))
  BY <1>3, <1>5 DEF VoqAt, a, b, g, id
<1>7. ASSUME NEW w \in Places, w # v PROVE VoqAt(n, w) = VoqAt(m, w)
  <2>1. w[1] \in {0, 1} /\ (w[1] # g \/ w[2] # id)
    BY <1>7 DEF Places, g, id
  <2>2. CASE w[1] # g
    BY <1>1, <2>1, <2>2 DEF VoqAt
  <2>3. CASE w[1] = g
    BY <1>5, <2>1, <2>3 DEF VoqAt, a, b
  <2> QED
    BY <2>2, <2>3
<1>8. ASSUME NEW e \in Host, e # p.dst \/ left # 0 PROVE Bound(s, n, e) = Bound(s, m, e)
  <2>1. Group(s, e) \in {0, 1}
    BY GroupIn
  <2>2. CASE Group(s, e) # g
    BY <1>1, <2>1, <2>2 DEF Bound
  <2>3. CASE Group(s, e) = g
    <3>1. VG!FindVOQId(b, e) = VG!FindVOQId(a, e)
      BY <1>5, <1>8
    <3> QED
      BY <2>3, <3>1 DEF Bound, a, b
  <2> QED
    BY <2>2, <2>3
<1>9. ASSUME DynamicHash, NEW h \in {0, 1}
      PROVE  /\ DOMAIN n.groups[h].VOQs \subseteq DOMAIN m.groups[h].VOQs
             /\ DOMAIN n.groups[h].dst2voq \subseteq DOMAIN m.groups[h].dst2voq
  <2>1. CASE h = g
    BY <1>5, <1>9, <2>1, Zenon DEF a, b
  <2>2. CASE h # g
    BY <1>1, <2>2
  <2> QED
    BY <2>1, <2>2
<1>10. ASSUME DynamicHash, left = 0
       PROVE  /\ VoqAt(n, v) = << >> => v[2] \notin DOMAIN n.groups[v[1]].VOQs
              /\ p.dst \notin DOMAIN n.groups[v[1]].dst2voq
  BY <1>3, <1>5, <1>6, <1>10, Zenon DEF a, b, g, id
<1> QED
  BY <1>6, <1>7, <1>8, <1>9, <1>10 DEF LeftAt, m, n, left

LEMMA NodeSize ==
  ASSUME NEW p \in Packet, NEW d
  PROVE  SizeOf(p, d, Node) = IF p.dst = d THEN p.size ELSE 0
  BY DEF SizeOf, IsFor, Packet

LEMMA WaitedOK ==
  ASSUME settings \in Configuration, NEW s, NEW st \in AtWork(s), NEW p \in Packet, NEW r, r = Waited(s, st, p),
         VoqsOK(s, st.m)
  PROVE  VoqsOK(s, r.m)
<1> DEFINE m == st.m
           n == r.m
<1>1. PICK v : WaitsAt(s, m, n, p, v)
  BY WaitedAt, Zenon
<1>2. /\ m \in MmuType(s) /\ n \in MmuType(s)
      /\ n.buffering[p.dst] = m.buffering[p.dst] + p.size
      /\ \A d \in Host : d # p.dst => n.buffering[d] = m.buffering[d]
  BY WaitedIs DEF AtWork
<1>3. p.size \in Nat /\ p.size > 0 /\ p.dst \in Host
  BY DEF Packet, Positive
<1>4. \A d \in Host : m.buffering[d] \in Nat
  BY <1>2 DEF MmuType, Counters
<1> HIDE DEF m, n
<1>5. VoqAt(m, v) \in Seq(Packet) /\ VoqAt(m, v) \in Seq(Frame) /\ p \in Frame
  BY <1>1, <1>2, VoqsAre, PacketsAreFrames DEF WaitsAt
<1>6. VoqsOK(s, m)
  BY DEF m
<1>7. Placed(s, n)
  <2>1. ASSUME NEW w \in Places, NEW i \in DOMAIN VoqAt(n, w)
        PROVE  w \in Bound(s, n, VoqAt(n, w)[i].dst)
    <3> DEFINE x == VoqAt(n, w)[i]
    <3>1. CASE w = v /\ x = p
      BY <1>1, <3>1 DEF WaitsAt
    <3>2. CASE ~ (w = v /\ x = p)
      <4>1. i \in DOMAIN VoqAt(m, w) /\ VoqAt(m, w)[i] = x
        <5>1. CASE w = v
          <6> DEFINE q == VoqAt(m, v)
          <6>1. q \in Seq(Packet) /\ VoqAt(n, w) = Append(q, p)
            BY <1>1, <1>5, <5>1 DEF WaitsAt
          <6> HIDE DEF q
          <6>2. i \in DOMAIN q \/ (i = Len(q) + 1 /\ x = p)
            BY <6>1
          <6>3. i \in DOMAIN q /\ q[i] = x
            BY <3>2, <5>1, <6>1, <6>2
          <6> QED
            BY <5>1, <6>3 DEF q
        <5>2. CASE w # v
          BY <1>1, <5>2 DEF WaitsAt
        <5> QED
          BY <5>1, <5>2
      <4>2. VoqAt(m, w) \in Seq(Packet)
        BY <1>2, VoqsAre
      <4>3. x.dst \in Host
        <5>1. VoqAt(m, w)[i] \in Packet
          BY <4>1, <4>2
        <5> QED
          BY <4>1, <5>1 DEF Packet
      <4>4. w \in Bound(s, m, x.dst)
        BY <1>6, <4>1 DEF VoqsOK, Placed
      <4> QED
        BY <1>1, <4>3, <4>4 DEF WaitsAt
    <3> QED
      BY <3>1, <3>2
  <2> QED
    BY <2>1 DEF Placed
<1>8. Counted(n)
  <2>1. ASSUME NEW d \in Host PROVE n.buffering[d] = WaitingBytes(n, d, Node)
    <3>1. WaitingBytes(n, d, Node)
            = WaitingBytes(m, d, Node) + (Bytes(VoqAt(n, v), d, Node) - Bytes(VoqAt(m, v), d, Node))
      <4>1. v \in Places /\ \A w \in Places : w # v => VoqAt(n, w) = VoqAt(m, w)
        BY <1>1 DEF WaitsAt
      <4> QED
        BY <1>2, <4>1, WaitingChange
    <3>2. Bytes(VoqAt(n, v), d, Node) = Bytes(VoqAt(m, v), d, Node) + SizeOf(p, d, Node)
      <4> DEFINE q == VoqAt(m, v)
      <4>1. VoqAt(n, v) = Append(q, p) /\ q \in Seq(Frame)
        BY <1>1, <1>5 DEF WaitsAt
      <4> HIDE DEF q
      <4>2. Bytes(Append(q, p), d, Node) = Bytes(q, d, Node) + SizeOf(p, d, Node)
        BY <1>5, <4>1, BytesAppend
      <4> QED
        BY <4>1, <4>2 DEF q
    <3>3. SizeOf(p, d, Node) = IF p.dst = d THEN p.size ELSE 0
      BY NodeSize
    <3>4. m.buffering[d] = WaitingBytes(m, d, Node)
      BY <1>6 DEF VoqsOK, Counted
    <3>5. Bytes(VoqAt(m, v), d, Node) \in Nat
      BY <1>5, BytesAre
    <3>6. WaitingBytes(n, d, Node) = m.buffering[d] + SizeOf(p, d, Node)
      BY <1>3, <1>4, <3>1, <3>2, <3>3, <3>4, <3>5
    <3> QED
      BY <1>2, <1>3, <1>4, <3>3, <3>6
  <2> QED
    BY <2>1 DEF Counted
<1>9. Needed(s, n)
  <2>1. ASSUME DynamicHash, NEW h \in {0, 1}, NEW d \in DOMAIN n.groups[h].dst2voq
        PROVE  Group(s, d) = h /\ n.buffering[d] > 0
    <3>1. n.groups[h] \in GroupType
      BY <1>2, GroupsOf
    <3>2. d \in Host
      BY <2>1, <3>1, PartialIs DEF GroupType
    <3>3. d = p.dst \/ d \in DOMAIN m.groups[h].dst2voq
      BY <1>1, <2>1 DEF WaitsAt
    <3>4. d \in DOMAIN m.groups[h].dst2voq => Group(s, d) = h /\ m.buffering[d] > 0
      BY <1>6, <2>1 DEF VoqsOK, Needed
    <3>5. d \notin DOMAIN m.groups[h].dst2voq => Group(s, d) = h
      BY <1>1, <2>1, <3>3 DEF WaitsAt
    <3>6. n.buffering[d] > 0
      BY <1>2, <1>3, <1>4, <3>2, <3>3, <3>4
    <3> QED
      BY <3>4, <3>5, <3>6
  <2>2. ASSUME DynamicHash, NEW h \in {0, 1}, NEW id \in DOMAIN n.groups[h].VOQs
        PROVE  VoqAt(n, <<h, id>>) # << >>
    <3> DEFINE w == <<h, id>>
    <3>1. w \in Places
      <4>1. DOMAIN n.groups[h].VOQs \subseteq Ids
        BY <1>2, GroupsOf
      <4> QED
        BY <4>1, <2>2 DEF Places
    <3>2. CASE w = v
      <4> DEFINE q == VoqAt(m, v)
      <4>1. VoqAt(n, v) = Append(q, p) /\ q \in Seq(Packet)
        BY <1>1, <1>5 DEF WaitsAt
      <4> HIDE DEF q
      <4>2. Append(q, p) # << >>
        BY <4>1
      <4> QED
        BY <3>2, <4>1, <4>2, Zenon
    <3>3. CASE w # v
      <4>1. id \in DOMAIN m.groups[h].VOQs
        <5>1. id = v[2] => h # v[1]
          <6>1. v = <<v[1], v[2]>>
            BY <1>1 DEF WaitsAt, Places
          <6> QED
            BY <3>3, <6>1
        <5> QED
          BY <1>1, <2>2, <5>1 DEF WaitsAt
      <4>2. VoqAt(m, w) # << >>
        BY <1>6, <2>2, <4>1 DEF VoqsOK, Needed
      <4> QED
        BY <1>1, <3>1, <3>3, <4>2 DEF WaitsAt
    <3> QED
      BY <3>2, <3>3
  <2> QED
    BY <2>1, <2>2 DEF Needed
<1> QED
  BY <1>7, <1>8, <1>9 DEF VoqsOK, n

LEMMA SentOK ==
  ASSUME settings \in Configuration, NEW s \in Switch, NEW st \in AtWork(s), NEW v \in Places,
         NEW p \in HeadOf(st.m, v), NEW r, r = Sent(s, st, v, p), VoqsOK(s, st.m)
  PROVE  st.m.buffering[p.dst] >= p.size /\ VoqsOK(s, r.m)
<1> DEFINE m == st.m
           n == r.m
           q == VoqAt(m, v)
<1>1. m \in MmuType(s)
  BY DEF AtWork
<1>2. q # << >> /\ p = Head(q) /\ p \in Packet
  <2> HIDE DEF m
  <2>1. p \in HeadOf(m, v)
    BY DEF m
  <2> QED
    BY <1>1, <2>1, HeadIs
<1>3. VoqsOK(s, m)
  BY DEF m
<1>4. p.size \in Nat /\ p.size > 0 /\ p.dst \in Host
  BY <1>2 DEF Packet, Positive
<1>5. \A d \in Host : m.buffering[d] \in Nat /\ m.buffering[d] = WaitingBytes(m, d, Node)
  BY <1>1, <1>3 DEF MmuType, Counters, VoqsOK, Counted
<1>6. q \in Seq(Packet) /\ q \in Seq(Frame) /\ 1 \in DOMAIN q /\ q[1] = p /\ Tail(q) \in Seq(Packet)
  <2>1. q \in Seq(Packet) /\ q \in Seq(Frame)
    BY <1>1, VoqsAre
  <2> HIDE DEF q
  <2> QED
    BY <1>2, <2>1
<1>7. m.buffering[p.dst] >= p.size
  <2>1. SizeOf(q[1], p.dst, Node) <= WaitingBytes(m, p.dst, Node)
    <3> HIDE DEF m
    <3>1. 1 \in DOMAIN VoqAt(m, v)
      BY <1>6
    <3> QED
      BY <1>1, <3>1, WaitingLeast
  <2>2. SizeOf(q[1], p.dst, Node) = p.size
    BY <1>2, <1>6, NodeSize
  <2> HIDE DEF q, m
  <2> QED
    BY <1>4, <1>5, <2>1, <2>2
<1>8. /\ r \in AtWork(s)
      /\ n.buffering[p.dst] = m.buffering[p.dst] - p.size
      /\ \A d \in Host : d # p.dst => n.buffering[d] = m.buffering[d]
  BY <1>7, SentIs
<1>9. LeftAt(s, m, n, p, v)
  BY <1>7, SentAt
<1>10. n \in MmuType(s)
  BY <1>8 DEF AtWork
<1> HIDE DEF m, n, q
<1>11. VoqAt(n, v) = Tail(q) /\ \A w \in Places : w # v => VoqAt(n, w) = VoqAt(m, w)
  BY <1>9 DEF LeftAt, q
<1>12. Counted(n)
  <2>1. ASSUME NEW d \in Host PROVE n.buffering[d] = WaitingBytes(n, d, Node)
    <3>1. WaitingBytes(n, d, Node)
            = WaitingBytes(m, d, Node) + (Bytes(VoqAt(n, v), d, Node) - Bytes(VoqAt(m, v), d, Node))
      <4>1. \A w \in Places : w # v => VoqAt(n, w) = VoqAt(m, w)
        BY <1>11
      <4> QED
        BY <1>1, <1>10, <4>1, WaitingChange
    <3>2. Bytes(q, d, Node) = Bytes(Tail(q), d, Node) + SizeOf(p, d, Node)
      BY <1>2, <1>6, BytesTail
    <3>3. SizeOf(p, d, Node) = IF p.dst = d THEN p.size ELSE 0
      BY <1>2, NodeSize
    <3>4. Bytes(Tail(q), d, Node) \in Nat
      BY <1>6, BytesAre, PacketsAreFrames, Zenon
    <3>5. WaitingBytes(n, d, Node) = m.buffering[d] - SizeOf(p, d, Node)
      BY <1>4, <1>5, <1>11, <3>1, <3>2, <3>3, <3>4 DEF q
    <3> QED
      BY <1>4, <1>5, <1>8, <3>3, <3>5
  <2> QED
    BY <2>1 DEF Counted
<1>13. ASSUME NEW w \in Places, NEW i \in DOMAIN VoqAt(n, w)
       PROVE  /\ VoqAt(n, w)[i] \in Packet
              /\ \E j \in DOMAIN VoqAt(m, w) : VoqAt(m, w)[j] = VoqAt(n, w)[i]
  <2>1. VoqAt(n, w) \in Seq(Packet)
    BY <1>10, VoqsAre
  <2>2. CASE w = v
    <3>1. i + 1 \in DOMAIN q /\ q[i + 1] = Tail(q)[i]
      <4>1. i \in DOMAIN Tail(q)
        BY <1>11, <2>2, Zenon
      <4> QED
        BY <1>2, <1>6, <4>1
    <3> QED
      BY <1>11, <2>1, <2>2, <3>1 DEF q
  <2>3. CASE w # v
    BY <1>11, <2>1, <2>3
  <2> QED
    BY <2>2, <2>3
<1>14. n.buffering[p.dst] = 0 => \A w \in Places : \A i \in DOMAIN VoqAt(n, w) : VoqAt(n, w)[i].dst # p.dst
  <2> SUFFICES ASSUME n.buffering[p.dst] = 0, NEW w \in Places, NEW i \in DOMAIN VoqAt(n, w),
                      VoqAt(n, w)[i].dst = p.dst
               PROVE  FALSE
    OBVIOUS
  <2> DEFINE x == VoqAt(n, w)[i]
  <2>1. x \in Packet
    BY <1>13
  <2>2. SizeOf(x, p.dst, Node) <= WaitingBytes(n, p.dst, Node)
    BY <1>10, WaitingLeast
  <2>3. SizeOf(x, p.dst, Node) = x.size
    BY <2>1, NodeSize
  <2>4. WaitingBytes(n, p.dst, Node) = 0
    BY <1>4, <1>12 DEF Counted
  <2>5. x.size \in Nat /\ x.size > 0
    BY <2>1 DEF Packet, Positive
  <2> HIDE DEF x
  <2> QED
    BY <2>2, <2>3, <2>4, <2>5
<1>15. Placed(s, n)
  <2>1. ASSUME NEW w \in Places, NEW i \in DOMAIN VoqAt(n, w)
        PROVE  w \in Bound(s, n, VoqAt(n, w)[i].dst)
    <3> DEFINE x == VoqAt(n, w)[i]
    <3>1. PICK j \in DOMAIN VoqAt(m, w) : VoqAt(m, w)[j] = x
      BY <1>13
    <3>2. w \in Bound(s, m, x.dst)
      BY <1>3, <3>1 DEF VoqsOK, Placed
    <3>3. x.dst \in Host
      BY <1>13 DEF Packet
    <3>4. x.dst # p.dst \/ n.buffering[p.dst] # 0
      BY <1>14
    <3> HIDE DEF x
    <3> QED
      BY <1>9, <3>2, <3>3, <3>4 DEF LeftAt, x
  <2> QED
    BY <2>1 DEF Placed
<1>16. v \in Bound(s, m, p.dst) /\ v[1] = Group(s, p.dst)
  <2>1. v \in Bound(s, m, p.dst)
    BY <1>3, <1>6 DEF VoqsOK, Placed, q
  <2> QED
    BY <2>1 DEF Bound
<1>17. Needed(s, n)
  <2>1. ASSUME DynamicHash, NEW h \in {0, 1}, NEW d \in DOMAIN n.groups[h].dst2voq
        PROVE  Group(s, d) = h /\ n.buffering[d] > 0
    <3>1. n.groups[h] \in GroupType
      BY <1>10, GroupsOf
    <3>2. d \in Host
      BY <2>1, <3>1, PartialIs DEF GroupType
    <3>3. d \in DOMAIN m.groups[h].dst2voq
      BY <1>9, <2>1 DEF LeftAt
    <3>4. Group(s, d) = h /\ m.buffering[d] > 0
      BY <1>3, <2>1, <3>3 DEF VoqsOK, Needed
    <3>5. CASE d # p.dst
      BY <1>8, <3>2, <3>4, <3>5
    <3>6. CASE d = p.dst
      <4>1. n.buffering[p.dst] # 0
        BY <1>9, <1>16, <2>1, <3>4, <3>6 DEF LeftAt
      <4> QED
        BY <1>4, <1>5, <1>7, <1>8, <3>4, <3>6, <4>1
    <3> QED
      BY <3>5, <3>6
  <2>2. ASSUME DynamicHash, NEW h \in {0, 1}, NEW id \in DOMAIN n.groups[h].VOQs
        PROVE  VoqAt(n, <<h, id>>) # << >>
    <3> DEFINE w == <<h, id>>
    <3>1. w \in Places
      <4>1. DOMAIN n.groups[h].VOQs \subseteq Ids
        BY <1>10, GroupsOf
      <4> QED
        BY <4>1, <2>2 DEF Places
    <3>2. CASE w # v
      <4>1. id \in DOMAIN m.groups[h].VOQs
        BY <1>9, <2>2 DEF LeftAt
      <4>2. VoqAt(m, w) # << >>
        BY <1>3, <2>2, <4>1 DEF VoqsOK, Needed
      <4> QED
        BY <1>11, <3>1, <3>2, <4>2
    <3>3. CASE w = v /\ n.buffering[p.dst] = 0
      <4>1. v[1] = h /\ v[2] = id
        BY <3>3
      <4> QED
        BY <1>9, <2>2, <3>3, <4>1, Zenon DEF LeftAt
    <3>4. CASE w = v /\ n.buffering[p.dst] # 0
      <4>1. PICK z \in Places : \E i \in DOMAIN VoqAt(n, z) : IsFor(VoqAt(n, z)[i], p.dst, Node)
        <5>1. WaitingBytes(n, p.dst, Node) # 0
          BY <1>4, <1>12, <3>4 DEF Counted
        <5> QED
          BY <1>10, <5>1, WaitingSome
      <4>2. z \in Bound(s, n, p.dst)
        BY <1>15, <4>1 DEF Placed, IsFor
      <4>3. z \in Bound(s, m, p.dst)
        BY <1>4, <1>9, <3>4, <4>2 DEF LeftAt
      <4>4. z = v
        <5>1. m.groups[Group(s, p.dst)] \in GroupType
          BY <1>1, GroupIn, GroupsOf
        <5>2. \A x, y \in VG!FindVOQId(m.groups[Group(s, p.dst)], p.dst) : x = y
          BY <1>4, <5>1, FindIs
        <5> QED
          BY <1>16, <4>3, <5>2 DEF Bound
      <4> QED
        BY <3>4, <4>1, <4>4
    <3> QED
      BY <3>2, <3>3, <3>4
  <2> QED
    BY <2>1, <2>2 DEF Needed
<1> QED
  BY <1>7, <1>12, <1>15, <1>17 DEF VoqsOK, m, n

-----------------------------------------------------------------------------
(* Packets in order *)

LEMMA NumberedWithin ==
  ASSUME NEW k, KeyOK(k), NEW q, NEW lo \in Int, NEW hi \in Int, Numbered(q, k, lo, hi),
         NEW a \in Int, NEW b \in Int, a <= lo, hi <= b
  PROVE  Numbered(q, k, a, b)
<1> SUFFICES ASSUME NEW i \in DOMAIN q, q[i] \in k.mem
             PROVE  /\ a <= k.lo[q[i]] /\ k.hi[q[i]] <= b
                    /\ \A j \in DOMAIN q : i < j /\ q[j] \in k.mem => k.hi[q[i]] <= k.lo[q[j]]
  BY DEF Numbered
<1>1. lo <= k.lo[q[i]] /\ k.hi[q[i]] <= hi /\ k.lo[q[i]] \in Int /\ k.hi[q[i]] \in Int
  BY DEF Numbered, KeyOK
<1>2. a <= k.lo[q[i]] /\ k.hi[q[i]] <= b
  BY <1>1
<1>3. \A j \in DOMAIN q : i < j /\ q[j] \in k.mem => k.hi[q[i]] <= k.lo[q[j]]
  BY DEF Numbered
<1> QED
  BY <1>2, <1>3

LEMMA NumberedTail ==
  ASSUME NEW k, KeyOK(k), NEW T, NEW q \in Seq(T), q # << >>, NEW lo \in Int, NEW hi \in Int, Numbered(q, k, lo, hi)
  PROVE  /\ Numbered(Tail(q), k, lo, hi)
         /\ Head(q) \in k.mem => /\ lo <= k.lo[Head(q)] /\ k.hi[Head(q)] <= hi
                                 /\ Numbered(Tail(q), k, k.hi[Head(q)], hi)
<1>1. /\ Len(q) \in Nat /\ DOMAIN q = 1 .. Len(q) /\ 1 \in DOMAIN q /\ Head(q) = q[1]
      /\ DOMAIN Tail(q) = 1 .. Len(q) - 1 /\ \A i \in DOMAIN Tail(q) : i + 1 \in DOMAIN q /\ Tail(q)[i] = q[i + 1]
  OBVIOUS
<1> DEFINE t == Tail(q)
<1>2. t = Tail(q)
  OBVIOUS
<1> HIDE DEF t
<1>3. ASSUME NEW i \in DOMAIN t, t[i] \in k.mem
      PROVE  /\ lo <= k.lo[t[i]] /\ k.hi[t[i]] <= hi
             /\ \A j \in DOMAIN t : i < j /\ t[j] \in k.mem => k.hi[t[i]] <= k.lo[t[j]]
             /\ q[1] \in k.mem => k.hi[q[1]] <= k.lo[t[i]]
  <2>1. i + 1 \in DOMAIN q /\ t[i] = q[i + 1] /\ i \in Nat /\ 1 < i + 1
    BY <1>1, <1>2
  <2>2. lo <= k.lo[t[i]] /\ k.hi[t[i]] <= hi
    BY <1>3, <2>1 DEF Numbered
  <2>3. ASSUME NEW j \in DOMAIN t, i < j, t[j] \in k.mem PROVE k.hi[t[i]] <= k.lo[t[j]]
    <3>1. j + 1 \in DOMAIN q /\ t[j] = q[j + 1] /\ i + 1 < j + 1
      BY <1>1, <1>2, <2>3
    <3> QED
      BY <1>3, <2>1, <2>3, <3>1 DEF Numbered
  <2>4. q[1] \in k.mem => k.hi[q[1]] <= k.lo[t[i]]
    BY <1>1, <1>3, <2>1 DEF Numbered
  <2> QED
    BY <2>2, <2>3, <2>4
<1>4. Numbered(t, k, lo, hi)
  BY <1>3 DEF Numbered
<1>5. ASSUME Head(q) \in k.mem
      PROVE  lo <= k.lo[Head(q)] /\ k.hi[Head(q)] <= hi /\ Numbered(t, k, k.hi[Head(q)], hi)
  <2>1. lo <= k.lo[Head(q)] /\ k.hi[Head(q)] <= hi
    BY <1>1, <1>5 DEF Numbered
  <2>2. \A i \in DOMAIN t : t[i] \in k.mem => k.hi[Head(q)] <= k.lo[t[i]]
    BY <1>1, <1>3, <1>5
  <2> QED
    BY <1>3, <2>1, <2>2 DEF Numbered
<1> QED
  BY <1>2, <1>4, <1>5

LEMMA NumberedAppend ==
  ASSUME NEW k, KeyOK(k), NEW T, NEW q \in Seq(T), NEW p \in T, NEW lo \in Int, NEW c \in Int, NEW hi \in Int,
         Numbered(q, k, lo, c), lo <= c, c <= hi, p \in k.mem => c <= k.lo[p] /\ k.hi[p] <= hi
  PROVE  Numbered(Append(q, p), k, lo, hi)
<1> DEFINE r == Append(q, p)
<1>1. /\ Len(q) \in Nat /\ DOMAIN q = 1 .. Len(q) /\ DOMAIN r = 1 .. Len(q) + 1
      /\ r[Len(q) + 1] = p /\ \A i \in DOMAIN q : r[i] = q[i]
  OBVIOUS
<1> HIDE DEF r
<1> SUFFICES ASSUME NEW i \in DOMAIN r, r[i] \in k.mem
             PROVE  /\ lo <= k.lo[r[i]] /\ k.hi[r[i]] <= hi
                    /\ \A j \in DOMAIN r : i < j /\ r[j] \in k.mem => k.hi[r[i]] <= k.lo[r[j]]
  BY Zenon DEF Numbered, r
<1>2. k.lo[r[i]] \in Int /\ k.hi[r[i]] \in Int
  BY DEF KeyOK
<1>3. CASE i = Len(q) + 1
  BY <1>1, <1>2, <1>3
<1>4. CASE i # Len(q) + 1
  <2>1. i \in DOMAIN q /\ r[i] = q[i]
    BY <1>1, <1>4
  <2>2. lo <= k.lo[r[i]] /\ k.hi[r[i]] <= c
    BY <2>1 DEF Numbered
  <2>3. ASSUME NEW j \in DOMAIN r, i < j, r[j] \in k.mem PROVE k.hi[r[i]] <= k.lo[r[j]]
    <3>1. CASE j = Len(q) + 1
      BY <1>1, <1>2, <2>2, <2>3, <3>1 DEF KeyOK
    <3>2. CASE j # Len(q) + 1
      <4>1. j \in DOMAIN q /\ r[j] = q[j]
        BY <1>1, <3>2
      <4> QED
        BY <2>1, <2>3, <4>1 DEF Numbered
    <3> QED
      BY <3>1, <3>2
  <2> QED
    BY <1>2, <2>2, <2>3
<1> QED
  BY <1>3, <1>4

\* The first packet stands for the first numbers, the others for the rest.
LEMMA CoversTail ==
  ASSUME NEW k, KeyOK(k), NEW T, NEW q \in Seq(T), q # << >>, NEW lo \in Int, NEW hi \in Int,
         Numbered(q, k, lo, hi), Covers(q, k, lo, hi)
  PROVE  /\ Head(q) \notin k.mem => Covers(Tail(q), k, lo, hi)
         /\ Head(q) \in k.mem => k.lo[Head(q)] = lo /\ Covers(Tail(q), k, k.hi[Head(q)], hi)
<1> DEFINE t == Tail(q)
           h == Head(q)
<1>1. /\ Len(q) \in Nat /\ DOMAIN q = 1 .. Len(q) /\ 1 \in DOMAIN q /\ h = q[1]
      /\ \A i \in DOMAIN q : i # 1 => i - 1 \in DOMAIN t /\ t[i - 1] = q[i]
  OBVIOUS
<1> HIDE DEF t, h
<1>2. ASSUME NEW n \in Int, lo < n, n <= hi, ~ (h \in k.mem /\ k.lo[h] < n /\ n <= k.hi[h])
      PROVE  \E i \in DOMAIN t : t[i] \in k.mem /\ k.lo[t[i]] < n /\ n <= k.hi[t[i]]
  <2>1. PICK i \in DOMAIN q : q[i] \in k.mem /\ k.lo[q[i]] < n /\ n <= k.hi[q[i]]
    BY <1>2 DEF Covers
  <2>2. i # 1
    BY <1>1, <1>2, <2>1
  <2> QED
    BY <1>1, <2>1, <2>2
<1>3. CASE h \notin k.mem
  BY <1>2, <1>3 DEF Covers, t, h
<1>4. CASE h \in k.mem
  <2>1. /\ lo <= k.lo[h] /\ k.hi[h] <= hi /\ k.lo[h] < k.hi[h] /\ k.lo[h] \in Int /\ k.hi[h] \in Int
        /\ \A j \in DOMAIN q : j # 1 /\ q[j] \in k.mem => k.hi[h] <= k.lo[q[j]]
    BY <1>1, <1>4 DEF Numbered, KeyOK
  <2>2. k.lo[h] = lo
    <3>1. PICK i \in DOMAIN q : q[i] \in k.mem /\ k.lo[q[i]] < lo + 1 /\ lo + 1 <= k.hi[q[i]]
      BY <2>1 DEF Covers
    <3>2. CASE i = 1
      BY <1>1, <2>1, <3>1, <3>2
    <3>3. CASE i # 1
      <4>1. k.lo[q[i]] \in Int
        BY <3>1 DEF KeyOK
      <4> QED
        BY <2>1, <3>1, <3>3, <4>1
    <3> QED
      BY <3>2, <3>3
  <2>3. Covers(t, k, k.hi[h], hi)
    <3> SUFFICES ASSUME NEW n \in Int, k.hi[h] < n, n <= hi
                 PROVE  \E i \in DOMAIN t : t[i] \in k.mem /\ k.lo[t[i]] < n /\ n <= k.hi[t[i]]
      BY DEF Covers
    <3>1. lo < n /\ ~ (n <= k.hi[h])
      BY <2>1
    <3> QED
      BY <1>2, <3>1
  <2> QED
    BY <1>4, <2>2, <2>3 DEF t, h
<1> QED
  BY <1>3, <1>4

LEMMA PsnKeyOK ==
  ASSUME NEW d
  PROVE  /\ KeyOK(PsnKey(d))
         /\ \A x \in Packet : (x \in PsnKey(d).mem <=> x.dst = d)
                              /\ PsnKey(d).lo[x] = x.psn - x.size /\ PsnKey(d).hi[x] = x.psn
  BY DEF PsnKey, KeyOK, Packet, Positive

LEMMA MovedNot ==
  ASSUME NEW s, NEW st \in AtWork(s)
  PROVE  Moved(s, st, st)
<1>1. \A d \in Host : \A z : Holds(s, d, st, z) /\ z.dst = d => \E x : Holds(s, d, st, x) /\ Same(z, x)
  BY DEF Same
<1> QED
  BY <1>1 DEF Moved, Kept

LEMMA MovedOn ==
  ASSUME NEW s, NEW st, NEW y, NEW z, Moved(s, st, y), Moved(s, y, z)
  PROVE  Moved(s, st, z)
<1>1. z \in AtWork(s) /\ Kept(st.m, z.m) /\ \A l \in Link : l[1] # s => z.q[l] = st.q[l]
  BY DEF Moved, Kept
<1>2. ASSUME NEW d \in Host, NEW lo \in Int, NEW hi \in Int, NEW k, KeyFor(k, d), LinedAt(s, d, k, st, lo, hi)
      PROVE  LinedAt(s, d, k, z, lo, hi)
  BY <1>2 DEF Moved
<1>3. ASSUME NEW d \in Host, NEW a, Holds(s, d, st, a), a.dst = d
      PROVE  \E x : Holds(s, d, z, x) /\ Same(a, x)
  <2>1. PICK b : Holds(s, d, y, b) /\ Same(a, b)
    BY <1>3 DEF Moved
  <2>2. b.dst = d
    BY <1>3, <2>1 DEF Same
  <2>3. PICK x : Holds(s, d, z, x) /\ Same(b, x)
    BY <2>1, <2>2 DEF Moved
  <2> QED
    BY <2>1, <2>3 DEF Same
<1>4. \A d \in Host : \A U : Total(s, z, d, U) = Total(s, st, d, U)
  BY DEF Moved
<1>5. \A d \in Host : z.m.nxtData[d] - Bytes(z.q[PortTo(s, d)], d, Node)
                       = st.m.nxtData[d] - Bytes(st.q[PortTo(s, d)], d, Node)
  BY DEF Moved
<1>6. Absolute => \A d \in Host, c \in Int : PsnPort(s, d, st, c) => PsnPort(s, d, z, c)
  BY DEF Moved
<1> QED
  BY <1>1, <1>2, <1>3, <1>4, <1>5, <1>6 DEF Moved

\* The packets for a destination are in one VOQ.
LEMMA OneVOQ ==
  ASSUME settings \in Configuration, NEW s, NEW m \in MmuType(s), Placed(s, m), NEW v \in Places, NEW w \in Places,
         NEW i \in DOMAIN VoqAt(m, v), NEW j \in DOMAIN VoqAt(m, w), VoqAt(m, v)[i].dst = VoqAt(m, w)[j].dst
  PROVE  v = w
<1> DEFINE d == VoqAt(m, v)[i].dst
<1>1. v \in Bound(s, m, d) /\ w \in Bound(s, m, d)
  BY DEF Placed
<1>2. d \in Host
  <2>1. VoqAt(m, v) \in Seq(Packet)
    BY VoqsAre
  <2>2. VoqAt(m, v)[i] \in Packet
    BY <2>1
  <2> QED
    BY <2>2 DEF Packet
<1> HIDE DEF d
<1> DEFINE g == m.groups[Group(s, d)]
<1>3. g \in GroupType
  BY GroupIn, GroupsOf
<1>4. PICK x \in VG!FindVOQId(g, d), y \in VG!FindVOQId(g, d) : v = <<Group(s, d), x>> /\ w = <<Group(s, d), y>>
  BY <1>1 DEF Bound
<1> HIDE DEF g
<1>5. x = y
  BY <1>2, <1>3, FindIs
<1> QED
  BY <1>4, <1>5

LEMMA SentOutIs ==
  ASSUME settings \in Configuration, NEW s \in Switch, NEW st \in AtWork(s), NEW v \in Places,
         NEW p \in HeadOf(st.m, v), NEW r, r = Sent(s, st, v, p), VoqsOK(s, st.m)
  PROVE  \E x : SentOut(s, st, v, p, x, r)
<1> DEFINE x == Tag(r.m, p)
<1>1. st.m.buffering[p.dst] >= p.size
  BY SentOK
<1>2. /\ r \in AtWork(s) /\ Kept(st.m, r.m) /\ r.q = Enqueue(s, st.q, x)
      /\ r.m.nxtData[p.dst] = st.m.nxtData[p.dst] + p.size
      /\ \A d \in Host : d # p.dst => r.m.nxtData[d] = st.m.nxtData[d]
  BY <1>1, SentIs
<1>3. LeftAt(s, st.m, r.m, p, v)
  BY <1>1, SentAt
<1>4. st.m \in MmuType(s) /\ r.m \in MmuType(s) /\ st.q \in [Link -> Seq(Packet)]
  BY <1>2 DEF AtWork
<1>5. VoqAt(st.m, v) # << >> /\ p = Head(VoqAt(st.m, v)) /\ p \in Packet
  BY <1>4, HeadIs
<1>6. x \in Packet /\ Same(p, x) /\ x.psn = IF Absolute THEN r.m.nxtData[p.dst] ELSE 0
  BY <1>4, <1>5, TagIs, Zenon
<1> HIDE DEF x
<1>7. x.dst = p.dst /\ p.dst \in Host
  BY <1>5, <1>6 DEF Same, Packet
<1>8. PortTo(s, p.dst) \in Link
  BY <1>7, PortIn
<1>9. /\ r.q[PortTo(s, p.dst)] = Append(st.q[PortTo(s, p.dst)], x)
      /\ \A l \in Link : l # PortTo(s, p.dst) => r.q[l] = st.q[l]
  BY <1>2, <1>4, <1>6, <1>7, EnqueueOut
<1> QED
  BY <1>2, <1>3, <1>5, <1>6, <1>8, <1>9, Zenon DEF SentOut, LeftAt

LEMMA SentQueues ==
  ASSUME NEW s \in Switch, NEW st \in AtWork(s), NEW v, NEW p, NEW x, NEW r, SentOut(s, st, v, p, x, r),
         NEW l \in Link
  PROVE  /\ st.q[l] \in Seq(Packet) /\ VoqAt(st.m, v) \in Seq(Packet) /\ VoqAt(st.m, v) # << >>
         /\ p = Head(VoqAt(st.m, v)) /\ p \in Packet /\ x \in Packet /\ v \in Places /\ Same(p, x)
         /\ st.m \in MmuType(s) /\ r.m \in MmuType(s)
<1>1. /\ r \in AtWork(s) /\ v \in Places /\ VoqAt(st.m, v) # << >> /\ p = Head(VoqAt(st.m, v))
      /\ p \in Packet /\ x \in Packet /\ Same(p, x)
  BY DEF SentOut
<1>2. st.m \in MmuType(s) /\ r.m \in MmuType(s) /\ st.q \in [Link -> Seq(Packet)]
  BY <1>1 DEF AtWork
<1>3. VoqAt(st.m, v) \in Seq(Packet)
  BY <1>1, <1>2, VoqsAre
<1> QED
  BY <1>1, <1>2, <1>3

LEMMA SentLined ==
  ASSUME settings \in Configuration, NEW s \in Switch, NEW st \in AtWork(s), Placed(s, st.m), NEW v, NEW p, NEW x, NEW r,
         SentOut(s, st, v, p, x, r), NEW d \in Host, NEW k, KeyFor(k, d), NEW lo \in Int, NEW hi \in Int,
         LinedAt(s, d, k, st, lo, hi)
  PROVE  LinedAt(s, d, k, r, lo, hi)
<1> DEFINE P == st.q[PortTo(s, d)]
           R == r.q[PortTo(s, d)]
           V == VoqAt(st.m, v)
<1>1. PICK c \in Int : /\ lo <= c /\ c <= hi /\ Numbered(P, k, lo, c)
                       /\ \A w \in Places : Numbered(VoqAt(st.m, w), k, c, hi)
  BY DEF LinedAt
<1>2. /\ KeyOK(k) /\ (x \in k.mem <=> p \in k.mem)
      /\ p \in k.mem => p.dst = d /\ k.lo[x] = k.lo[p] /\ k.hi[x] = k.hi[p] /\ k.hi[p] \in Int /\ k.lo[p] < k.hi[p] /\ k.lo[p] \in Int
  <2>1. p \in Packet /\ x \in Packet /\ Same(p, x) /\ Same(x, p)
    BY DEF SentOut, Same
  <2>2. KeyOK(k)
    BY DEF KeyFor
  <2>3. (x \in k.mem <=> p \in k.mem) /\ (p \in k.mem => p.dst = d /\ k.lo[x] = k.lo[p] /\ k.hi[x] = k.hi[p])
    BY <2>1 DEF KeyFor
  <2>4. p \in k.mem => k.hi[p] \in Int /\ k.lo[p] < k.hi[p] /\ k.lo[p] \in Int
    BY <2>2 DEF KeyOK
  <2> QED
    BY <2>2, <2>3, <2>4, Zenon
<1>3. PortTo(s, d) \in Link
  BY PortIn, Zenon
<1>4. P \in Seq(Packet) /\ V \in Seq(Packet) /\ V # << >> /\ p = Head(V) /\ x \in Packet /\ v \in Places
  BY <1>3, SentQueues, Zenon
<1>5. R = P \/ R = Append(P, x)
  BY <1>3, Zenon DEF SentOut
<1>6. p \in k.mem => R = Append(P, x)
  BY <1>2, Zenon DEF SentOut
<1>7. VoqAt(r.m, v) = Tail(V) /\ \A w \in Places : w # v => VoqAt(r.m, w) = VoqAt(st.m, w)
  BY DEF SentOut
<1>8. Numbered(V, k, c, hi)
  BY <1>1, <1>4
<1> HIDE DEF P, R, V
<1>9. CASE p \in k.mem
  <2> DEFINE e == k.hi[p]
  <2>1. c <= k.lo[p] /\ e <= hi /\ Numbered(Tail(V), k, e, hi) /\ e \in Int /\ c <= e /\ lo <= e
    BY <1>1, <1>2, <1>4, <1>8, <1>9, NumberedTail
  <2>2. Numbered(R, k, lo, e)
    <3>1. R = Append(P, x) /\ KeyOK(k) /\ c <= k.lo[x] /\ k.hi[x] <= e
      BY <1>2, <1>6, <1>9, <2>1
    <3> HIDE DEF e
    <3>2. Numbered(Append(P, x), k, lo, e)
      BY <1>1, <1>4, <2>1, <3>1, NumberedAppend
    <3> QED
      BY <3>1, <3>2
  <2>3. ASSUME NEW w \in Places PROVE Numbered(VoqAt(r.m, w), k, e, hi)
    <3>1. CASE w = v
      BY <1>7, <2>1, <3>1, Zenon
    <3>2. CASE w # v
      <4>1. ASSUME NEW i \in DOMAIN VoqAt(st.m, w), VoqAt(st.m, w)[i] \in k.mem PROVE FALSE
        <5>1. 1 \in DOMAIN V /\ V[1] = p
          BY <1>4
        <5>2. VoqAt(st.m, w)[i].dst = VoqAt(st.m, v)[1].dst /\ 1 \in DOMAIN VoqAt(st.m, v)
          BY <1>2, <1>9, <4>1, <5>1 DEF KeyFor, V
        <5>3. st.m \in MmuType(s)
          BY DEF AtWork
        <5> QED
          BY <1>4, <3>2, <5>2, <5>3, OneVOQ
      <4>2. Numbered(VoqAt(st.m, w), k, e, hi)
        BY <4>1, NumberedNone
      <4> QED
        BY <1>7, <3>2, <4>2
    <3> QED
      BY <3>1, <3>2
  <2> HIDE DEF e
  <2> QED
    BY <2>1, <2>2, <2>3 DEF LinedAt, R
<1>10. CASE p \notin k.mem
  <2>1. Numbered(R, k, lo, c)
    <3>1. c <= c
      BY <1>1
    <3>2. x \notin k.mem
      BY <1>2, <1>10
    <3>3. Numbered(Append(P, x), k, lo, c)
      BY <1>1, <1>2, <1>4, <3>1, <3>2, NumberedAppend
    <3> QED
      BY <1>1, <1>5, <3>3, Zenon
  <2>2. Numbered(Tail(V), k, c, hi)
    BY <1>2, <1>4, <1>8, NumberedTail
  <2>3. \A w \in Places : Numbered(VoqAt(r.m, w), k, c, hi)
    BY <1>1, <1>7, <2>2, Zenon
  <2> QED
    BY <1>1, <2>1, <2>3 DEF LinedAt, R
<1> QED
  BY <1>9, <1>10

LEMMA SentHolds ==
  ASSUME NEW s \in Switch, NEW st \in AtWork(s), NEW v, NEW p, NEW x, NEW r,
         SentOut(s, st, v, p, x, r), NEW d \in Host, NEW z, Holds(s, d, st, z), z.dst = d
  PROVE  \E y : Holds(s, d, r, y) /\ Same(z, y)
<1> DEFINE P == st.q[PortTo(s, d)]
           R == r.q[PortTo(s, d)]
           V == VoqAt(st.m, v)
<1>1. PortTo(s, d) \in Link
  BY PortIn, Zenon
<1>2. P \in Seq(Packet) /\ V \in Seq(Packet) /\ V # << >> /\ p = Head(V) /\ x \in Packet /\ v \in Places /\ Same(p, x)
  BY <1>1, SentQueues, Zenon
<1>3. R = P \/ R = Append(P, x)
  BY <1>1, Zenon DEF SentOut
<1>4. VoqAt(r.m, v) = Tail(V) /\ \A w \in Places : w # v => VoqAt(r.m, w) = VoqAt(st.m, w)
  BY DEF SentOut
<1>5. p.dst = d => R = Append(P, x)
  BY Zenon DEF SentOut
<1>6. Same(z, z) /\ z \in Packet
  BY DEF Same, Holds
<1>7. CASE \E i \in DOMAIN P : P[i] = z
  <2> HIDE DEF P, R, V
  <2>1. \E i \in DOMAIN R : R[i] = z
    <3>1. \A i \in DOMAIN P : i \in DOMAIN Append(P, x) /\ Append(P, x)[i] = P[i]
      BY <1>2
    <3> QED
      BY <1>3, <1>7, <3>1
  <2> QED
    BY <1>6, <2>1 DEF Holds, R
<1>8. ASSUME NEW w \in Places, NEW i \in DOMAIN VoqAt(st.m, w), VoqAt(st.m, w)[i] = z
      PROVE  \E y : Holds(s, d, r, y) /\ Same(z, y)
  <2>1. CASE w # v
    <3>1. VoqAt(r.m, w)[i] = z /\ i \in DOMAIN VoqAt(r.m, w)
      BY <1>4, <1>8, <2>1
    <3> QED
      BY <1>6, <3>1 DEF Holds
  <2>2. CASE w = v /\ i = 1
    <3>1. z = p
      BY <1>2, <1>8, <2>2
    <3>2. R = Append(P, x)
      BY <1>5, <3>1
    <3> HIDE DEF P, R, V
    <3>3. Len(P) + 1 \in DOMAIN R /\ R[Len(P) + 1] = x
      BY <1>2, <3>2
    <3>4. Holds(s, d, r, x)
      BY <1>2, <3>3 DEF Holds, R
    <3> QED
      BY <1>2, <3>1, <3>4
  <2>3. CASE w = v /\ i # 1
    <3>1. i \in DOMAIN V /\ V[i] = z
      BY <1>8, <2>3
    <3> HIDE DEF P, R, V
    <3>2. i - 1 \in DOMAIN Tail(V) /\ Tail(V)[i - 1] = z
      BY <1>2, <2>3, <3>1
    <3>3. i - 1 \in DOMAIN VoqAt(r.m, v) /\ VoqAt(r.m, v)[i - 1] = z
      BY <1>4, <3>2
    <3> QED
      BY <1>2, <1>6, <3>3 DEF Holds
  <2> QED
    BY <2>1, <2>2, <2>3
<1> QED
  BY <1>7, <1>8 DEF Holds

LEMMA SizeSame ==
  ASSUME NEW p \in Packet, NEW x \in Packet, Same(p, x), NEW d, NEW U
  PROVE  SizeOf(x, d, U) = SizeOf(p, d, U) /\ SizeOf(p, d, U) \in Nat
  BY DEF Same, SizeOf, IsFor, Packet, Positive

LEMMA SentTotal ==
  ASSUME settings \in Configuration, NEW s \in Switch, NEW st \in AtWork(s), NEW v, NEW p, NEW x, NEW r,
         SentOut(s, st, v, p, x, r), NEW d \in Host, NEW U
  PROVE  Total(s, r, d, U) = Total(s, st, d, U)
<1> DEFINE P == st.q[PortTo(s, d)]
           R == r.q[PortTo(s, d)]
           V == VoqAt(st.m, v)
<1>1. PortTo(s, d) \in Link
  BY PortIn, Zenon
<1>2. /\ P \in Seq(Frame) /\ V \in Seq(Frame) /\ V # << >> /\ p = Head(V) /\ p \in Packet /\ x \in Packet /\ x \in Frame
      /\ v \in Places /\ Same(p, x)
      /\ st.m \in MmuType(s) /\ r.m \in MmuType(s)
  <2>1. P \in Seq(Packet) /\ V \in Seq(Packet) /\ V # << >> /\ p = Head(V) /\ p \in Packet /\ x \in Packet
        /\ v \in Places /\ Same(p, x) /\ st.m \in MmuType(s) /\ r.m \in MmuType(s)
    BY <1>1, SentQueues, Zenon
  <2> HIDE DEF P, V
  <2>2. P \in Seq(Frame) /\ V \in Seq(Frame) /\ x \in Frame
    BY <2>1, PacketsAreFrames
  <2> QED
    BY <2>1, <2>2
<1>3. VoqAt(r.m, v) = Tail(V) /\ \A w \in Places : w # v => VoqAt(r.m, w) = VoqAt(st.m, w)
  BY DEF SentOut
<1>4. SizeOf(x, d, U) = SizeOf(p, d, U) /\ SizeOf(p, d, U) \in Nat
  BY <1>2, SizeSame
<1>5. WaitingBytes(r.m, d, U) = WaitingBytes(st.m, d, U) + (Bytes(Tail(V), d, U) - Bytes(V, d, U))
  <2> DEFINE m == st.m
             n == r.m
  <2>0. m \in MmuType(s) /\ n \in MmuType(s) /\ v \in Places /\ \A w \in Places : w # v => VoqAt(n, w) = VoqAt(m, w)
    BY <1>2, <1>3
  <2> HIDE DEF m, n
  <2>1. WaitingBytes(n, d, U) = WaitingBytes(m, d, U) + (Bytes(VoqAt(n, v), d, U) - Bytes(VoqAt(m, v), d, U))
    BY <2>0, WaitingChange
  <2> QED
    BY <1>3, <2>1 DEF m, n
<1>6. Bytes(V, d, U) = Bytes(Tail(V), d, U) + SizeOf(p, d, U)
  <2> HIDE DEF V
  <2> QED
    BY <1>2, BytesTail
<1>7. Bytes(V, d, U) \in Nat /\ Bytes(Tail(V), d, U) \in Nat /\ Bytes(P, d, U) \in Nat
  <2> HIDE DEF V, P
  <2>1. Tail(V) \in Seq(Frame)
    BY <1>2
  <2> QED
    BY <1>2, <2>1, BytesAre, Zenon
<1>8. Bytes(R, d, U) = Bytes(P, d, U) + SizeOf(p, d, U)
  <2>1. CASE PortTo(s, d) = PortTo(s, p.dst)
    <3>1. R = Append(P, x)
      BY <2>1, Zenon DEF SentOut
    <3> HIDE DEF P, R
    <3> QED
      BY <1>2, <1>4, <3>1, BytesAppend
  <2>2. CASE PortTo(s, d) # PortTo(s, p.dst)
    <3>1. R = P /\ p.dst # d
      BY <1>1, <2>2 DEF SentOut
    <3>2. SizeOf(p, d, U) = 0
      BY <3>1 DEF SizeOf, IsFor
    <3> HIDE DEF P, R
    <3> QED
      BY <1>7, <3>1, <3>2
  <2> QED
    BY <2>1, <2>2
<1>9. WaitingBytes(st.m, d, U) \in Nat
  BY <1>2, WaitingIs
<1> HIDE DEF P, R, V
<1> QED
  BY <1>4, <1>5, <1>6, <1>7, <1>8, <1>9 DEF Total, P, R

\* What a switch has counted as sent grows with what is in its port.
LEMMA SentCounts ==
  ASSUME settings \in Configuration, NEW s \in Switch, NEW st \in AtWork(s), NEW v, NEW p, NEW x, NEW r,
         SentOut(s, st, v, p, x, r), NEW d \in Host
  PROVE  /\ r.m.nxtData[d] - Bytes(r.q[PortTo(s, d)], d, Node) = st.m.nxtData[d] - Bytes(st.q[PortTo(s, d)], d, Node)
         /\ Absolute => \A c \in Int : PsnPort(s, d, st, c) => PsnPort(s, d, r, c)
<1> DEFINE P == st.q[PortTo(s, d)]
           R == r.q[PortTo(s, d)]
           a == st.m.nxtData[d]
           b == r.m.nxtData[d]
           k == PsnKey(d)
<1>1. PortTo(s, d) \in Link
  BY PortIn
<1>2. /\ P \in Seq(Packet) /\ P \in Seq(Frame) /\ p \in Packet /\ x \in Packet /\ x \in Frame /\ Same(p, x)
      /\ x.dst = p.dst /\ x.size = p.size /\ p.size \in Nat \ {0}
  BY <1>1, PacketsAreFrames, Zenon DEF AtWork, SentOut, Same, Packet, Positive
<1>3. a \in Nat /\ b \in Nat /\ b = IF d = p.dst THEN a + p.size ELSE a
  <2>1. b = IF d = p.dst THEN a + p.size ELSE a
    BY Zenon DEF SentOut
  <2>2. st.m \in MmuType(s) /\ r.m \in MmuType(s)
    BY <1>1, SentQueues, Zenon
  <2>3. a \in Nat /\ b \in Nat
    BY <2>2 DEF MmuType, Counters
  <2> QED
    BY <2>1, <2>3, Zenon
<1>4. d = p.dst => R = Append(P, x)
  BY Zenon DEF SentOut
<1>5. R = P \/ R = Append(P, x)
  BY <1>1, Zenon DEF SentOut
<1>6. SizeOf(x, d, Node) = IF d = p.dst THEN p.size ELSE 0
  BY <1>2, NodeSize
<1>7. Absolute /\ d = p.dst => x.psn = b
  BY Zenon DEF SentOut
<1> HIDE DEF P, R, a, b
<1>8. Bytes(Append(P, x), d, Node) = Bytes(P, d, Node) + SizeOf(x, d, Node) /\ Bytes(P, d, Node) \in Nat
  BY <1>2, BytesAppend, BytesAre
<1>9. b - Bytes(R, d, Node) = a - Bytes(P, d, Node)
  <2>1. CASE R = Append(P, x)
    <3> DEFINE i == Bytes(P, d, Node)
               j == Bytes(Append(P, x), d, Node)
    <3>1. i \in Nat /\ j = i + (IF d = p.dst THEN p.size ELSE 0)
      BY <1>6, <1>8
    <3> HIDE DEF i, j
    <3>2. b - j = a - i
      BY <1>2, <1>3, <3>1
    <3> QED
      BY <2>1, <3>2 DEF i, j
  <2>2. CASE R # Append(P, x)
    BY <1>3, <1>4, <1>5, <2>2
  <2> QED
    BY <2>1, <2>2
<1>10. ASSUME Absolute, NEW c \in Int, c <= a, Numbered(P, k, c, a), Covers(P, k, c, a)
       PROVE  c <= b /\ Numbered(R, k, c, b) /\ Covers(R, k, c, b)
  <2>1. KeyOK(k) /\ (x \in k.mem <=> x.dst = d) /\ k.lo[x] = x.psn - x.size /\ k.hi[x] = x.psn
    BY <1>2, PsnKeyOK
  <2>2. x \in k.mem => k.lo[x] = a /\ k.hi[x] = b
    BY <1>2, <1>3, <1>7, <1>10, <2>1
  <2>3. a <= b /\ (x \notin k.mem => a = b)
    BY <1>2, <1>3, <2>1
  <2> HIDE DEF k
  <2>4. Numbered(Append(P, x), k, c, b) /\ Covers(Append(P, x), k, c, b)
    <3>1. x \in k.mem => a <= k.lo[x] /\ k.hi[x] <= b
      BY <1>3, <2>2
    <3>2. Numbered(Append(P, x), k, c, b)
      <4>1. P \in Seq(Packet) /\ x \in Packet /\ c \in Int /\ a \in Int /\ b \in Int /\ Numbered(P, k, c, a) /\ c <= a /\ a <= b
        BY <1>2, <1>3, <1>10, <2>3
      <4> QED
        BY <2>1, <3>1, <4>1, NumberedAppend
    <3>3. a = b \/ (x \in k.mem /\ k.lo[x] = a /\ k.hi[x] = b)
      BY <2>2, <2>3
    <3>4. Covers(Append(P, x), k, c, b)
      <4>1. P \in Seq(Packet) /\ x \in Packet /\ c \in Int /\ a \in Int /\ b \in Int /\ Covers(P, k, c, a)
        BY <1>2, <1>3, <1>10
      <4> QED
        BY <3>3, <4>1, CoversAppend, Zenon
    <3> QED
      BY <3>2, <3>4
  <2>5. CASE R = Append(P, x)
    BY <1>3, <1>10, <2>3, <2>4, <2>5
  <2>6. CASE R # Append(P, x)
    <3>1. R = P /\ d # p.dst /\ a = b
      BY <1>3, <1>4, <1>5, <2>6
    <3> QED
      BY <1>10, <3>1
  <2> QED
    BY <2>5, <2>6
<1> QED
  BY <1>9, <1>10 DEF PsnPort, P, R, a, b

LEMMA SentMoves ==
  ASSUME settings \in Configuration, NEW s \in Switch, NEW st \in AtWork(s), NEW v \in Places,
         NEW p \in HeadOf(st.m, v), NEW r, r = Sent(s, st, v, p), VoqsOK(s, st.m)
  PROVE  Moved(s, st, r)
<1>1. PICK x : SentOut(s, st, v, p, x, r)
  BY SentOutIs
<1>2. Placed(s, st.m)
  BY DEF VoqsOK
<1>3. \A d \in Host, lo \in Int, hi \in Int : \A k :
        KeyFor(k, d) /\ LinedAt(s, d, k, st, lo, hi) => LinedAt(s, d, k, r, lo, hi)
  BY <1>1, <1>2, SentLined
<1>4. \A d \in Host : \A z : Holds(s, d, st, z) /\ z.dst = d => \E y : Holds(s, d, r, y) /\ Same(z, y)
  BY <1>1, SentHolds
<1>5. \A d \in Host : \A U : Total(s, r, d, U) = Total(s, st, d, U)
  BY <1>1, SentTotal
<1>7. ASSUME NEW l \in Link, l[1] # s PROVE r.q[l] = st.q[l]
  <2>1. l # PortTo(s, p.dst)
    BY <1>7 DEF PortTo
  <2> QED
    BY <1>1, <2>1, Zenon DEF SentOut
<1>8. r \in AtWork(s) /\ Kept(st.m, r.m)
  BY <1>1, Zenon DEF SentOut
<1>9. Absolute => \A d \in Host, c \in Int : PsnPort(s, d, st, c) => PsnPort(s, d, r, c)
  BY <1>1, SentCounts
<1>10. \A d \in Host : r.m.nxtData[d] - Bytes(r.q[PortTo(s, d)], d, Node) = st.m.nxtData[d] - Bytes(st.q[PortTo(s, d)], d, Node)
  BY <1>1, SentCounts
<1> QED
  BY <1>3, <1>4, <1>5, <1>7, <1>8, <1>9, <1>10 DEF Moved

-----------------------------------------------------------------------------
(* Serving the turns *)

LEMMA WorkedNot ==
  ASSUME NEW s, NEW st \in AtWork(s)
  PROVE  Worked(s, st, st)
<1>1. \A d \in Host : st.m.nxtData[d] \in Nat
  BY DEF AtWork, MmuType, Counters
<1> QED
  BY <1>1 DEF Worked, Kept

LEMMA WorkedOn ==
  ASSUME NEW s, NEW st \in AtWork(s), NEW y, NEW z, Worked(s, st, y), Worked(s, y, z)
  PROVE  Worked(s, st, z)
<1>1. y \in AtWork(s) /\ z \in AtWork(s) /\ Kept(st.m, z.m) /\ Kept(y.m, z.m)
  BY DEF Worked, Kept
<1>2. \A d \in Host : st.m.nxtData[d] \in Nat /\ y.m.nxtData[d] \in Nat /\ z.m.nxtData[d] \in Nat
  BY <1>1 DEF AtWork, MmuType, Counters
<1>3. \A d \in Host : st.m.nxtData[d] <= z.m.nxtData[d]
  BY <1>2 DEF Worked
<1>4. ASSUME NEW l \in Link, NEW i \in DOMAIN z.q[l]
      PROVE  \/ \E j \in DOMAIN st.q[l] : st.q[l][j] = z.q[l][i]
             \/ l[1] = s /\ Queued(l, z.m, z.q[l][i])
  <2> DEFINE p == z.q[l][i]
  <2>1. CASE \E j \in DOMAIN y.q[l] : y.q[l][j] = p
    <3>1. PICK j \in DOMAIN y.q[l] : y.q[l][j] = p
      BY <2>1
    <3>2. CASE l[1] = s /\ Queued(l, y.m, p)
      <4>1. p \in Packet
        BY <1>1 DEF AtWork
      <4>2. p.dst \in Host /\ p.psn \in Nat
        BY <4>1 DEF Packet
      <4>3. Out(l, z.m, p)
        <5>1. y.m.nxtData[p.dst] <= z.m.nxtData[p.dst]
          BY <4>2 DEF Worked
        <5>2. y.m.nxtData[p.dst] \in Nat /\ z.m.nxtData[p.dst] \in Nat
          BY <1>2, <4>2, Zenon
        <5>3. Out(l, y.m, p)
          BY <3>2 DEF Queued
        <5> HIDE DEF p
        <5> QED
          BY <4>2, <5>1, <5>2, <5>3 DEF Out
      <4>4. Here(l[1], z.m, p)
        BY <1>1, <3>2 DEF Queued, Here, Kept
      <4> QED
        BY <3>2, <4>3, <4>4 DEF Queued
    <3> QED
      BY <3>1, <3>2 DEF Worked
  <2> QED
    BY <2>1 DEF Worked
<1> QED
  BY <1>1, <1>3, <1>4 DEF Worked

\* A packet that goes out.
LEMMA OutWorked ==
  ASSUME NEW s \in Switch, NEW st \in AtWork(s), NEW y \in AtWork(s), NEW x \in Packet,
         Kept(st.m, y.m), \A d \in Host : st.m.nxtData[d] <= y.m.nxtData[d],
         y.q = Enqueue(s, st.q, x), Here(s, st.m, x), Absolute => x.psn <= y.m.nxtData[x.dst]
  PROVE  Worked(s, st, y)
<1> DEFINE o == PortTo(s, x.dst)
<1>1. o \in Link /\ o[1] = s /\ o[2] = NextHop[s][x.dst]
  <2>1. x.dst \in Host
    BY DEF Packet
  <2> QED
    BY <2>1, PortIn DEF PortTo
<1>2. st.q \in [Link -> Seq(Packet)]
  BY DEF AtWork
<1>3. y.q[o] = Append(st.q[o], x) /\ \A l \in Link : l # o => y.q[l] = st.q[l]
  BY <1>2, EnqueueOut
<1>4. Queued(o, y.m, x)
  BY <1>1 DEF Queued, Here, Out, Kept
<1> HIDE DEF o
<1>5. ASSUME NEW l \in Link, NEW i \in DOMAIN y.q[l]
      PROVE  \/ \E j \in DOMAIN st.q[l] : st.q[l][j] = y.q[l][i]
             \/ l[1] = s /\ Queued(l, y.m, y.q[l][i])
  <2>1. CASE l # o
    BY <1>3, <2>1
  <2>2. CASE l = o
    <3> DEFINE q == st.q[o]
    <3>1. q \in Seq(Packet) /\ y.q[l] = Append(q, x)
      BY <1>1, <1>2, <1>3, <2>2
    <3> HIDE DEF q
    <3>2. (i \in DOMAIN q /\ y.q[l][i] = q[i]) \/ y.q[l][i] = x
      BY <3>1
    <3> QED
      BY <1>1, <1>4, <2>2, <3>2 DEF q
  <2> QED
    BY <2>1, <2>2
<1> QED
  BY <1>5 DEF Worked

\* What stays of a VOQ was there.
LEMMA StaysAt ==
  ASSUME NEW s, NEW m \in MmuType(s), NEW n \in MmuType(s), NEW v \in Places, NEW p \in HeadOf(m, v),
         LeftAt(s, m, n, p, v), NEW w \in Places, NEW i \in DOMAIN VoqAt(n, w)
  PROVE  \E j \in DOMAIN VoqAt(m, w) : VoqAt(m, w)[j] = VoqAt(n, w)[i]
<1> DEFINE q == VoqAt(m, v)
<1>1. q \in Seq(Packet) /\ q # << >> /\ VoqAt(n, v) = Tail(q)
  BY VoqsAre, HeadIs DEF LeftAt
<1>2. CASE w = v
  <2>1. i \in DOMAIN Tail(q)
    BY <1>1, <1>2
  <2> HIDE DEF q
  <2>2. i + 1 \in DOMAIN q /\ q[i + 1] = Tail(q)[i]
    BY <1>1, <2>1
  <2> QED
    BY <1>1, <1>2, <2>2 DEF q
<1>3. CASE w # v
  BY <1>3 DEF LeftAt
<1> QED
  BY <1>2, <1>3

LEMMA SentGood ==
  ASSUME settings \in Configuration, NEW s \in Switch, NEW st \in AtWork(s), NEW v \in Places,
         NEW p \in HeadOf(st.m, v), NEW r, r = Sent(s, st, v, p), VoqsGood(s, st.m)
  PROVE  /\ r \in AtWork(s) /\ VoqsGood(s, r.m) /\ Worked(s, st, r) /\ LeftAt(s, st.m, r.m, p, v)
         /\ r.m.buffering[p.dst] = st.m.buffering[p.dst] - p.size
         /\ \A d \in Host : d # p.dst => r.m.buffering[d] = st.m.buffering[d]
<1> DEFINE m == st.m
           n == r.m
<1>1. m \in MmuType(s)
  BY DEF AtWork
<1>2. VoqsOK(s, m) /\ Waits(s, m)
  BY DEF VoqsGood
<1>3. m.buffering[p.dst] >= p.size /\ VoqsOK(s, n)
  BY <1>2, SentOK
<1>4. /\ r \in AtWork(s) /\ Kept(m, n)
      /\ n.nxtData[p.dst] = m.nxtData[p.dst] + p.size
      /\ \A d \in Host : d # p.dst => n.nxtData[d] = m.nxtData[d]
      /\ r.q = Enqueue(s, st.q, Tag(n, p))
      /\ n.buffering[p.dst] = m.buffering[p.dst] - p.size
      /\ \A d \in Host : d # p.dst => n.buffering[d] = m.buffering[d]
  BY <1>3, SentIs
<1>5. LeftAt(s, m, n, p, v)
  BY <1>3, SentAt
<1>6. n \in MmuType(s)
  BY <1>4 DEF AtWork
<1>7. p \in HeadOf(m, v)
  OBVIOUS
<1> HIDE DEF m, n
<1>8. p \in Packet /\ 1 \in DOMAIN VoqAt(m, v) /\ VoqAt(m, v)[1] = p
  <2>1. VoqAt(m, v) # << >> /\ p = Head(VoqAt(m, v)) /\ p \in Packet
    BY <1>1, <1>7, HeadIs
  <2>2. VoqAt(m, v) \in Seq(Packet)
    BY <1>1, VoqsAre
  <2> QED
    BY <2>1, <2>2
<1>9. p.dst \in Host /\ p.size \in Nat
  BY <1>8 DEF Packet, Positive
<1>10. \A d \in Host : m.nxtData[d] <= n.nxtData[d]
  <2>1. \A d \in Host : m.nxtData[d] \in Nat
    BY <1>1 DEF MmuType, Counters
  <2> QED
    BY <1>4, <1>9, <2>1
<1>11. Waits(s, n)
  <2>1. ASSUME NEW w \in Places, NEW i \in DOMAIN VoqAt(n, w)
        PROVE  ~ ShouldIgnore(s, VoqAt(n, w)[i].dst) /\ Here(s, n, VoqAt(n, w)[i])
    <3>1. PICK j \in DOMAIN VoqAt(m, w) : VoqAt(m, w)[j] = VoqAt(n, w)[i]
      BY <1>1, <1>5, <1>6, <1>7, StaysAt
    <3>2. ~ ShouldIgnore(s, VoqAt(m, w)[j].dst) /\ Here(s, m, VoqAt(m, w)[j])
      BY <1>2 DEF Waits
    <3> QED
      BY <1>4, <3>1, <3>2 DEF Here, Kept
  <2> QED
    BY <2>1 DEF Waits
<1>12. Worked(s, st, r)
  <2> DEFINE x == Tag(n, p)
  <2>1. x \in Packet /\ Same(p, x) /\ x.psn = IF Absolute THEN n.nxtData[p.dst] ELSE 0
    BY <1>6, <1>8, TagIs
  <2>2. Here(s, m, p)
    BY <1>2, <1>8 DEF Waits
  <2>3. r.q = Enqueue(s, st.q, x)
    BY <1>4
  <2> HIDE DEF x
  <2>4. Here(s, m, x)
    BY <2>1, <2>2 DEF Here, Same, OnRoute
  <2>5. n.nxtData[p.dst] \in Nat
    BY <1>6, <1>9 DEF MmuType, Counters
  <2>6. Absolute => x.psn <= n.nxtData[x.dst]
    BY <2>1, <2>5 DEF Same
  <2> QED
    BY <1>4, <1>10, <2>1, <2>3, <2>4, <2>6, OutWorked DEF m, n
<1> QED
  BY <1>3, <1>4, <1>5, <1>11, <1>12 DEF VoqsGood, m, n

LEMMA AbleIs ==
  ASSUME settings \in Configuration, NEW s, NEW m \in MmuType(s), NEW turn \in Turns, NEW v \in Able(s, m, turn)
  PROVE  /\ v \in Places /\ \E p \in HeadOf(m, v) : CheckDstWin(m, p.dst, p.size)
         /\ turn \in Places => v = turn
         /\ \A d \in Host : turn = <<d>> => v \in Bound(s, m, d)
<1>1. \E p \in HeadOf(m, v) : CheckDstWin(m, p.dst, p.size)
  BY DEF Able
<1>2. CASE turn \in Places
  <2>1. Len(turn) = 2
    BY <1>2 DEF Places
  <2>2. v = turn
    BY <2>1 DEF Able
  <2> QED
    BY <1>1, <1>2, <2>1, <2>2
<1>3. CASE turn \notin Places
  <2>1. PICK d \in Host : turn = <<d>>
    BY <1>3 DEF Turns
  <2>2. v \in FindVOQ(s, m, d)
    BY <2>1 DEF Able
  <2>3. PICK id \in VG!FindVOQId(m.groups[Group(s, d)], d) : v = <<Group(s, d), id>>
    BY <2>2 DEF FindVOQ, VG!FindVOQ
  <2>4. v \in Bound(s, m, d)
    BY <2>3 DEF Bound
  <2>5. v \in Places
    <3>1. Group(s, d) \in {0, 1} /\ m.groups[Group(s, d)] \in GroupType
      BY GroupIn, GroupsOf
    <3> QED
      BY <2>3, <3>1, FindIs DEF Places
  <2> QED
    BY <1>1, <1>3, <2>1, <2>4, <2>5
<1> QED
  BY <1>2, <1>3

\* A VOQ whose head may be sent has a turn, its own or its destination's.
LEMMA AbleHas ==
  ASSUME settings \in Configuration, NEW s, NEW m \in MmuType(s), VoqsGood(s, m), NEW v \in Places,
         NEW p \in HeadOf(m, v), CheckDstWin(m, p.dst, p.size)
  PROVE  /\ v \in Able(s, m, v) /\ v \in Able(s, m, <<p.dst>>)
         /\ p.dst \in Host /\ v \in Bound(s, m, p.dst)
<1>1. /\ VoqAt(m, v) # << >> /\ p = Head(VoqAt(m, v)) /\ p \in Packet /\ v[2] \in DOMAIN m.groups[v[1]].VOQs
      /\ VoqAt(m, v) \in Seq(Packet)
  BY HeadIs, VoqsAre
<1>2. 1 \in DOMAIN VoqAt(m, v) /\ VoqAt(m, v)[1] = p
  BY <1>1
<1>3. v \in Bound(s, m, p.dst) /\ ~ ShouldIgnore(s, p.dst)
  BY <1>2 DEF VoqsGood, VoqsOK, Placed, Waits
<1>4. p.dst \in Host /\ p.size \in Nat /\ p.size > 0
  BY <1>1 DEF Packet, Positive
<1>5. v \in Able(s, m, v)
  <2>1. Len(v) = 2
    BY DEF Places
  <2> QED
    BY <2>1 DEF Able
<1>6. v \in FindVOQ(s, m, p.dst)
  BY <1>1, <1>3 DEF Bound, FindVOQ, VG!FindVOQ
<1>7. ~ (Inflight(m, p.dst) >= Window)
  <2>1. m.nxtData[p.dst] \in Nat /\ m.rcvAck[p.dst] \in Nat /\ Window \in Nat
    BY <1>4, SettingTypes DEF MmuType, Counters
  <2> QED
    BY <1>4, <2>1 DEF CheckDstWin, Inflight
<1>8. v \in Able(s, m, <<p.dst>>)
  <2> DEFINE t == <<p.dst>>
  <2>1. Len(t) # 2 /\ t[1] = p.dst
    OBVIOUS
  <2> HIDE DEF t
  <2> QED
    BY <1>3, <1>6, <1>7, <2>1 DEF Able, t
<1> QED
  BY <1>3, <1>4, <1>5, <1>8

LEMMA BufferSum ==
  ASSUME NEW s, NEW m \in MmuType(s), NEW n \in MmuType(s), NEW d \in Host, NEW a \in Nat,
         n.buffering[d] = m.buffering[d] - a, \A e \in Host : e # d => n.buffering[e] = m.buffering[e]
  PROVE  /\ CellSum(m.buffering) \in Nat /\ CellSum(n.buffering) \in Nat
         /\ CellSum(n.buffering) = CellSum(m.buffering) - a
<1> DEFINE f == m.buffering
           b == n.buffering[d]
<1>1. f \in [Host -> Nat] /\ f \in [Host -> Int] /\ b \in Nat /\ n.buffering \in [Host -> Nat] /\ IsFiniteSet(Host)
  BY FloodgateParameters DEF MmuType, Counters
<1>2. n.buffering = [f EXCEPT ![d] = b]
  BY <1>1
<1>3. b = f[d] - a /\ f[d] \in Nat
  BY <1>1
<1> HIDE DEF f, b
<1>4. CellSum([f EXCEPT ![d] = b]) = CellSum(f) + (b - f[d])
  BY <1>1, CellsChange, Zenon
<1>5. CellSum(f) \in Nat
  BY <1>1, CellsFinite
<1>6. CellSum(n.buffering) \in Nat
  BY <1>1, CellsFinite
<1>7. CellSum(n.buffering) = CellSum(f) - a
  BY <1>2, <1>3, <1>4, <1>5
<1> QED
  BY <1>5, <1>6, <1>7 DEF f

\* A turn keeps that, and sends a packet or makes the line shorter.
LEMMA TurnServes ==
  ASSUME settings \in Configuration, NEW s \in Switch, NEW st \in AtWork(s), NEW x \in Serving(s, st)
  PROVE  /\ Turn(s, x) \in Serving(s, st) /\ Still(x) \in Nat /\ Still(Turn(s, x)) \in Nat
         /\ x.line = << >> => Turn(s, x) = x
         /\ x.line # << >> => Still(Turn(s, x)) < Still(x)
<1> DEFINE m == x.st.m
           line == x.line
           turn == Head(line)
           able == Able(s, m, turn)
           y == Turn(s, x)
<1>1. /\ x.st \in AtWork(s) /\ line \in Seq(Turns) /\ VoqsGood(s, m) /\ Worked(s, st, x.st) /\ LinedUp(m, line)
      /\ Moved(s, st, x.st) /\ m \in MmuType(s) /\ x = [st |-> x.st, line |-> line]
  BY DEF Serving, AtWork
<1>2. CellSum(m.buffering) \in Nat /\ Still(x) \in Nat
  <2>1. m.buffering \in [Host -> Int] /\ IsFiniteSet(Host)
    BY <1>1, FloodgateParameters DEF MmuType, Counters
  <2>2. CellSum(m.buffering) \in Nat
    <3> HIDE DEF m
    <3> QED
      BY <2>1, CellsFinite
  <2>3. Len(line) \in Nat
    BY <1>1
  <2> QED
    BY <2>2, <2>3 DEF Still
<1>3. CASE line = << >>
  <2>1. y = x
    BY <1>3 DEF Turn
  <2> QED
    BY <1>2, <1>3, <2>1
<1>4. CASE line # << >>
  <2>1. turn \in Turns /\ Tail(line) \in Seq(Turns) /\ Len(Tail(line)) = Len(line) - 1 /\ Len(line) \in Nat
    <3> HIDE DEF line
    <3> QED
      BY <1>1, <1>4
  <2>2. ASSUME NEW i \in DOMAIN line, line[i] # turn
        PROVE  i - 1 \in DOMAIN Tail(line) /\ Tail(line)[i - 1] = line[i]
    <3> HIDE DEF line
    <3> QED
      BY <1>1, <1>4, <2>2
  <2>3. CASE able = {}
    <3>1. y = [st |-> x.st, line |-> Tail(line)]
      BY <1>1, <1>4, <2>3, Zenon DEF Turn
    <3>2. ASSUME NEW v \in Places, NEW p \in HeadOf(m, v), CheckDstWin(m, p.dst, p.size)
          PROVE  \E i \in DOMAIN Tail(line) : Tail(line)[i] = v \/ Tail(line)[i] = <<p.dst>>
      <4>1. PICK i \in DOMAIN line : line[i] = v \/ line[i] = <<p.dst>>
        BY <1>1, <3>2, Zenon DEF LinedUp
      <4>2. v \in Able(s, m, v) /\ v \in Able(s, m, <<p.dst>>)
        <5> HIDE DEF m
        <5> QED
          BY <1>1, <3>2, AbleHas
      <4>3. line[i] # turn
        BY <2>3, <4>1, <4>2
      <4> QED
        BY <2>2, <4>1, <4>3, Zenon
    <3>3. LinedUp(m, Tail(line))
      BY <3>2, Zenon DEF LinedUp
    <3>4. y \in Serving(s, st)
      <4> HIDE DEF y
      <4>1. y.st = x.st /\ y.line = Tail(line) /\ y \in [st : AtWork(s), line : Seq(Turns)]
        BY <1>1, <2>1, <3>1
      <4> QED
        BY <1>1, <3>3, <4>1, Zenon DEF Serving
    <3>5. Still(y) = Still(x) - 1
      BY <1>2, <2>1, <3>1 DEF Still
    <3>6. Still(y) \in Nat
      BY <1>2, <2>1, <3>1 DEF Still
    <3> QED
      BY <1>2, <1>4, <3>4, <3>5, <3>6
  <2>4. CASE able # {}
    <3> DEFINE w == CHOOSE z \in able : TRUE
               p == CHOOSE z \in HeadOf(m, w) : TRUE
               r == Sent(s, x.st, w, p)
               n == r.m
               rest == Append(Tail(line), w)
    <3>1. w \in able
      BY <2>4
    <3>2. /\ w \in Places /\ HeadOf(m, w) # {}
          /\ turn \in Places => w = turn
          /\ \A d \in Host : turn = <<d>> => w \in Bound(s, m, d)
      <4> HIDE DEF m, turn, w
      <4> QED
        BY <1>1, <2>1, <3>1, AbleIs DEF able
    <3>3. p \in HeadOf(m, w)
      BY <3>2, Zenon
    <3>4. y = [st |-> r, line |-> rest]
      <4>1. y = [st |-> SendOne(s, x.st, w), line |-> rest]
        BY <1>4, <2>4 DEF Turn
      <4>2. SendOne(s, x.st, w) = r
        BY SendOneIsSent, Zenon
      <4> QED
        BY <4>1, <4>2, Zenon
    <3> HIDE DEF w, p
    <3>5. /\ r \in AtWork(s) /\ VoqsGood(s, n) /\ Worked(s, x.st, r) /\ LeftAt(s, m, n, p, w)
          /\ n.buffering[p.dst] = m.buffering[p.dst] - p.size
          /\ \A d \in Host : d # p.dst => n.buffering[d] = m.buffering[d]
      <4> HIDE DEF r
      <4> QED
        BY <1>1, <3>2, <3>3, SentGood DEF r
    <3>6. n \in MmuType(s)
      BY <3>5 DEF AtWork
    <3> HIDE DEF n, m
    <3>7. p \in Packet
      BY <1>1, <3>2, <3>3, HeadIs
    <3>8. p.dst \in Host /\ p.size \in Nat /\ p.size > 0
      BY <3>7 DEF Packet, Positive
    <3>9. rest \in Seq(Turns) /\ Len(rest) = Len(line) /\ rest[Len(line)] = w /\ Len(line) \in DOMAIN rest
      <4>1. w \in Turns
        BY <3>2 DEF Turns
      <4>2. Len(Tail(line)) \in Nat
        BY <2>1
      <4> HIDE DEF line
      <4> QED
        BY <2>1, <4>1, <4>2
    <3>10. ASSUME NEW v \in Places, NEW k \in HeadOf(n, v), CheckDstWin(n, k.dst, k.size)
           PROVE  \E i \in DOMAIN rest : rest[i] = v \/ rest[i] = <<k.dst>>
      <4>1. CASE v = w
        BY <3>9, <4>1
      <4>2. CASE v # w
        <5>1. VoqAt(n, v) # << >> /\ k = Head(VoqAt(n, v)) /\ k \in Packet
          BY <3>6, <3>10, HeadIs
        <5>2. VoqAt(n, v) = VoqAt(m, v)
          BY <3>5, <4>2, Zenon DEF LeftAt
        <5>3. k \in HeadOf(m, v)
          BY <5>1, <5>2 DEF HeadOf, VoqAt, InVOQ
        <5>4. k.dst \in Host /\ k.size \in Nat
          BY <5>1 DEF Packet, Positive
        <5>5. CheckDstWin(m, k.dst, k.size)
          <6>1. m.nxtData[k.dst] <= n.nxtData[k.dst] /\ n.rcvAck = m.rcvAck
            BY <3>5, <5>4 DEF Worked, Kept, m, n
          <6>2. m.nxtData[k.dst] \in Nat /\ n.nxtData[k.dst] \in Nat /\ m.rcvAck[k.dst] \in Nat /\ Window \in Nat
            BY <1>1, <3>6, <5>4, SettingTypes, Zenon DEF MmuType, Counters
          <6> QED
            BY <3>10, <5>4, <6>1, <6>2 DEF CheckDstWin, Inflight
        <5>6. PICK i \in DOMAIN line : line[i] = v \/ line[i] = <<k.dst>>
          BY <1>1, <5>3, <5>5, Zenon DEF LinedUp
        <5>7. line[i] # turn
          <6>1. CASE line[i] = v
            BY <3>2, <4>2, <6>1
          <6>2. CASE line[i] = <<k.dst>>
            <7>1. v \in Bound(s, m, k.dst)
              BY <1>1, <5>3, <5>5, AbleHas, Zenon
            <7>2. turn = <<k.dst>> => w \in Bound(s, m, k.dst)
              BY <3>2, <5>4
            <7>3. m.groups[Group(s, k.dst)] \in GroupType
              BY <1>1, GroupIn, GroupsOf
            <7>4. \A a, b \in VG!FindVOQId(m.groups[Group(s, k.dst)], k.dst) : a = b
              BY <5>4, <7>3, FindIs
            <7> QED
              BY <4>2, <6>2, <7>1, <7>2, <7>4 DEF Bound
          <6> QED
            BY <5>6, <6>1, <6>2
        <5>8. i - 1 \in DOMAIN Tail(line) /\ Tail(line)[i - 1] = line[i]
          BY <2>2, <5>7
        <5>9. i - 1 \in DOMAIN rest /\ rest[i - 1] = Tail(line)[i - 1]
          <6> DEFINE q == Tail(line)
          <6>1. q \in Seq(Turns) /\ i - 1 \in DOMAIN q
            BY <2>1, <5>8
          <6> HIDE DEF q
          <6> QED
            BY <6>1 DEF q
        <5> QED
          BY <5>6, <5>8, <5>9
      <4> QED
        BY <4>1, <4>2, Zenon
    <3>11. LinedUp(n, rest)
      BY <3>10, Zenon DEF LinedUp
    <3>12. Worked(s, st, r) /\ Moved(s, st, r)
      <4>1. Moved(s, x.st, r)
        <5>1. w \in Places /\ p \in HeadOf(x.st.m, w) /\ VoqsOK(s, x.st.m)
          BY <1>1, <3>2, <3>3 DEF VoqsGood, m
        <5> HIDE DEF r
        <5> QED
          BY <1>1, <5>1, SentMoves DEF r
      <4> QED
        BY <1>1, <3>5, <4>1, WorkedOn, MovedOn
    <3>13. y \in Serving(s, st)
      <4> HIDE DEF y, r, rest
      <4>1. y.st = r /\ y.line = rest /\ y \in [st : AtWork(s), line : Seq(Turns)]
        BY <3>4, <3>5, <3>9
      <4> QED
        BY <3>5, <3>11, <3>12, <4>1 DEF Serving, n
    <3>14. /\ CellSum(n.buffering) \in Nat
           /\ CellSum(n.buffering) = CellSum(m.buffering) - p.size
      BY <1>1, <3>5, <3>6, <3>8, BufferSum
    <3>15. Still(y) = Len(line) + CellSum(n.buffering) /\ Still(x) = Len(line) + CellSum(m.buffering)
      BY <3>4, <3>9 DEF Still, n, m
    <3>16. Still(y) \in Nat /\ Still(y) < Still(x)
      BY <1>2, <2>1, <3>8, <3>14, <3>15
    <3> QED
      BY <1>2, <1>4, <3>13, <3>16
  <2> QED
    BY <2>3, <2>4
<1> QED
  BY <1>3, <1>4

LEMMA RunExists ==
  ASSUME NEW s, NEW x, NEW n \in Nat
  PROVE  \E g : Run(g, n, s, x)
<1> DEFINE T == {k \in Nat : ~ \E g : Run(g, k, s, x)}
<1>1. SUFFICES ASSUME T # {} PROVE FALSE
  OBVIOUS
<1>2. PICK k \in T : \A j \in T : k <= j
  <2>1. T \subseteq Nat
    OBVIOUS
  <2> HIDE DEF T
  <2> QED
    BY <1>1, <2>1, Smallest, Zenon
<1>3. k \in Nat /\ ~ \E g : Run(g, k, s, x)
  OBVIOUS
<1>4. CASE k = 0
  <2> DEFINE g == [i \in 0 .. 0 |-> x]
  <2>1. Run(g, 0, s, x)
    BY DEF Run
  <2> QED
    BY <1>3, <1>4, <2>1
<1>5. CASE k # 0
  <2>1. k - 1 \in Nat /\ ~ (k <= k - 1)
    BY <1>3, <1>5
  <2>2. PICK g : Run(g, k - 1, s, x)
    BY <1>2, <2>1
  <2> DEFINE h == [i \in 0 .. k |-> IF i = k THEN Turn(s, g[k - 1]) ELSE g[i]]
  <2>3. \A i \in 0 .. k - 1 : g[i] = IF i = 0 THEN x ELSE Turn(s, g[i - 1])
    BY <2>2 DEF Run
  <2>4. ASSUME NEW i \in 0 .. k PROVE h[i] = IF i = 0 THEN x ELSE Turn(s, h[i - 1])
    <3>1. CASE i = k
      <4>1. k - 1 \in 0 .. k /\ k - 1 # k
        BY <1>3, <1>5
      <4> QED
        BY <1>5, <3>1, <4>1
    <3>2. CASE i # k
      <4>1. i \in 0 .. k - 1 /\ (i # 0 => i - 1 \in 0 .. k /\ i - 1 # k)
        BY <1>3, <3>2
      <4> QED
        BY <2>3, <3>2, <4>1
    <3> QED
      BY <3>1, <3>2
  <2>5. Run(h, k, s, x)
    BY <2>4 DEF Run
  <2> QED
    BY <1>3, <2>5
<1> QED
  BY <1>4, <1>5

LEMMA RunsAgree ==
  ASSUME NEW s, NEW x, NEW n \in Nat, NEW k \in Nat, NEW g, NEW h, Run(g, n, s, x), Run(h, k, s, x),
         NEW i \in 0 .. n, i <= k
  PROVE  g[i] = h[i]
<1> DEFINE T == {j \in 0 .. n : j <= k /\ g[j] # h[j]}
<1>1. SUFFICES ASSUME T # {} PROVE FALSE
  OBVIOUS
<1>2. PICK j \in T : \A l \in T : j <= l
  <2>1. T \subseteq Nat
    OBVIOUS
  <2> HIDE DEF T
  <2> QED
    BY <1>1, <2>1, Smallest, Zenon
<1>3. j \in 0 .. n /\ j <= k /\ j \in Nat /\ j \in 0 .. k /\ g[j] # h[j]
  OBVIOUS
<1>4. /\ g[j] = IF j = 0 THEN x ELSE Turn(s, g[j - 1])
      /\ h[j] = IF j = 0 THEN x ELSE Turn(s, h[j - 1])
  BY <1>3 DEF Run
<1>5. j # 0
  BY <1>3, <1>4
<1>6. j - 1 \in 0 .. n /\ j - 1 <= k /\ ~ (j <= j - 1)
  BY <1>3, <1>5
<1>7. g[j - 1] = h[j - 1]
  BY <1>2, <1>6
<1> QED
  BY <1>3, <1>4, <1>5, <1>7

LEMMA ServesExists ==
  ASSUME NEW s, NEW x
  PROVE  \E f : Serves(f, s, x)
<1> DEFINE run(n) == CHOOSE g : Run(g, n, s, x)
           f == [n \in Nat |-> run(n)[n]]
<1>1. \A n \in Nat : Run(run(n), n, s, x)
  BY RunExists
<1> HIDE DEF run
<1>2. ASSUME NEW n \in Nat PROVE f[n] = IF n = 0 THEN x ELSE Turn(s, f[n - 1])
  <2>1. n \in 0 .. n /\ f[n] = run(n)[n]
    OBVIOUS
  <2>2. Run(run(n), n, s, x)
    BY <1>1
  <2>3. run(n)[n] = IF n = 0 THEN x ELSE Turn(s, run(n)[n - 1])
    <3> DEFINE g == run(n)
    <3>1. Run(g, n, s, x)
      BY <2>2
    <3> HIDE DEF g
    <3>2. g[n] = IF n = 0 THEN x ELSE Turn(s, g[n - 1])
      BY <2>1, <3>1 DEF Run
    <3> QED
      BY <3>2 DEF g
  <2>4. ASSUME n # 0 PROVE run(n)[n - 1] = f[n - 1]
    <3>1. n - 1 \in Nat /\ n - 1 \in 0 .. n /\ n - 1 <= n - 1
      BY <2>4
    <3>2. Run(run(n - 1), n - 1, s, x)
      BY <1>1, <3>1
    <3>3. f[n - 1] = run(n - 1)[n - 1]
      BY <3>1
    <3> DEFINE k == n - 1
               g == run(n)
               h == run(n - 1)
    <3>4. k \in Nat /\ k \in 0 .. n /\ k <= k /\ Run(g, n, s, x) /\ Run(h, k, s, x)
      BY <2>2, <3>1, <3>2
    <3> HIDE DEF k, g, h, f
    <3>5. g[k] = h[k]
      BY <3>4, RunsAgree
    <3> QED
      BY <3>3, <3>5 DEF k, g, h
  <2> QED
    BY <2>1, <2>3, <2>4
<1> HIDE DEF f
<1>3. f = [n \in Nat |-> f[n]]
  BY DEF f
<1>4. Serves(f, s, x)
  <2>1. f = [n \in Nat |-> IF n = 0 THEN x ELSE Turn(s, f[n - 1])]
    BY <1>2, <1>3, Zenon
  <2> QED
    BY <2>1 DEF Serves
<1> QED
  BY <1>4

LEMMA SendWhileIs ==
  ASSUME settings \in Configuration, NEW s \in Switch, NEW st \in AtWork(s), NEW line \in Seq(Turns),
         VoqsGood(s, st.m), LinedUp(st.m, line), NEW r, r = SendWhile(s, st, line)
  PROVE  Served(s, st, r) /\ Moved(s, st, r)
<1> DEFINE x == [st |-> st, line |-> line]
           f == CHOOSE g : Serves(g, s, x)
           N == Still(x)
<1>1. x \in Serving(s, st) /\ x.st = st /\ x.line = line
  <2>1. x.st = st /\ x.line = line /\ x \in [st : AtWork(s), line : Seq(Turns)]
    OBVIOUS
  <2> HIDE DEF x
  <2> QED
    BY <2>1, WorkedNot, MovedNot DEF Serving
<1>2. r = f[N].st
  <2>1. r = f[Len(line) + CellSum(st.m.buffering)].st
    BY DEF SendWhile, Serves
  <2> QED
    BY <2>1 DEF Still
<1>3. Serves(f, s, x)
  <2> HIDE DEF x
  <2> QED
    BY ServesExists
<1> HIDE DEF f, x
<1>4. f[0] = x /\ \A n \in Nat : n # 0 => f[n] = Turn(s, f[n - 1])
  BY <1>3 DEF Serves
<1>5. N \in Nat
  BY <1>1, TurnServes
<1> HIDE DEF N
<1> DEFINE Good(n) == /\ f[n] \in Serving(s, st)
                      /\ Still(f[n]) \in Nat
                      /\ f[n].line = << >> \/ Still(f[n]) + n <= N
<1>6. \A n \in Nat : Good(n)
  <2> DEFINE T == {n \in Nat : ~ Good(n)}
  <2>1. SUFFICES ASSUME T # {} PROVE FALSE
    OBVIOUS
  <2>2. PICK k \in T : \A j \in T : k <= j
    <3>1. T \subseteq Nat
      OBVIOUS
    <3> HIDE DEF T
    <3> QED
      BY <2>1, <3>1, Smallest, Zenon
  <2>3. k \in Nat /\ ~ Good(k)
    OBVIOUS
  <2>4. Good(0)
    <3>1. Still(x) + 0 <= N /\ Still(x) \in Nat
      BY <1>5 DEF N
    <3> QED
      BY <1>1, <1>4, <3>1
  <2>5. k # 0
    BY <2>3, <2>4
  <2>6. k - 1 \in Nat /\ ~ (k <= k - 1)
    BY <2>3, <2>5
  <2>7. Good(k - 1)
    BY <2>2, <2>6
  <2> DEFINE y == f[k - 1]
  <2>8. f[k] = Turn(s, y)
    BY <1>4, <2>3, <2>5
  <2>9. /\ y \in Serving(s, st) /\ Still(y) \in Nat
        /\ y.line = << >> \/ Still(y) + (k - 1) <= N
    BY <2>7
  <2> HIDE DEF y
  <2>10. /\ Turn(s, y) \in Serving(s, st) /\ Still(Turn(s, y)) \in Nat
         /\ y.line = << >> => Turn(s, y) = y
         /\ y.line # << >> => Still(Turn(s, y)) < Still(y)
    BY <2>9, TurnServes
  <2>11. f[k] \in Serving(s, st) /\ Still(f[k]) \in Nat
    BY <2>8, <2>10
  <2>12. f[k].line = << >> \/ Still(f[k]) + k <= N
    <3>1. CASE y.line = << >>
      BY <2>8, <2>10, <3>1
    <3>2. CASE y.line # << >>
      <4> DEFINE a == Still(y)
                 b == Still(Turn(s, y))
      <4>1. a \in Nat /\ b \in Nat /\ b < a /\ a + (k - 1) <= N
        BY <2>9, <2>10, <3>2
      <4> HIDE DEF a, b
      <4>2. b + k <= N
        BY <1>5, <2>3, <4>1
      <4> QED
        BY <2>8, <4>2 DEF b
    <3> QED
      BY <3>1, <3>2
  <2> QED
    BY <2>3, <2>11, <2>12
<1> DEFINE z == f[N]
<1>7. z \in Serving(s, st) /\ Still(z) \in Nat /\ (z.line = << >> \/ Still(z) + N <= N)
  BY <1>5, <1>6, Zenon
<1> HIDE DEF z
<1>8. /\ z.st \in AtWork(s) /\ z.line \in Seq(Turns) /\ VoqsGood(s, z.st.m) /\ Worked(s, st, z.st)
      /\ Moved(s, st, z.st) /\ LinedUp(z.st.m, z.line)
  BY <1>7 DEF Serving
<1>9. z.line = << >>
  <2>1. ASSUME z.line # << >> PROVE FALSE
    <3>1. Still(z) = 0
      BY <1>5, <1>7, <2>1
    <3>2. Len(z.line) \in Nat /\ Len(z.line) > 0
      BY <1>8, <2>1
    <3>3. CellSum(z.st.m.buffering) \in Nat
      <4> DEFINE b == z.st.m.buffering
      <4>1. b \in [Host -> Int] /\ IsFiniteSet(Host)
        BY <1>8, FloodgateParameters DEF AtWork, MmuType, Counters
      <4> HIDE DEF b
      <4>2. CellSum(b) \in Nat
        BY <4>1, CellsFinite
      <4> QED
        BY <4>2 DEF b
    <3> QED
      BY <3>1, <3>2, <3>3 DEF Still
  <2> QED
    BY <2>1
<1>10. Lacks(z.st.m)
  BY <1>8, <1>9 DEF LinedUp, Lacks
<1> QED
  BY <1>2, <1>8, <1>10 DEF Served, z

\* The ids in order, as the maps of the code go through them.
LEMMA SortedIs ==
  ASSUME NEW D \in SUBSET Host
  PROVE  /\ Cardinality(D) \in Nat /\ Sorted(D) \in Seq(D) /\ DOMAIN Sorted(D) = 1 .. Cardinality(D)
         /\ \A d \in D : \E i \in DOMAIN Sorted(D) : Sorted(D)[i] = d
<1> DEFINE rank(d) == Cardinality({e \in D : e <= d})
           N == Cardinality(D)
<1>1. IsFiniteSet(D) /\ D \in SUBSET Int
  <2>1. IsFiniteSet(Host) /\ Host \subseteq Nat /\ D \subseteq Host
    BY FloodgateParameters
  <2>2. IsFiniteSet(D)
    BY <2>1, FS_Subset, Zenon
  <2>3. \A d \in D : d \in Int
    BY <2>1
  <2> QED
    BY <2>2, <2>3
<1>2. /\ N \in Nat
      /\ \A i \in D : rank(i) \in 1 .. N
      /\ \A i, j \in D : rank(i) = rank(j) => i = j
      /\ \A n \in 1 .. N : \E i \in D : rank(i) = n
  BY <1>1, Ranks, Zenon
<1>3. Sorted(D) = [i \in 1 .. N |-> CHOOSE d \in D : rank(d) = i]
  BY DEF Sorted
<1> HIDE DEF rank, N
<1>4. \A i \in 1 .. N : Sorted(D)[i] \in D /\ rank(Sorted(D)[i]) = i
  BY <1>2, <1>3
<1>5. ASSUME NEW d \in D PROVE \E i \in 1 .. N : Sorted(D)[i] = d
  <2>1. rank(d) \in 1 .. N
    BY <1>2
  <2>2. Sorted(D)[rank(d)] \in D /\ rank(Sorted(D)[rank(d)]) = rank(d)
    BY <1>4, <2>1
  <2>3. Sorted(D)[rank(d)] = d
    BY <1>2, <2>2
  <2> QED
    BY <2>1, <2>3
<1>6. Sorted(D) \in [1 .. N -> D]
  BY <1>3, <1>4
<1> QED
  BY <1>2, <1>5, <1>6 DEF N

\* After a window is restored, only packets to its destination may be able to go.
LEMMA DstServed ==
  ASSUME settings \in Configuration, NEW s \in Switch, NEW st \in AtWork(s), VoqsGood(s, st.m), NEW d \in Host,
         \A v \in Places : \A p \in HeadOf(st.m, v) : CheckDstWin(st.m, p.dst, p.size) => p.dst = d,
         NEW r, r = CheckAndSendVOQ(s, st, d)
  PROVE  Served(s, st, r) /\ Moved(s, st, r)
<1> DEFINE m == st.m
           found == FindVOQ(s, m, d)
           line == IF ShouldIgnore(s, d) \/ found = {} THEN << >> ELSE <<CHOOSE v \in found : TRUE>>
<1>1. m \in MmuType(s)
  BY DEF AtWork
<1>2. r = SendWhile(s, st, line)
  BY DEF CheckAndSendVOQ
<1>3. /\ found \subseteq Places /\ found \subseteq Bound(s, m, d)
      /\ \A a, b \in Bound(s, m, d) : a = b
  <2> HIDE DEF m
  <2>1. Group(s, d) \in {0, 1} /\ m.groups[Group(s, d)] \in GroupType
    BY <1>1, GroupIn, GroupsOf
  <2>2. /\ VG!FindVOQId(m.groups[Group(s, d)], d) \subseteq Ids
        /\ \A a, b \in VG!FindVOQId(m.groups[Group(s, d)], d) : a = b
    BY <2>1, FindIs
  <2> QED
    BY <2>1, <2>2 DEF FindVOQ, VG!FindVOQ, Bound, Places
<1>4. line \in Seq(Turns)
  <2>1. found # {} => (CHOOSE v \in found : TRUE) \in Turns
    BY <1>3 DEF Turns
  <2> HIDE DEF found
  <2> QED
    BY <2>1
<1>5. ASSUME NEW v \in Places, NEW p \in HeadOf(m, v), CheckDstWin(m, p.dst, p.size)
      PROVE  \E i \in DOMAIN line : line[i] = v
  <2>1. p.dst = d
    BY <1>5
  <2>2. v \in Able(s, m, <<d>>) /\ v \in Bound(s, m, d)
    <3> HIDE DEF m
    <3>1. VoqsGood(s, m)
      BY DEF m
    <3> QED
      BY <1>1, <1>5, <2>1, <3>1, AbleHas
  <2>3. ~ ShouldIgnore(s, d) /\ v \in found
    <3> DEFINE t == <<d>>
    <3>1. Len(t) # 2 /\ t[1] = d /\ v \in Able(s, m, t)
      BY <2>2
    <3> HIDE DEF t
    <3> QED
      BY <3>1 DEF Able
  <2>4. line = <<v>>
    BY <1>3, <2>3
  <2> HIDE DEF line
  <2>5. 1 \in DOMAIN line /\ line[1] = v
    BY <2>4
  <2> QED
    BY <2>5
<1>6. LinedUp(m, line)
  BY <1>5 DEF LinedUp
<1> HIDE DEF line
<1> QED
  BY <1>2, <1>4, <1>6, SendWhileIs

LEMMA AllServed ==
  ASSUME settings \in Configuration, NEW s \in Switch, NEW st \in AtWork(s), VoqsGood(s, st.m),
         NEW r, r = CheckAndSendVOQAll(s, st)
  PROVE  Served(s, st, r) /\ Moved(s, st, r)
<1> DEFINE m == st.m
           line == [i \in DOMAIN HostSeq |-> <<HostSeq[i]>>]
<1>1. /\ HostSeq \in Seq(Host)
      /\ \A d \in Host : \E i \in DOMAIN HostSeq : HostSeq[i] = d
  BY SortedIs DEF HostSeq
<1>2. line \in Seq(Turns) /\ DOMAIN line = DOMAIN HostSeq
  <2> DEFINE q == HostSeq
  <2>1. q \in Seq(Host) /\ line = [i \in DOMAIN q |-> <<q[i]>>]
    BY <1>1
  <2> HIDE DEF q, line
  <2>2. \A i \in DOMAIN q : q[i] \in Host /\ <<q[i]>> \in Turns
    BY <2>1 DEF Turns
  <2>3. line \in [1 .. Len(q) -> Turns] /\ Len(q) \in Nat
    BY <2>1, <2>2
  <2> QED
    BY <2>1, <2>3 DEF q
<1>3. r = SendWhile(s, st, line)
  BY DEF CheckAndSendVOQAll
<1>4. m \in MmuType(s) /\ VoqsGood(s, m)
  BY DEF AtWork
<1>5. ASSUME NEW v \in Places, NEW p \in HeadOf(m, v), CheckDstWin(m, p.dst, p.size)
      PROVE  \E i \in DOMAIN line : line[i] = <<p.dst>>
  <2>1. p.dst \in Host
    <3> HIDE DEF m
    <3> QED
      BY <1>4, <1>5, AbleHas, Zenon
  <2>2. PICK i \in DOMAIN HostSeq : HostSeq[i] = p.dst
    BY <1>1, <2>1
  <2>3. line[i] = <<p.dst>>
    BY <2>2
  <2> HIDE DEF line
  <2> QED
    BY <1>2, <2>2, <2>3
<1>6. LinedUp(m, line)
  BY <1>5 DEF LinedUp
<1> HIDE DEF line
<1> QED
  BY <1>2, <1>3, <1>6, SendWhileIs

\* A window that is used up further lets no more packets through.
LEMMA LacksOn ==
  ASSUME settings \in Configuration, NEW s, NEW m \in MmuType(s), NEW n \in MmuType(s), NEW p \in Packet,
         Kept(m, n), m.nxtData[p.dst] <= n.nxtData[p.dst], ~ CheckDstWin(m, p.dst, p.size)
  PROVE  ~ CheckDstWin(n, p.dst, p.size)
<1>1. p.dst \in Host /\ p.size \in Nat
  BY DEF Packet, Positive
<1>2. /\ m.nxtData[p.dst] \in Nat /\ n.nxtData[p.dst] \in Nat /\ m.rcvAck[p.dst] \in Nat
      /\ n.rcvAck[p.dst] = m.rcvAck[p.dst] /\ Window \in Nat
  BY <1>1, SettingTypes DEF MmuType, Counters, Kept
<1> QED
  BY <1>1, <1>2 DEF CheckDstWin, Inflight

\* A packet passed on or put in a VOQ.
LEMMA WinChecked ==
  ASSUME settings \in Configuration, NEW s \in Switch, NEW st \in AtWork(s), VoqsGood(s, st.m), Lacks(st.m),
         NEW p \in Packet, Here(s, st.m, p), p.psn = 0, NEW r, r = CheckVOQWin(s, st, p)
  PROVE  Served(s, st, r)
<1> DEFINE m == st.m
<1>1. m \in MmuType(s) /\ st.q \in [Link -> Seq(Packet)] /\ VoqsGood(s, m) /\ Lacks(m) /\ Here(s, m, p)
  BY DEF AtWork
<1>2. p.dst \in Host /\ p.size \in Nat /\ p.size > 0 /\ p.psn \in Nat
  BY DEF Packet, Positive
<1>3. CASE ShouldIgnore(s, p.dst)
  <2>1. r.m = m /\ r.q = Enqueue(s, st.q, p) /\ r = [m |-> r.m, q |-> r.q]
    BY <1>3 DEF CheckVOQWin
  <2>2. r.q \in [Link -> Seq(Packet)]
    BY <1>1, <2>1, EnqueueOut
  <2>3. r \in AtWork(s)
    BY <1>1, <2>1, <2>2 DEF AtWork
  <2>4. \A d \in Host : m.nxtData[d] \in Nat /\ m.nxtData[d] <= r.m.nxtData[d]
    BY <1>1, <2>1 DEF MmuType, Counters
  <2>5. Absolute => p.psn <= r.m.nxtData[p.dst]
    BY <1>2, <2>1, <2>4
  <2>6. Worked(s, st, r)
    BY <1>1, <2>1, <2>3, <2>4, <2>5, OutWorked DEF Kept
  <2> QED
    BY <1>1, <2>1, <2>3, <2>6 DEF Served
<1>4. CASE ~ ShouldIgnore(s, p.dst) /\ CheckDstWin(m, p.dst, p.size) /\ m.buffering[p.dst] = 0
  <2> DEFINE c == Charge(m, p.dst, p.size)
             x == Tag(c, p)
  <2>1. r = [m |-> c, q |-> Enqueue(s, st.q, x)]
    BY <1>4 DEF CheckVOQWin, Pass
  <2>2. /\ c \in MmuType(s) /\ Kept(m, c) /\ c.buffering = m.buffering /\ c.groups = m.groups
        /\ c.nxtData[p.dst] = m.nxtData[p.dst] + p.size
        /\ \A d \in Host : d # p.dst => c.nxtData[d] = m.nxtData[d]
    <3> HIDE DEF m
    <3> DEFINE k == c
    <3>1. k = Charge(m, p.dst, p.size)
      OBVIOUS
    <3> HIDE DEF k
    <3>2. /\ k \in MmuType(s) /\ Kept(m, k) /\ k.buffering = m.buffering /\ k.groups = m.groups
          /\ k.nxtData[p.dst] = m.nxtData[p.dst] + p.size
          /\ \A d \in Host : d # p.dst => k.nxtData[d] = m.nxtData[d]
      BY <1>1, <3>1, ChargeIs
    <3> QED
      BY <3>2 DEF k
  <2> HIDE DEF c
  <2>3. x \in Packet /\ Same(p, x) /\ x.psn = IF Absolute THEN c.nxtData[p.dst] ELSE 0
    BY <2>2, TagIs
  <2> HIDE DEF x
  <2>4. r.m = c /\ r.q = Enqueue(s, st.q, x) /\ r \in AtWork(s)
    <3>1. Enqueue(s, st.q, x) \in [Link -> Seq(Packet)]
      BY <1>1, <2>3, EnqueueOut
    <3> QED
      BY <2>1, <2>2, <3>1 DEF AtWork
  <2>5. \A d \in Host : m.nxtData[d] <= c.nxtData[d] /\ c.nxtData[d] \in Nat
    <3>1. \A d \in Host : m.nxtData[d] \in Nat /\ c.nxtData[d] \in Nat
      BY <1>1, <2>2 DEF MmuType, Counters
    <3> QED
      BY <1>2, <2>2, <3>1
  <2>6. Worked(s, st, r)
    <3>1. Here(s, m, x)
      BY <1>1, <2>3 DEF Here, Same, OnRoute
    <3>2. Absolute => x.psn <= c.nxtData[x.dst]
      BY <1>2, <2>3, <2>5 DEF Same
    <3> QED
      BY <1>1, <2>2, <2>3, <2>4, <2>5, <3>1, <3>2, OutWorked
  <2>7. /\ \A v : VoqAt(c, v) = VoqAt(m, v) /\ HeadOf(c, v) = HeadOf(m, v)
        /\ \A d : Bound(s, c, d) = Bound(s, m, d)
        /\ \A d : WaitingBytes(c, d, Node) = WaitingBytes(m, d, Node)
    <3> HIDE DEF m
    <3> QED
      BY <2>2 DEF VoqAt, HeadOf, Bound, WaitingBytes, Voqs, Voq
  <2>8. VoqsGood(s, c)
    <3> HIDE DEF m
    <3> QED
      BY <1>1, <2>2, <2>7 DEF VoqsGood, VoqsOK, Placed, Counted, Needed, Waits, Here, Kept
  <2>9. Lacks(c)
    <3>1. ASSUME NEW v \in Places, NEW k \in HeadOf(c, v) PROVE ~ CheckDstWin(c, k.dst, k.size)
      <4>1. k \in HeadOf(m, v) /\ ~ CheckDstWin(m, k.dst, k.size)
        BY <1>1, <2>7, <3>1 DEF Lacks
      <4>2. k \in Packet
        BY <2>2, HeadIs
      <4>3. m.nxtData[k.dst] <= c.nxtData[k.dst]
        BY <2>5, <4>2 DEF Packet
      <4> HIDE DEF m
      <4> QED
        BY <1>1, <2>2, <4>1, <4>2, <4>3, LacksOn
    <3> QED
      BY <3>1 DEF Lacks
  <2> QED
    BY <2>4, <2>6, <2>8, <2>9 DEF Served
<1>5. CASE ~ ShouldIgnore(s, p.dst) /\ ~ (CheckDstWin(m, p.dst, p.size) /\ m.buffering[p.dst] = 0)
  <2> DEFINE n == r.m
             v == <<Group(s, p.dst), VG!GetVOQId(st.m.groups[Group(s, p.dst)], p.dst)>>
  <2>1. r = Waited(s, st, p)
    BY <1>5 DEF CheckVOQWin, Waited
  <2>2. r \in AtWork(s) /\ r.q = st.q /\ Kept(m, n) /\ n.nxtData = m.nxtData
    BY <2>1, WaitedIs
  <2>3. VoqsOK(s, n)
    BY <1>1, <2>1, WaitedOK DEF VoqsGood
  <2>4. WaitsAt(s, m, n, p, v)
    BY <2>1, WaitedAt
  <2>5. n \in MmuType(s)
    BY <2>2 DEF AtWork
  <2> HIDE DEF n, m, v
  <2>6. v \in Places /\ VoqAt(n, v) = Append(VoqAt(m, v), p) /\ VoqAt(m, v) \in Seq(Packet)
    BY <1>1, <2>4, VoqsAre DEF WaitsAt
  <2>7. Worked(s, st, r)
    <3>1. \A d \in Host : m.nxtData[d] \in Nat
      BY <1>1 DEF MmuType, Counters
    <3>2. \A d \in Host : st.m.nxtData[d] <= r.m.nxtData[d]
      BY <2>2, <3>1 DEF m, n
    <3>3. Kept(st.m, r.m)
      BY <2>2 DEF m, n
    <3> QED
      BY <2>2, <3>2, <3>3 DEF Worked
  <2>8. Waits(s, n)
    <3>1. ASSUME NEW w \in Places, NEW i \in DOMAIN VoqAt(n, w)
          PROVE  ~ ShouldIgnore(s, VoqAt(n, w)[i].dst) /\ Here(s, n, VoqAt(n, w)[i])
      <4>1. CASE VoqAt(n, w)[i] = p
        BY <1>1, <1>5, <2>2, <4>1 DEF Here, Kept
      <4>2. CASE VoqAt(n, w)[i] # p
        <5>1. i \in DOMAIN VoqAt(m, w) /\ VoqAt(m, w)[i] = VoqAt(n, w)[i]
          <6>1. CASE w = v
            <7> DEFINE q == VoqAt(m, v)
            <7>1. q \in Seq(Packet) /\ VoqAt(n, w) = Append(q, p)
              BY <2>6, <6>1
            <7> HIDE DEF q
            <7>2. i \in DOMAIN q /\ VoqAt(n, w)[i] = q[i]
              BY <4>2, <7>1
            <7> QED
              BY <6>1, <7>2 DEF q
          <6>2. CASE w # v
            BY <2>4, <6>2 DEF WaitsAt
          <6> QED
            BY <6>1, <6>2
        <5>2. ~ ShouldIgnore(s, VoqAt(m, w)[i].dst) /\ Here(s, m, VoqAt(m, w)[i])
          BY <1>1, <5>1 DEF VoqsGood, Waits
        <5> QED
          BY <2>2, <5>1, <5>2 DEF Here, Kept
      <4> QED
        BY <4>1, <4>2
    <3> QED
      BY <3>1 DEF Waits
  <2>9. Lacks(n)
    <3>1. ASSUME NEW w \in Places, NEW k \in HeadOf(n, w) PROVE ~ CheckDstWin(n, k.dst, k.size)
      <4>1. VoqAt(n, w) # << >> /\ k = Head(VoqAt(n, w)) /\ k \in Packet
        BY <2>5, HeadIs
      <4>2. m.nxtData[k.dst] <= n.nxtData[k.dst]
        <5>1. m.nxtData[k.dst] \in Nat
          BY <1>1, <4>1, Zenon DEF MmuType, Counters, Packet
        <5> QED
          BY <2>2, <5>1
      <4>3. ~ CheckDstWin(m, k.dst, k.size)
        <5>1. CASE VoqAt(m, w) # << >>
          <6>1. k = Head(VoqAt(m, w))
            <7>1. CASE w = v
              <8> DEFINE q == VoqAt(m, v)
              <8>1. q \in Seq(Packet) /\ q # << >> /\ k = Head(Append(q, p))
                BY <2>6, <4>1, <5>1, <7>1
              <8> HIDE DEF q
              <8>2. k = Head(q)
                BY <8>1
              <8> QED
                BY <7>1, <8>2 DEF q
            <7>2. CASE w # v
              BY <2>4, <4>1, <7>2, SMTT(30) DEF WaitsAt
            <7> QED
              BY <7>1, <7>2
          <6>2. k \in HeadOf(m, w)
            BY <5>1, <6>1 DEF HeadOf, VoqAt, InVOQ
          <6> QED
            BY <1>1, <6>2 DEF Lacks
        <5>2. CASE VoqAt(m, w) = << >>
          <6>1. w = v
            BY <2>4, <4>1, <5>2 DEF WaitsAt
          <6>2. k = p
            <7> DEFINE q == VoqAt(m, v)
            <7>1. q = << >> /\ k = Head(Append(q, p))
              BY <2>6, <4>1, <5>2, <6>1
            <7> HIDE DEF q
            <7> QED
              BY <7>1
          <6>3. m.buffering[p.dst] = 0
            <7> SUFFICES ASSUME m.buffering[p.dst] # 0 PROVE FALSE
              OBVIOUS
            <7>1. WaitingBytes(m, p.dst, Node) # 0
              BY <1>1, <1>2 DEF VoqsGood, VoqsOK, Counted
            <7>2. PICK z \in Places : \E i \in DOMAIN VoqAt(m, z) : IsFor(VoqAt(m, z)[i], p.dst, Node)
              BY <1>1, <7>1, WaitingSome
            <7>3. z \in Bound(s, m, p.dst)
              BY <1>1, <7>2 DEF VoqsGood, VoqsOK, Placed, IsFor
            <7>4. z \in Bound(s, n, p.dst) /\ v \in Bound(s, n, p.dst)
              BY <1>2, <2>4, <7>3 DEF WaitsAt
            <7>5. z = v
              <8>1. n.groups[Group(s, p.dst)] \in GroupType
                BY <2>5, GroupIn, GroupsOf
              <8>2. \A a, b \in VG!FindVOQId(n.groups[Group(s, p.dst)], p.dst) : a = b
                BY <1>2, <8>1, FindIs
              <8> QED
                BY <7>4, <8>2 DEF Bound
            <7> QED
              BY <5>2, <6>1, <7>2, <7>5
          <6> QED
            BY <1>5, <6>2, <6>3
        <5> QED
          BY <5>1, <5>2
      <4> QED
        BY <1>1, <2>2, <2>5, <4>1, <4>2, <4>3, LacksOn
    <3> QED
      BY <3>1 DEF Lacks
  <2> QED
    BY <2>2, <2>3, <2>7, <2>8, <2>9 DEF Served, VoqsGood, n
<1> QED
  BY <1>3, <1>4, <1>5

LEMMA JoinIs ==
  ASSUME settings \in Configuration, NEW s \in Switch, NEW st \in AtWork(s), VoqsGood(s, st.m),
         NEW p \in Packet, NEW r, r = CheckVOQWin(s, st, p)
  PROVE  r \in AtWork(s) /\ ((\E x : PassedOn(s, st, p, x, r)) \/ (\E v : HeldBack(st, p, v, r)))
<1> DEFINE m == st.m
<1>1. m \in MmuType(s) /\ st.q \in [Link -> Seq(Packet)] /\ VoqsGood(s, m)
  BY DEF AtWork
<1>2. p.dst \in Host /\ p.size \in Nat /\ p.size > 0
  BY DEF Packet, Positive
<1>3. PortTo(s, p.dst) \in Link
  BY <1>2, PortIn
<1>4. CASE ShouldIgnore(s, p.dst)
  <2>1. r.m = m /\ r.q = Enqueue(s, st.q, p) /\ r = [m |-> r.m, q |-> r.q]
    BY <1>4 DEF CheckVOQWin
  <2>2. r.q \in [Link -> Seq(Packet)] /\ r.q[PortTo(s, p.dst)] = Append(st.q[PortTo(s, p.dst)], p)
        /\ \A l \in Link : l # PortTo(s, p.dst) => r.q[l] = st.q[l]
    <3>1. r.q = Enqueue(s, st.q, p)
      BY <2>1
    <3> DEFINE q == st.q
               e == r.q
    <3>2. q \in [Link -> Seq(Packet)] /\ e = Enqueue(s, q, p)
      BY <1>1, <3>1
    <3> HIDE DEF q, e
    <3>3. e \in [Link -> Seq(Packet)] /\ e[PortTo(s, p.dst)] = Append(q[PortTo(s, p.dst)], p)
          /\ \A l \in Link : l # PortTo(s, p.dst) => e[l] = q[l]
      BY <3>2, EnqueueOut
    <3> QED
      BY <3>3 DEF q, e
  <2>3. r \in AtWork(s)
    BY <1>1, <2>1, <2>2 DEF AtWork
  <2>4. \A v \in Places : \A i \in DOMAIN VoqAt(m, v) : VoqAt(m, v)[i].dst # p.dst
    BY <1>1, <1>4 DEF VoqsGood, Waits
  <2>5. Same(p, p)
    BY DEF Same
  <2>6. PassedOn(s, st, p, p, r)
    BY <1>3, <1>4, <2>1, <2>2, <2>3, <2>4, <2>5 DEF PassedOn, Kept
  <2> QED
    BY <2>3, <2>6
<1>5. CASE ~ ShouldIgnore(s, p.dst) /\ CheckDstWin(m, p.dst, p.size) /\ m.buffering[p.dst] = 0
  <2> DEFINE c == Charge(m, p.dst, p.size)
             x == Tag(c, p)
  <2>1. r = [m |-> c, q |-> Enqueue(s, st.q, x)]
    BY <1>5 DEF CheckVOQWin, Pass
  <2>2. /\ c \in MmuType(s) /\ Kept(m, c) /\ c.groups = m.groups
        /\ c.nxtData[p.dst] = m.nxtData[p.dst] + p.size
        /\ \A d \in Host : d # p.dst => c.nxtData[d] = m.nxtData[d]
    <3> HIDE DEF m
    <3> DEFINE k == c
    <3>1. k = Charge(m, p.dst, p.size)
      OBVIOUS
    <3> HIDE DEF k
    <3>2. /\ k \in MmuType(s) /\ Kept(m, k) /\ k.groups = m.groups
          /\ k.nxtData[p.dst] = m.nxtData[p.dst] + p.size
          /\ \A d \in Host : d # p.dst => k.nxtData[d] = m.nxtData[d]
      BY <1>1, <3>1, ChargeIs
    <3> QED
      BY <3>2 DEF k
  <2> HIDE DEF c
  <2>3. x \in Packet /\ Same(p, x) /\ x.psn = IF Absolute THEN c.nxtData[p.dst] ELSE 0
    BY <2>2, TagIs
  <2> HIDE DEF x
  <2>4. /\ Enqueue(s, st.q, x) \in [Link -> Seq(Packet)]
        /\ Enqueue(s, st.q, x)[PortTo(s, p.dst)] = Append(st.q[PortTo(s, p.dst)], x)
        /\ \A l \in Link : l # PortTo(s, p.dst) => Enqueue(s, st.q, x)[l] = st.q[l]
    <3>1. x.dst = p.dst
      BY <2>3 DEF Same
    <3> DEFINE q == st.q
    <3>2. q \in [Link -> Seq(Packet)] /\ x \in Packet
      BY <1>1, <2>3
    <3> HIDE DEF q
    <3> QED
      BY <3>1, <3>2, EnqueueOut DEF q
  <2>5. r.m = c /\ r.q = Enqueue(s, st.q, x) /\ r \in AtWork(s)
    BY <2>1, <2>2, <2>4 DEF AtWork
  <2>6. \A v \in Places : \A i \in DOMAIN VoqAt(m, v) : VoqAt(m, v)[i].dst # p.dst
    <3> SUFFICES ASSUME NEW v \in Places, NEW i \in DOMAIN VoqAt(m, v), VoqAt(m, v)[i].dst = p.dst PROVE FALSE
      OBVIOUS
    <3> HIDE DEF m
    <3>1. SizeOf(VoqAt(m, v)[i], p.dst, Node) <= WaitingBytes(m, p.dst, Node)
      BY <1>1, WaitingLeast
    <3>2. WaitingBytes(m, p.dst, Node) = 0
      BY <1>1, <1>2, <1>5 DEF VoqsGood, VoqsOK, Counted
    <3>3. VoqAt(m, v)[i] \in Packet
      <4>1. VoqAt(m, v) \in Seq(Packet)
        BY <1>1, VoqsAre
      <4> QED
        BY <4>1
    <3>4. SizeOf(VoqAt(m, v)[i], p.dst, Node) = VoqAt(m, v)[i].size /\ VoqAt(m, v)[i].size \in Nat \ {0}
      BY <3>3, NodeSize DEF Packet, Positive
    <3> QED
      BY <3>1, <3>2, <3>4
  <2>7. r.m.groups = st.m.groups
    BY <2>2, <2>5
  <2>8. PassedOn(s, st, p, x, r)
    BY <1>3, <2>2, <2>3, <2>4, <2>5, <2>6, <2>7 DEF PassedOn
  <2> QED
    BY <2>5, <2>8
<1>6. CASE ~ ShouldIgnore(s, p.dst) /\ ~ (CheckDstWin(m, p.dst, p.size) /\ m.buffering[p.dst] = 0)
  <2> DEFINE v == <<Group(s, p.dst), VG!GetVOQId(st.m.groups[Group(s, p.dst)], p.dst)>>
  <2>1. r = Waited(s, st, p)
    BY <1>6 DEF CheckVOQWin, Waited
  <2>2. r \in AtWork(s) /\ r.q = st.q /\ Kept(m, r.m) /\ r.m.nxtData = m.nxtData
    BY <2>1, WaitedIs
  <2>3. WaitsAt(s, m, r.m, p, v)
    BY <2>1, WaitedAt
  <2> HIDE DEF v
  <2>4. HeldBack(st, p, v, r)
    BY <2>2, <2>3 DEF HeldBack, WaitsAt
  <2> QED
    BY <2>2, <2>4
<1> QED
  BY <1>4, <1>5, <1>6

LEMMA JoinLined ==
  ASSUME settings \in Configuration, NEW s \in Switch, NEW st \in AtWork(s), NEW p \in Packet, NEW r \in AtWork(s),
         (\E x : PassedOn(s, st, p, x, r)) \/ (\E v : HeldBack(st, p, v, r)),
         NEW d \in Host, NEW k, KeyFor(k, d), NEW lo \in Int, NEW c \in Int, NEW hi \in Int, LinedAt(s, d, k, st, lo, c),
         c <= hi, p \in k.mem => c <= k.lo[p] /\ k.hi[p] <= hi
  PROVE  LinedAt(s, d, k, r, lo, hi)
<1> DEFINE P == st.q[PortTo(s, d)]
           R == r.q[PortTo(s, d)]
<1>1. PICK b \in Int : /\ lo <= b /\ b <= c /\ Numbered(P, k, lo, b)
                       /\ \A w \in Places : Numbered(VoqAt(st.m, w), k, b, c)
  BY DEF LinedAt
<1>2. KeyOK(k) /\ \A z \in k.mem : z.dst = d
  BY DEF KeyFor
<1>3. PortTo(s, d) \in Link
  BY PortIn
<1>4. P \in Seq(Packet) /\ st.m \in MmuType(s)
  BY <1>3 DEF AtWork
<1>5. \A w \in Places : Numbered(VoqAt(st.m, w), k, b, hi)
  BY <1>1, <1>2, NumberedWithin
<1>6. ASSUME NEW x, PassedOn(s, st, p, x, r) PROVE LinedAt(s, d, k, r, lo, hi)
  <2>1. /\ (x \in k.mem <=> p \in k.mem) /\ (p \in k.mem => k.lo[x] = k.lo[p] /\ k.hi[x] = k.hi[p] /\ p.dst = d)
        /\ x \in Packet
    BY <1>6 DEF KeyFor, PassedOn, Same
  <2>2. \A w \in Places : VoqAt(r.m, w) = VoqAt(st.m, w)
    BY <1>6 DEF PassedOn, VoqAt
  <2>3. R = P \/ R = Append(P, x)
    BY <1>3, <1>6 DEF PassedOn
  <2>4. p \in k.mem => R = Append(P, x)
    BY <1>6, <2>1, Zenon DEF PassedOn
  <2> HIDE DEF P, R
  <2>5. CASE p \in k.mem
    <3>1. Numbered(P, k, lo, c) /\ lo <= c
      BY <1>1, <1>2, NumberedWithin
    <3>2. c <= k.lo[x] /\ k.hi[x] <= hi
      BY <2>1, <2>5
    <3>3. Numbered(Append(P, x), k, lo, hi)
      BY <1>2, <1>4, <2>1, <3>1, <3>2, NumberedAppend
    <3>4. ASSUME NEW w \in Places PROVE Numbered(VoqAt(r.m, w), k, hi, hi)
      <4>1. \A i \in DOMAIN VoqAt(st.m, w) : VoqAt(st.m, w)[i] \notin k.mem
        BY <1>2, <1>6, <2>1, <2>5 DEF PassedOn
      <4> QED
        BY <2>2, <4>1, NumberedNone
    <3>5. lo <= hi /\ hi <= hi
      BY <3>1
    <3> QED
      BY <2>4, <2>5, <3>3, <3>4, <3>5, Zenon DEF LinedAt, R
  <2>6. CASE p \notin k.mem
    <3>1. x \notin k.mem /\ b <= b
      BY <1>1, <2>1, <2>6
    <3>2. Numbered(Append(P, x), k, lo, b)
      BY <1>1, <1>2, <1>4, <2>1, <3>1, NumberedAppend
    <3>3. Numbered(R, k, lo, b)
      BY <1>1, <2>3, <3>2, Zenon
    <3>4. b <= hi
      BY <1>1
    <3> QED
      BY <1>1, <1>5, <2>2, <3>3, <3>4 DEF LinedAt, R
  <2> QED
    BY <2>5, <2>6
<1>7. ASSUME NEW v, HeldBack(st, p, v, r) PROVE LinedAt(s, d, k, r, lo, hi)
  <2> DEFINE V == VoqAt(st.m, v)
  <2>1. /\ R = P /\ v \in Places /\ VoqAt(r.m, v) = Append(V, p)
        /\ \A w \in Places : w # v => VoqAt(r.m, w) = VoqAt(st.m, w)
    BY <1>7 DEF HeldBack
  <2>2. V \in Seq(Packet) /\ Numbered(V, k, b, c)
    BY <1>1, <1>4, <2>1, VoqsAre
  <2> HIDE DEF V, P, R
  <2>3. Numbered(Append(V, p), k, b, hi)
    BY <1>1, <1>2, <2>2, NumberedAppend
  <2>4. \A w \in Places : Numbered(VoqAt(r.m, w), k, b, hi)
    BY <1>5, <2>1, <2>3, Zenon
  <2>5. b <= hi
    BY <1>1
  <2> QED
    BY <1>1, <2>1, <2>4, <2>5 DEF LinedAt, P, R
<1> QED
  BY <1>6, <1>7

LEMMA JoinHolds ==
  ASSUME NEW s \in Switch, NEW st \in AtWork(s), NEW p \in Packet, NEW r \in AtWork(s),
         (\E x : PassedOn(s, st, p, x, r)) \/ (\E v : HeldBack(st, p, v, r))
  PROVE  /\ \A d \in Host : \A z : Holds(s, d, st, z) => Holds(s, d, r, z)
         /\ \E x : Holds(s, p.dst, r, x) /\ Same(p, x)
<1>1. st.m \in MmuType(s) /\ st.q \in [Link -> Seq(Packet)] /\ p.dst \in Host
  BY Zenon DEF AtWork, Packet
<1>2. ASSUME NEW q \in Seq(Packet), NEW x \in Packet
      PROVE  /\ \A i \in DOMAIN q : i \in DOMAIN Append(q, x) /\ Append(q, x)[i] = q[i]
             /\ Len(q) + 1 \in DOMAIN Append(q, x) /\ Append(q, x)[Len(q) + 1] = x
  OBVIOUS
<1>3. ASSUME NEW x, PassedOn(s, st, p, x, r)
      PROVE  /\ \A d \in Host : \A z : Holds(s, d, st, z) => Holds(s, d, r, z)
             /\ Holds(s, p.dst, r, x) /\ Same(p, x)
  <2>1. \A w \in Places : VoqAt(r.m, w) = VoqAt(st.m, w)
    BY <1>3 DEF PassedOn, VoqAt
  <2>2. Same(p, x) /\ x \in Packet
    BY <1>3 DEF PassedOn
  <2>3. ASSUME NEW d \in Host, NEW i \in DOMAIN st.q[PortTo(s, d)]
        PROVE  i \in DOMAIN r.q[PortTo(s, d)] /\ r.q[PortTo(s, d)][i] = st.q[PortTo(s, d)][i]
    <3>1. PortTo(s, d) \in Link
      BY PortIn
    <3>2. st.q[PortTo(s, d)] \in Seq(Packet)
      BY <1>1, <3>1
    <3>3. CASE PortTo(s, d) = PortTo(s, p.dst)
      BY <1>2, <1>3, <2>2, <3>2, <3>3 DEF PassedOn
    <3>4. CASE PortTo(s, d) # PortTo(s, p.dst)
      BY <1>3, <3>1, <3>4 DEF PassedOn
    <3> QED
      BY <3>3, <3>4
  <2>4. \A d \in Host : \A z : Holds(s, d, st, z) => Holds(s, d, r, z)
    BY <2>1, <2>3 DEF Holds
  <2>5. \E i \in DOMAIN r.q[PortTo(s, p.dst)] : r.q[PortTo(s, p.dst)][i] = x
    <3>1. r.q[PortTo(s, p.dst)] = Append(st.q[PortTo(s, p.dst)], x) /\ st.q[PortTo(s, p.dst)] \in Seq(Packet)
      BY <1>1, <1>3 DEF PassedOn
    <3> QED
      BY <1>2, <2>2, <3>1
  <2>6. Holds(s, p.dst, r, x)
    BY <2>2, <2>5 DEF Holds
  <2> QED
    BY <2>2, <2>4, <2>6
<1>4. ASSUME NEW v, HeldBack(st, p, v, r)
      PROVE  /\ \A d \in Host : \A z : Holds(s, d, st, z) => Holds(s, d, r, z)
             /\ Holds(s, p.dst, r, p) /\ Same(p, p)
  <2>1. /\ r.q = st.q /\ v \in Places /\ VoqAt(r.m, v) = Append(VoqAt(st.m, v), p)
        /\ \A w \in Places : w # v => VoqAt(r.m, w) = VoqAt(st.m, w)
    BY <1>4 DEF HeldBack
  <2>2. VoqAt(st.m, v) \in Seq(Packet)
    BY <1>1, <2>1, VoqsAre
  <2>3. /\ \A i \in DOMAIN VoqAt(st.m, v) : i \in DOMAIN VoqAt(r.m, v) /\ VoqAt(r.m, v)[i] = VoqAt(st.m, v)[i]
        /\ \E i \in DOMAIN VoqAt(r.m, v) : VoqAt(r.m, v)[i] = p
    BY <1>2, <2>1, <2>2
  <2>4. \A w \in Places : \A i \in DOMAIN VoqAt(st.m, w) : i \in DOMAIN VoqAt(r.m, w) /\ VoqAt(r.m, w)[i] = VoqAt(st.m, w)[i]
    BY <2>1, <2>3
  <2>5. \A d \in Host : \A z : Holds(s, d, st, z) => Holds(s, d, r, z)
    BY <2>1, <2>4 DEF Holds
  <2> QED
    BY <2>1, <2>3, <2>5 DEF Holds, Same
<1> QED
  BY <1>3, <1>4

LEMMA JoinTotal ==
  ASSUME settings \in Configuration, NEW s \in Switch, NEW st \in AtWork(s), NEW p \in Packet, NEW r \in AtWork(s),
         (\E x : PassedOn(s, st, p, x, r)) \/ (\E v : HeldBack(st, p, v, r)), NEW d \in Host, NEW U
  PROVE  Total(s, r, d, U) = Total(s, st, d, U) + SizeOf(p, d, U)
<1> DEFINE P == st.q[PortTo(s, d)]
           R == r.q[PortTo(s, d)]
           m == st.m
           n == r.m
           a == SizeOf(p, d, U)
<1>1. PortTo(s, d) \in Link
  BY PortIn
<1>2. /\ P \in Seq(Packet) /\ P \in Seq(Frame) /\ m \in MmuType(s) /\ n \in MmuType(s) /\ p \in Frame
  BY <1>1, PacketsAreFrames DEF AtWork
<1>3. a \in Nat
  BY SizeSame DEF Same
<1>4. WaitingBytes(m, d, U) \in Nat /\ Bytes(P, d, U) \in Nat
  <2> HIDE DEF m, P
  <2> QED
    BY <1>2, WaitingIs, BytesAre
<1>5. ASSUME NEW x, PassedOn(s, st, p, x, r)
      PROVE  WaitingBytes(n, d, U) = WaitingBytes(m, d, U) /\ Bytes(R, d, U) = Bytes(P, d, U) + a
  <2>1. n.groups = m.groups
    BY <1>5 DEF PassedOn
  <2>2. WaitingBytes(n, d, U) = WaitingBytes(m, d, U)
    <3> HIDE DEF m, n
    <3> QED
      BY <2>1 DEF WaitingBytes, Voqs, Voq
  <2>3. x \in Packet /\ x \in Frame /\ Same(p, x)
    BY <1>5, PacketsAreFrames DEF PassedOn
  <2>4. SizeOf(x, d, U) = a
    BY <2>3, SizeSame
  <2>5. CASE PortTo(s, d) = PortTo(s, p.dst)
    <3>1. R = Append(P, x)
      BY <1>5, <2>5 DEF PassedOn
    <3> HIDE DEF P, R, a
    <3> QED
      BY <1>2, <2>2, <2>3, <2>4, <3>1, BytesAppend
  <2>6. CASE PortTo(s, d) # PortTo(s, p.dst)
    <3>1. R = P /\ p.dst # d
      BY <1>1, <1>5, <2>6 DEF PassedOn
    <3>2. a = 0
      BY <3>1 DEF SizeOf, IsFor
    <3> HIDE DEF P, R, a
    <3> QED
      BY <1>4, <2>2, <3>1, <3>2
  <2> QED
    BY <2>5, <2>6
<1>6. ASSUME NEW v, HeldBack(st, p, v, r)
      PROVE  WaitingBytes(n, d, U) = WaitingBytes(m, d, U) + a /\ R = P
  <2>1. /\ R = P /\ v \in Places /\ VoqAt(n, v) = Append(VoqAt(m, v), p)
        /\ \A w \in Places : w # v => VoqAt(n, w) = VoqAt(m, w)
        /\ m \in MmuType(s) /\ n \in MmuType(s)
    BY <1>2, <1>6 DEF HeldBack
  <2> HIDE DEF m, n, P, R
  <2>2. VoqAt(m, v) \in Seq(Frame)
    BY <1>2, <2>1, VoqsAre
  <2>3. WaitingBytes(n, d, U) = WaitingBytes(m, d, U) + (Bytes(VoqAt(n, v), d, U) - Bytes(VoqAt(m, v), d, U))
    <3>1. m \in MmuType(s) /\ n \in MmuType(s) /\ v \in Places /\ \A w \in Places : w # v => VoqAt(n, w) = VoqAt(m, w)
      BY <2>1
    <3> QED
      BY <3>1, WaitingChange
  <2> DEFINE V == VoqAt(m, v)
  <2>4. V \in Seq(Frame) /\ VoqAt(n, v) = Append(V, p)
    BY <2>1, <2>2
  <2> HIDE DEF V
  <2>5. Bytes(Append(V, p), d, U) = Bytes(V, d, U) + a /\ Bytes(V, d, U) \in Nat
    BY <1>2, <2>4, BytesAppend, BytesAre
  <2> DEFINE b == Bytes(V, d, U)
  <2>6. WaitingBytes(n, d, U) = WaitingBytes(m, d, U) + ((b + a) - b) /\ b \in Nat
    BY <2>3, <2>4, <2>5 DEF V
  <2> HIDE DEF b, a
  <2>7. (b + a) - b = a
    BY <1>3, <2>6
  <2> QED
    BY <2>1, <2>6, <2>7
<1> HIDE DEF P, R, m, n, a
<1>7. Bytes(P, d, U) \in Nat /\ WaitingBytes(m, d, U) \in Nat
  BY <1>4
<1>8. WaitingBytes(n, d, U) + Bytes(R, d, U) = (WaitingBytes(m, d, U) + Bytes(P, d, U)) + a
  BY <1>3, <1>5, <1>6, <1>7
<1> QED
  BY <1>8 DEF Total, P, R, m, n, a

LEMMA JoinCounts ==
  ASSUME settings \in Configuration, NEW s \in Switch, NEW st \in AtWork(s), NEW p \in Packet, NEW r \in AtWork(s),
         (\E x : PassedOn(s, st, p, x, r)) \/ (\E v : HeldBack(st, p, v, r)), NEW d \in Host, ~ ShouldIgnore(s, d)
  PROVE  /\ r.m.nxtData[d] - Bytes(r.q[PortTo(s, d)], d, Node) = st.m.nxtData[d] - Bytes(st.q[PortTo(s, d)], d, Node)
         /\ Absolute => \A c \in Int : PsnPort(s, d, st, c) => PsnPort(s, d, r, c)
<1> DEFINE P == st.q[PortTo(s, d)]
           R == r.q[PortTo(s, d)]
           a == st.m.nxtData[d]
           b == r.m.nxtData[d]
           k == PsnKey(d)
<1>1. PortTo(s, d) \in Link
  BY PortIn
<1>2. P \in Seq(Packet) /\ P \in Seq(Frame) /\ p.size \in Nat \ {0}
  BY <1>1, PacketsAreFrames, Zenon DEF AtWork, Packet, Positive
<1>3. a \in Nat /\ b \in Nat
  BY DEF AtWork, MmuType, Counters
<1>4. CASE \E v : HeldBack(st, p, v, r)
  BY <1>4 DEF HeldBack, PsnPort
<1>5. ASSUME NEW x, PassedOn(s, st, p, x, r)
      PROVE  /\ b - Bytes(R, d, Node) = a - Bytes(P, d, Node)
             /\ Absolute => \A c \in Int : c <= a /\ Numbered(P, k, c, a) /\ Covers(P, k, c, a) =>
                                             c <= b /\ Numbered(R, k, c, b) /\ Covers(R, k, c, b)
  <2>1. x \in Packet /\ x \in Frame /\ x.dst = p.dst /\ x.size = p.size /\ b = IF d = p.dst THEN a + p.size ELSE a
    BY <1>5, PacketsAreFrames DEF PassedOn, Same
  <2>2. d = p.dst => R = Append(P, x)
    BY <1>5 DEF PassedOn
  <2>3. R = P \/ R = Append(P, x)
    BY <1>1, <1>5 DEF PassedOn
  <2>4. SizeOf(x, d, Node) = IF d = p.dst THEN p.size ELSE 0
    BY <2>1, NodeSize
  <2>5. Absolute /\ d = p.dst => x.psn = b
    BY <1>5 DEF PassedOn
  <2>6. KeyOK(k) /\ (x \in k.mem <=> x.dst = d) /\ k.lo[x] = x.psn - x.size /\ k.hi[x] = x.psn
    BY <2>1, PsnKeyOK
  <2> HIDE DEF P, R, a, b, k
  <2>7. Bytes(Append(P, x), d, Node) = Bytes(P, d, Node) + SizeOf(x, d, Node) /\ Bytes(P, d, Node) \in Nat
    BY <1>2, <2>1, BytesAppend, BytesAre
  <2>8. CASE R = Append(P, x)
    <3> DEFINE i == Bytes(P, d, Node)
               j == Bytes(Append(P, x), d, Node)
    <3>1. i \in Nat /\ j = i + (IF d = p.dst THEN p.size ELSE 0)
      BY <2>4, <2>7
    <3> HIDE DEF i, j
    <3>2. b - j = a - i
      BY <1>2, <1>3, <2>1, <3>1
    <3>3. ASSUME Absolute, NEW c \in Int, c <= a, Numbered(P, k, c, a), Covers(P, k, c, a)
          PROVE  c <= b /\ Numbered(R, k, c, b) /\ Covers(R, k, c, b)
      <4>1. x \in k.mem => k.lo[x] = a /\ k.hi[x] = b
        BY <1>2, <1>3, <2>1, <2>5, <2>6, <3>3
      <4>2. a <= b /\ (x \notin k.mem => a = b)
        BY <1>2, <1>3, <2>1, <2>6
      <4>3. x \in k.mem => a <= k.lo[x] /\ k.hi[x] <= b
        BY <1>3, <4>1
      <4>4. Numbered(Append(P, x), k, c, b)
        <5>1. P \in Seq(Packet) /\ x \in Packet /\ c \in Int /\ a \in Int /\ b \in Int /\ Numbered(P, k, c, a) /\ c <= a /\ a <= b
          BY <1>2, <1>3, <2>1, <3>3, <4>2
        <5> QED
          BY <2>6, <4>3, <5>1, NumberedAppend
      <4>5. Covers(Append(P, x), k, c, b)
        <5>1. a = b \/ (x \in k.mem /\ k.lo[x] = a /\ k.hi[x] = b)
          BY <4>1, <4>2
        <5>2. P \in Seq(Frame) /\ x \in Frame /\ a \in Int /\ b \in Int /\ Covers(P, k, c, a)
          BY <1>2, <1>3, <2>1, <3>3
        <5> QED
          BY <3>3, <5>1, <5>2, CoversAppend, Zenon
      <4> QED
        BY <1>3, <2>8, <3>3, <4>2, <4>4, <4>5
    <3> QED
      BY <2>8, <3>2, <3>3 DEF i, j
  <2>9. CASE R # Append(P, x)
    <3>1. R = P /\ a = b
      BY <2>1, <2>2, <2>3, <2>9
    <3> QED
      BY <3>1
  <2> QED
    BY <2>8, <2>9
<1>6. CASE \E x : PassedOn(s, st, p, x, r)
  BY <1>5, <1>6 DEF PsnPort
<1> QED
  BY <1>4, <1>6

LEMMA WinJoins ==
  ASSUME settings \in Configuration, NEW s \in Switch, NEW st \in AtWork(s), VoqsGood(s, st.m),
         NEW p \in Packet, NEW r, r = CheckVOQWin(s, st, p)
  PROVE  Joined(s, st, p, r)
<1>1. r \in AtWork(s) /\ ((\E x : PassedOn(s, st, p, x, r)) \/ (\E v : HeldBack(st, p, v, r)))
  BY JoinIs
<1>2. \A d \in Host, lo \in Int, c \in Int, hi \in Int : \A k :
        KeyFor(k, d) /\ LinedAt(s, d, k, st, lo, c) /\ c <= hi /\ (p \in k.mem => c <= k.lo[p] /\ k.hi[p] <= hi)
          => LinedAt(s, d, k, r, lo, hi)
  BY <1>1, JoinLined
<1>3. /\ \A d \in Host : \A z : Holds(s, d, st, z) => Holds(s, d, r, z)
      /\ \E x : Holds(s, p.dst, r, x) /\ Same(p, x)
  BY <1>1, JoinHolds
<1>4. \A d \in Host : \A U : Total(s, r, d, U) = Total(s, st, d, U) + SizeOf(p, d, U)
  BY <1>1, JoinTotal
<1>5. \A d \in Host : ~ ShouldIgnore(s, d) =>
        r.m.nxtData[d] - Bytes(r.q[PortTo(s, d)], d, Node) = st.m.nxtData[d] - Bytes(st.q[PortTo(s, d)], d, Node)
  BY <1>1, JoinCounts
<1>6. Absolute => \A d \in Host, c \in Int : ~ ShouldIgnore(s, d) /\ PsnPort(s, d, st, c) => PsnPort(s, d, r, c)
  BY <1>1, JoinCounts
<1>7. ASSUME NEW l \in Link, l[1] # s PROVE r.q[l] = st.q[l]
  <2>1. l # PortTo(s, p.dst)
    BY <1>7 DEF PortTo
  <2> QED
    BY <1>1, <2>1 DEF PassedOn, HeldBack
<1>8. Kept(st.m, r.m)
  BY <1>1 DEF PassedOn, HeldBack
<1> QED
  BY <1>1, <1>2, <1>3, <1>4, <1>5, <1>6, <1>7, <1>8 DEF Joined

-----------------------------------------------------------------------------
(* Credits *)

LEMMA MaxIs ==
  ASSUME NEW a \in Nat, NEW b \in Nat
  PROVE  /\ Max({a, b}) \in Nat /\ a <= Max({a, b}) /\ b <= Max({a, b})
         /\ \A k \in Nat : a <= k /\ b <= k => Max({a, b}) <= k
<1>1. \E x \in {a, b} : \A y \in {a, b} : x >= y
  <2>1. CASE a <= b
    BY <2>1
  <2>2. CASE ~ (a <= b)
    BY <2>2
  <2> QED
    BY <2>1, <2>2
<1>2. Max({a, b}) \in {a, b} /\ \A y \in {a, b} : Max({a, b}) >= y
  BY <1>1 DEF Max
<1> DEFINE x == Max({a, b})
<1>3. (x = a \/ x = b) /\ x >= a /\ x >= b
  BY <1>2
<1> HIDE DEF x
<1> QED
  BY <1>3 DEF x

\* The counters for a switch before this one.
LEMMA CountersOf ==
  ASSUME NEW s, NEW m \in MmuType(s), NEW u \in Upstream(s)
  PROVE  /\ m.rcvData[u] \in Counters /\ m.nxtAck[u] \in Counters /\ m.lstAck[u] \in Counters
         /\ \A d \in Host : m.rcvData[u][d] \in Nat /\ m.nxtAck[u][d] \in Nat /\ m.lstAck[u][d] \in Nat
<1>1. m.rcvData[u] \in Counters /\ m.nxtAck[u] \in Counters /\ m.lstAck[u] \in Counters
  BY DEF MmuType
<1> QED
  BY <1>1 DEF Counters

LEMMA CreditIs ==
  ASSUME settings \in Configuration, NEW s, NEW m \in MmuType(s), Owes(s, m), NEW u \in Upstream(s), NEW d \in Host
  PROVE  /\ Credit(m, u, d) \in Nat
         /\ Credit(m, u, d) > 0 => m.nxtAck[u][d] > 0 /\ NextHop[u][d] = s
<1>1. m.nxtAck[u][d] \in Nat /\ m.lstAck[u][d] \in Nat /\ m.lstAck[u][d] <= m.nxtAck[u][d]
  BY CountersOf DEF Owes
<1>2. NextHop[u][d] # s => m.nxtAck[u][d] = 0
  BY DEF Owes
<1> QED
  BY <1>1, <1>2 DEF Credit

\* The frames with what is due to u for the destinations of D, once it is
\* noted as acknowledged in n.
LEMMA AckFramesAre ==
  ASSUME settings \in Configuration, NEW s, NEW m \in MmuType(s), Owes(s, m), NEW u \in Upstream(s), NEW D \in SUBSET Host,
         \A d \in D : m.nxtAck[u][d] > 0, NEW n, \A d \in D : n.lstAck[u][d] = m.nxtAck[u][d],
         NEW q, q = AckFrames(m, u, D)
  PROVE  /\ q \in Seq(Frame)
         /\ \A i \in DOMAIN q : q[i].kind = "ACK" /\ Gives(s, u, n, q[i].credit)
<1> DEFINE give(d) == IF Absolute THEN m.nxtAck[u][d] ELSE Credit(m, u, d)
           ack(E) == [kind |-> "ACK", credit |-> [d \in E |-> give(d)]]
<1>1. ASSUME NEW E \in SUBSET D
      PROVE  /\ ack(E) \in Frame /\ ack(E).kind = "ACK" /\ DOMAIN ack(E).credit = E
             /\ \A d \in E : NextHop[u][d] = s /\ (Absolute => ack(E).credit[d] <= n.lstAck[u][d])
  <2>1. \A d \in E : d \in Host /\ give(d) \in Nat
    BY CreditIs, CountersOf
  <2>2. \A d \in E : NextHop[u][d] = s
    <3>1. \A d \in E : d \in Host /\ m.nxtAck[u][d] > 0
      BY <2>1
    <3>2. \A d \in E : m.nxtAck[u][d] # 0
      BY <3>1
    <3> QED
      BY <3>1, <3>2 DEF Owes
  <2>3. \A d \in E : Absolute => give(d) <= n.lstAck[u][d]
    BY <2>1, CountersOf
  <2> HIDE DEF give
  <2>4. [d \in E |-> give(d)] \in Partial(Host, Nat)
    <3> DEFINE f == [d \in E |-> give(d)]
    <3>1. f \in [DOMAIN f -> Nat] /\ DOMAIN f \subseteq Host
      BY <2>1
    <3> HIDE DEF f
    <3>2. f \in Partial(Host, Nat)
      BY <3>1, PartialIs
    <3> QED
      BY <3>2 DEF f
  <2>5. ack(E) \in Frame
    BY <2>4 DEF Frame
  <2> QED
    BY <2>2, <2>3, <2>5
<1>2. q = IF Mode = "dst" THEN [i \in 1 .. Cardinality(D) |-> ack({Sorted(D)[i]})] ELSE <<ack(D)>>
  BY DEF AckFrames
<1> HIDE DEF ack
<1>3. CASE Mode = "dst"
  <2>1. /\ Cardinality(D) \in Nat /\ DOMAIN Sorted(D) = 1 .. Cardinality(D)
        /\ \A i \in 1 .. Cardinality(D) : Sorted(D)[i] \in D
    BY SortedIs
  <2>2. DOMAIN q = 1 .. Cardinality(D) /\ \A i \in DOMAIN q : q[i] = ack({Sorted(D)[i]})
    BY <1>2, <1>3
  <2>3. \A i \in DOMAIN q : {Sorted(D)[i]} \in SUBSET D
    BY <2>1, <2>2
  <2>4. ASSUME NEW i \in DOMAIN q PROVE q[i] \in Frame /\ q[i].kind = "ACK" /\ Gives(s, u, n, q[i].credit)
    <3>1. PICK d \in D : d = Sorted(D)[i]
      BY <2>1, <2>2
    <3>2. q[i] = ack({d}) /\ {d} \in SUBSET D /\ d \in Host
      BY <2>2, <3>1
    <3> QED
      BY <1>1, <3>2 DEF Gives
  <2>5. q = [i \in 1 .. Cardinality(D) |-> q[i]]
    BY <1>2, <1>3
  <2>6. q \in [1 .. Cardinality(D) -> Frame]
    BY <2>2, <2>4, <2>5
  <2>7. q \in Seq(Frame)
    BY <2>1, <2>6
  <2> QED
    BY <2>4, <2>7
<1>4. CASE Mode # "dst"
  <2>1. q = <<ack(D)>> /\ ack(D) \in Frame
    BY <1>1, <1>2, <1>4
  <2>2. q \in Seq(Frame) /\ \A i \in DOMAIN q : q[i] = ack(D)
    BY <2>1
  <2>3. ack(D).kind = "ACK" /\ Gives(s, u, n, ack(D).credit)
    BY <1>1, <1>4 DEF Gives
  <2> QED
    BY <2>2, <2>3
<1> QED
  BY <1>3, <1>4

LEMMA ApartGood ==
  ASSUME settings \in Configuration, NEW s, NEW m, StateOK(s, m), NEW n \in MmuType(s), Apart(m, n), Noted(s, m, n), Owes(s, n)
  PROVE  StateOK(s, n)
<1>1. /\ \A v : VoqAt(n, v) = VoqAt(m, v) /\ HeadOf(n, v) = HeadOf(m, v)
      /\ \A d : Bound(s, n, d) = Bound(s, m, d)
      /\ \A d : WaitingBytes(n, d, Node) = WaitingBytes(m, d, Node)
  BY DEF Apart, VoqAt, HeadOf, Bound, WaitingBytes, Voqs, Voq
<1>2. VoqsOK(s, n)
  BY <1>1 DEF Apart, StateOK, VoqsGood, VoqsOK, Placed, Counted, Needed
<1>3. Lacks(n)
  BY <1>1 DEF Apart, StateOK, Lacks, CheckDstWin, Inflight
<1>4. ASSUME NEW p \in Packet, Here(s, m, p) PROVE Here(s, n, p)
  <2>1. CASE p.in \in Upstream(s)
    <3>1. p.dst \in Host /\ p.ipsn \in Nat /\ m \in MmuType(s)
      BY DEF Packet, StateOK
    <3>2. /\ m.rcvData[p.in][p.dst] <= n.rcvData[p.in][p.dst]
          /\ n.rcvData[p.in][p.dst] \in Nat /\ m.rcvData[p.in][p.dst] \in Nat
      BY <2>1, <3>1, CountersOf DEF Noted
    <3> QED
      BY <1>4, <3>1, <3>2 DEF Here
  <2>2. CASE p.in \notin Upstream(s)
    BY <1>4, <2>2 DEF Here
  <2> QED
    BY <2>1, <2>2
<1>5. Waits(s, n)
  <2>1. \A v \in Places : VoqAt(m, v) \in Seq(Packet)
    BY VoqsAre DEF StateOK
  <2>2. \A v \in Places : \A i \in DOMAIN VoqAt(m, v) : VoqAt(m, v)[i] \in Packet
    BY <2>1
  <2> QED
    BY <1>1, <1>4, <2>2 DEF StateOK, VoqsGood, Waits
<1> QED
  BY <1>2, <1>3, <1>5 DEF StateOK, VoqsGood

\* A record of counters with another one in its place.
LEMMA WithLstAck ==
  ASSUME NEW s, NEW m \in MmuType(s), NEW L \in [Upstream(s) -> Counters], NEW n, n = [m EXCEPT !.lstAck = L]
  PROVE  n \in MmuType(s) /\ Apart(m, n) /\ n.rcvData = m.rcvData /\ n.nxtAck = m.nxtAck /\ n.lstAck = L
  BY DEF MmuType, Apart

LEMMA AcknowledgeIs ==
  ASSUME settings \in Configuration, NEW s, NEW m \in MmuType(s), Owes(s, m), NEW U \in SUBSET Upstream(s),
         NEW D \in SUBSET Host, NEW r, r = Acknowledge(m, U, D)
  PROVE  Acked(s, m, r)
<1> DEFINE Of(u) == {d \in D : Credit(m, u, d) > 0}
           L == [u \in DOMAIN m.lstAck |-> IF u \in U THEN Clean(m, u, Of(u)).lstAck[u] ELSE m.lstAck[u]]
           n == [m EXCEPT !.lstAck = L]
<1>1. r.m = n /\ r.acks = [u \in U |-> AckFrames(m, u, Of(u))]
  BY DEF Acknowledge
<1>2. m.lstAck \in [Upstream(s) -> Counters] /\ DOMAIN m.lstAck = Upstream(s)
  BY DEF MmuType
<1>3. ASSUME NEW u \in Upstream(s)
      PROVE  Clean(m, u, Of(u)).lstAck[u] = [d \in Host |-> IF d \in Of(u) THEN m.nxtAck[u][d] ELSE m.lstAck[u][d]]
  <2> HIDE DEF Of
  <2> DEFINE k == [m.lstAck EXCEPT ![u] = [d \in Host |-> IF d \in Of(u) THEN m.nxtAck[u][d] ELSE @[d]]]
  <2>1. Clean(m, u, Of(u)) = [m EXCEPT !.lstAck = k]
    BY Zenon DEF Clean
  <2>2. k[u] = [d \in Host |-> IF d \in Of(u) THEN m.nxtAck[u][d] ELSE m.lstAck[u][d]]
    BY <1>2
  <2> HIDE DEF k
  <2>3. Clean(m, u, Of(u)).lstAck = k
    BY <2>1 DEF MmuType
  <2> QED
    BY <2>2, <2>3
<1> HIDE DEF Of
<1>4. L \in [Upstream(s) -> Counters]
  <2>1. ASSUME NEW u \in Upstream(s) PROVE L[u] \in Counters
    <3>1. CASE u \in U
      <4>1. L[u] = [d \in Host |-> IF d \in Of(u) THEN m.nxtAck[u][d] ELSE m.lstAck[u][d]]
        BY <1>2, <1>3, <3>1
      <4>2. \A d \in Host : m.nxtAck[u][d] \in Nat /\ m.lstAck[u][d] \in Nat
        BY CountersOf
      <4> HIDE DEF L
      <4> QED
        BY <4>1, <4>2 DEF Counters
    <3>2. CASE u \notin U
      BY <1>2, <3>2
    <3> QED
      BY <3>1, <3>2
  <2> QED
    BY <1>2, <2>1
<1>5. ASSUME NEW u \in Upstream(s), NEW d \in Host
      PROVE  L[u][d] = IF u \in U /\ d \in Of(u) THEN m.nxtAck[u][d] ELSE m.lstAck[u][d]
  <2>1. CASE u \in U
    <3>1. L[u] = [e \in Host |-> IF e \in Of(u) THEN m.nxtAck[u][e] ELSE m.lstAck[u][e]]
      BY <1>2, <1>3, <2>1
    <3> HIDE DEF L
    <3> QED
      BY <2>1, <3>1
  <2>2. CASE u \notin U
    BY <1>2, <2>2
  <2> QED
    BY <2>1, <2>2
<1> HIDE DEF L
<1>6. n \in MmuType(s) /\ Apart(m, n) /\ n.rcvData = m.rcvData /\ n.nxtAck = m.nxtAck /\ n.lstAck = L
  BY <1>4, WithLstAck
<1> HIDE DEF n
<1>7. Noted(s, m, n) /\ Owes(s, n)
  <2>1. ASSUME NEW u \in Upstream(s), NEW d \in Host
        PROVE  /\ m.rcvData[u][d] <= n.rcvData[u][d] /\ m.lstAck[u][d] <= n.lstAck[u][d]
               /\ n.lstAck[u][d] <= n.nxtAck[u][d]
    <3>1. /\ m.rcvData[u][d] \in Nat /\ m.lstAck[u][d] \in Nat /\ m.nxtAck[u][d] \in Nat
          /\ m.lstAck[u][d] <= m.nxtAck[u][d]
      BY CountersOf DEF Owes
    <3>2. n.lstAck[u][d] = IF u \in U /\ d \in Of(u) THEN m.nxtAck[u][d] ELSE m.lstAck[u][d]
      BY <1>5, <1>6
    <3> QED
      BY <1>6, <3>1, <3>2
  <2> QED
    BY <1>6, <2>1 DEF Noted, Owes
<1>8. ASSUME NEW u \in U
      PROVE  /\ r.acks[u] \in Seq(Frame)
             /\ \A i \in DOMAIN r.acks[u] : r.acks[u][i].kind = "ACK" /\ Carried(<<s, u>>, n, r.acks[u][i])
  <2> DEFINE E == Of(u)
             q == AckFrames(m, u, E)
  <2>1. E \in SUBSET Host /\ u \in Upstream(s) /\ \A d \in E : Credit(m, u, d) > 0
    BY DEF Of
  <2>2. r.acks[u] = q
    BY <1>1
  <2> HIDE DEF E
  <2>3. \A d \in E : m.nxtAck[u][d] > 0 /\ n.lstAck[u][d] = m.nxtAck[u][d]
    <3>1. ASSUME NEW d \in E PROVE m.nxtAck[u][d] > 0 /\ n.lstAck[u][d] = m.nxtAck[u][d]
      <4>1. d \in Host /\ Credit(m, u, d) > 0
        BY <2>1
      <4>2. m.nxtAck[u][d] > 0
        BY <2>1, <4>1, CreditIs
      <4> QED
        BY <1>5, <1>6, <2>1, <4>1, <4>2 DEF E
    <3> QED
      BY <3>1
  <2> HIDE DEF q
  <2>4. q = AckFrames(m, u, E)
    BY DEF q
  <2>5. q \in Seq(Frame) /\ \A i \in DOMAIN q : q[i].kind = "ACK" /\ Gives(s, u, n, q[i].credit)
    <3>1. \A d \in E : m.nxtAck[u][d] > 0
      BY <2>3
    <3>2. \A d \in E : n.lstAck[u][d] = m.nxtAck[u][d]
      BY <2>3
    <3> QED
      BY <2>1, <2>4, <3>1, <3>2, AckFramesAre
  <2> QED
    BY <2>1, <2>2, <2>5 DEF Carried
<1> QED
  BY <1>1, <1>6, <1>7, <1>8 DEF Acked

\* One counter and one timer: one frame.
LEMMA OneFrame ==
  ASSUME settings \in Configuration, NEW s, NEW m \in MmuType(s), Owes(s, m), NEW u \in Upstream(s), NEW d0 \in Host,
         NEW E \in SUBSET Scope(d0), \A d \in E : Credit(m, u, d) > 0,
         NEW n, \A d \in Host : n.lstAck[u][d] = IF d \in E THEN m.nxtAck[u][d] ELSE m.lstAck[u][d]
  PROVE  \/ AckFrames(m, u, E) = << >> /\ E = {}
         \/ \E x : AckFrames(m, u, E) = <<x>> /\ Repaid(u, m, n, x)
<1> DEFINE give(d) == IF Absolute THEN m.nxtAck[u][d] ELSE Credit(m, u, d)
           c(D) == [d \in D |-> give(d)]
           x == [kind |-> "ACK", credit |-> c(E)]
<1>1. E \in SUBSET Host /\ (Mode = "dst" => E \in SUBSET {d0})
  BY DEF Scope
<1>2. \A d \in E : /\ d \in Host /\ give(d) \in Nat /\ m.nxtAck[u][d] \in Nat /\ m.lstAck[u][d] \in Nat
                   /\ (~ Absolute => give(d) = m.nxtAck[u][d] - m.lstAck[u][d])
  <2> SUFFICES ASSUME NEW d \in E
               PROVE  /\ give(d) \in Nat /\ m.nxtAck[u][d] \in Nat /\ m.lstAck[u][d] \in Nat
                      /\ (~ Absolute => give(d) = m.nxtAck[u][d] - m.lstAck[u][d])
    BY <1>1
  <2>1. d \in Host /\ Credit(m, u, d) > 0
    BY <1>1
  <2>2. Credit(m, u, d) \in Nat /\ m.nxtAck[u][d] \in Nat /\ m.lstAck[u][d] \in Nat
    BY <2>1, CreditIs, CountersOf
  <2>3. Credit(m, u, d) = m.nxtAck[u][d] - m.lstAck[u][d]
    BY <2>1, <2>2 DEF Credit
  <2> QED
    BY <2>2, <2>3
<1> HIDE DEF give
<1>3. x \in Frame
  <2>1. c(E) \in [DOMAIN c(E) -> Nat] /\ DOMAIN c(E) \subseteq Host
    BY <1>2
  <2> DEFINE f == c(E)
  <2> HIDE DEF f
  <2>2. f \in Partial(Host, Nat)
    BY <2>1, PartialIs DEF f
  <2> QED
    BY <2>2 DEF f, Frame
<1>4. Repaid(u, m, n, x)
  <2>1. DOMAIN x.credit = E /\ x.kind = "ACK" /\ \A d \in E : x.credit[d] = give(d)
    OBVIOUS
  <2> HIDE DEF x
  <2>2. ASSUME NEW d \in Host
        PROVE  IF d \notin DOMAIN x.credit THEN n.lstAck[u][d] = m.lstAck[u][d]
               ELSE IF Absolute THEN n.lstAck[u][d] = x.credit[d]
               ELSE n.lstAck[u][d] = m.lstAck[u][d] + x.credit[d]
    <3>1. CASE d \notin E
      BY <2>1, <3>1
    <3>2. CASE d \in E
      <4>1. n.lstAck[u][d] = m.nxtAck[u][d] /\ x.credit[d] = give(d) /\ m.nxtAck[u][d] \in Nat /\ m.lstAck[u][d] \in Nat
        BY <1>2, <2>1, <3>2
      <4>2. CASE Absolute
        BY <2>1, <3>2, <4>1, <4>2 DEF give
      <4>3. CASE ~ Absolute
        BY <1>2, <2>1, <3>2, <4>1, <4>3
      <4> QED
        BY <4>2, <4>3
    <3> QED
      BY <3>1, <3>2
  <2> QED
    BY <1>3, <2>1, <2>2 DEF Repaid
<1>5. AckFrames(m, u, E) = IF Mode = "dst" THEN [i \in 1 .. Cardinality(E) |-> [kind |-> "ACK", credit |-> c({Sorted(E)[i]})]]
                           ELSE <<x>>
  BY DEF AckFrames, give
<1>6. CASE Mode = "dst" /\ E = {}
  <2>1. Cardinality(E) = 0
    BY <1>6, FS_EmptySet
  <2> QED
    BY <1>5, <1>6, <2>1
<1>7. CASE Mode = "dst" /\ E # {}
  <2>0. E = {d0}
    BY <1>1, <1>7
  <2>1. E = {d0} /\ Cardinality(E) = 1
    BY <2>0, FS_Singleton, Zenon
  <2>2. Sorted(E)[1] = d0
    BY <1>1, <2>1, SortedIs
  <2>3. AckFrames(m, u, E) = [i \in 1 .. 1 |-> [kind |-> "ACK", credit |-> c({Sorted(E)[i]})]]
    BY <1>5, <1>7, <2>1
  <2>4. AckFrames(m, u, E) = [i \in 1 .. 1 |-> x]
    <3>1. \A i \in 1 .. 1 : c({Sorted(E)[i]}) = c(E)
      BY <2>1, <2>2
    <3> HIDE DEF c
    <3> QED
      BY <2>3, <3>1
  <2> HIDE DEF x
  <2>5. AckFrames(m, u, E) = <<x>>
    BY <2>4
  <2> QED
    BY <1>4, <2>5
<1>8. CASE Mode # "dst"
  BY <1>4, <1>5, <1>8
<1> QED
  BY <1>6, <1>7, <1>8

LEMMA AcknowledgeRepays ==
  ASSUME settings \in Configuration, NEW s, NEW m \in MmuType(s), Owes(s, m), NEW U \in SUBSET Upstream(s),
         NEW d0 \in Host, NEW r, r = Acknowledge(m, U, Scope(d0))
  PROVE  Repays(s, m, r) /\ r.m.nxtAck = m.nxtAck
<1> DEFINE D == Scope(d0)
           Of(u) == {d \in D : Credit(m, u, d) > 0}
           L == [u \in DOMAIN m.lstAck |-> IF u \in U THEN Clean(m, u, Of(u)).lstAck[u] ELSE m.lstAck[u]]
<1>1. r.m = [m EXCEPT !.lstAck = L] /\ r.acks = [u \in U |-> AckFrames(m, u, Of(u))]
  BY DEF Acknowledge
<1>2. m.lstAck \in [Upstream(s) -> Counters] /\ DOMAIN m.lstAck = Upstream(s)
  BY DEF MmuType
<1>3. r.m.lstAck = L /\ r.m.nxtAck = m.nxtAck
  BY <1>1 DEF MmuType
<1>4. \A u : Of(u) \in SUBSET Scope(d0) /\ \A d \in Of(u) : Credit(m, u, d) > 0
  OBVIOUS
<1> HIDE DEF Of
<1> SUFFICES ASSUME NEW u \in Upstream(s)
             PROVE  \/ (u \in DOMAIN r.acks => r.acks[u] = << >>) /\ \A d \in Host : r.m.lstAck[u][d] = m.lstAck[u][d]
                    \/ u \in DOMAIN r.acks /\ \E x : r.acks[u] = <<x>> /\ Repaid(u, m, r.m, x)
  BY <1>3 DEF Repays
<1>5. CASE u \notin U
  BY <1>1, <1>2, <1>3, <1>5
<1>6. CASE u \in U
  <2> DEFINE E == Of(u)
             k == [m.lstAck EXCEPT ![u] = [d \in Host |-> IF d \in E THEN m.nxtAck[u][d] ELSE @[d]]]
  <2>1. Clean(m, u, E) = [m EXCEPT !.lstAck = k]
    BY Zenon DEF Clean
  <2>2. k[u] = [d \in Host |-> IF d \in E THEN m.nxtAck[u][d] ELSE m.lstAck[u][d]]
    BY <1>2
  <2> HIDE DEF k
  <2>3. Clean(m, u, E).lstAck = k
    BY <2>1 DEF MmuType
  <2>4. L[u] = k[u]
    BY <1>2, <1>6, <2>3
  <2> HIDE DEF L, E
  <2>5. \A d \in Host : r.m.lstAck[u][d] = IF d \in E THEN m.nxtAck[u][d] ELSE m.lstAck[u][d]
    BY <1>3, <2>2, <2>4
  <2>6. E \in SUBSET Scope(d0) /\ \A d \in E : Credit(m, u, d) > 0
    BY <1>4 DEF E
  <2> DEFINE n == r.m
  <2>7. \A d \in Host : n.lstAck[u][d] = IF d \in E THEN m.nxtAck[u][d] ELSE m.lstAck[u][d]
    BY <2>5
  <2> HIDE DEF n
  <2>8. \/ AckFrames(m, u, E) = << >> /\ E = {}
        \/ \E x : AckFrames(m, u, E) = <<x>> /\ Repaid(u, m, n, x)
    BY <2>6, <2>7, OneFrame
  <2>9. u \in DOMAIN r.acks /\ r.acks[u] = AckFrames(m, u, E)
    BY <1>1, <1>6 DEF E
  <2> QED
    BY <2>5, <2>8, <2>9 DEF n
<1> QED
  BY <1>3, <1>5, <1>6

LEMMA NotifyIs ==
  ASSUME settings \in Configuration, NEW s, NEW m \in MmuType(s), Owes(s, m), NEW p \in Packet, Here(s, m, p),
         NEW r, r = NotifyDequeue(s, m, p)
  PROVE  Acked(s, m, r) /\ Notified(s, m, p, r)
<1> DEFINE m1 == [m EXCEPT !.nxtAck[p.in][p.dst] = IF Absolute THEN Max({@, p.ipsn}) ELSE @ + p.size]
           Late(U, least) == {u \in U : Due(m1, u, Scope(p.dst)) >= least}
           due == Late(IF AckTh > 0 THEN Upstream(s) ELSE {p.in}, ByteCounter)
           flush == due = {} /\ ByteCounter > 1 /\ ~CreditTimer /\ m1.buffering[p.dst] = 0
           U == IF flush THEN Late(Upstream(s), 1) ELSE due
<1>1. CASE ShouldIgnore(s, FlowSrc[p.flow])
  <2>1. r.m = m /\ r.acks = << >>
    BY <1>1 DEF NotifyDequeue
  <2>2. Noted(s, m, m)
    <3>1. \A u \in Upstream(s), d \in Host : m.rcvData[u][d] \in Nat /\ m.lstAck[u][d] \in Nat
      BY CountersOf
    <3> QED
      BY <3>1 DEF Noted
  <2>3. DOMAIN r.acks = {}
    BY <2>1
  <2>4. Acked(s, m, r)
    BY <2>1, <2>2, <2>3 DEF Acked, Apart
  <2>5. Repays(s, m, r)
    BY <2>1, <2>3, Zenon DEF Repays
  <2>6. p.in \notin Upstream(s)
    BY <1>1 DEF Here
  <2> QED
    BY <2>1, <2>4, <2>5, <2>6, Zenon DEF Notified
<1>2. CASE ~ ShouldIgnore(s, FlowSrc[p.flow])
  <2> DEFINE u == p.in
             d == p.dst
             x == IF Absolute THEN Max({m.nxtAck[u][d], p.ipsn}) ELSE m.nxtAck[u][d] + p.size
             A == [m.nxtAck EXCEPT ![u] = [@ EXCEPT ![d] = x]]
  <2>1. /\ u \in Upstream(s) /\ d \in Host /\ p.ipsn \in Nat /\ p.size \in Nat
        /\ NextHop[u][d] = s /\ (Absolute => p.ipsn <= m.rcvData[u][d])
    BY <1>2 DEF Here, Packet, Positive
  <2>2. /\ m.nxtAck \in [Upstream(s) -> Counters] /\ m.nxtAck[u] \in Counters
        /\ m.nxtAck[u][d] \in Nat /\ m.lstAck[u][d] \in Nat /\ m.rcvData[u][d] \in Nat
        /\ m.lstAck[u][d] <= m.nxtAck[u][d] /\ (Absolute => m.nxtAck[u][d] <= m.rcvData[u][d])
    BY <2>1, CountersOf DEF MmuType, Owes
  <2>3. x \in Nat /\ m.nxtAck[u][d] <= x /\ (Absolute => x <= m.rcvData[u][d])
    <3> DEFINE a == m.nxtAck[u][d]
               b == p.ipsn
    <3>1. a \in Nat /\ b \in Nat
      BY <2>1, <2>2
    <3>2. /\ Max({a, b}) \in Nat /\ a <= Max({a, b})
          /\ \A k \in Nat : a <= k /\ b <= k => Max({a, b}) <= k
      <4> HIDE DEF a, b
      <4> QED
        BY <3>1, MaxIs, Zenon
    <3>3. Absolute => Max({a, b}) <= m.rcvData[u][d]
      BY <2>1, <2>2, <3>2, Zenon
    <3> DEFINE y == Max({a, b})
    <3>4. x = IF Absolute THEN y ELSE a + p.size
      OBVIOUS
    <3>5. y \in Nat /\ a <= y /\ (Absolute => y <= m.rcvData[u][d])
      BY <3>2, <3>3
    <3> HIDE DEF x, y
    <3> QED
      BY <2>1, <3>1, <3>4, <3>5
  <2>4. m1 = [m EXCEPT !.nxtAck = A]
    <3>1. m.nxtAck[u] = [e \in Host |-> m.nxtAck[u][e]] /\ DOMAIN m.nxtAck = Upstream(s)
      BY <2>2 DEF Counters
    <3>2. A = [m.nxtAck EXCEPT ![u][d] = x]
      BY Zenon
    <3>3. m1 = [m EXCEPT !.nxtAck = [m.nxtAck EXCEPT ![u][d] = IF Absolute THEN Max({@, p.ipsn}) ELSE @ + p.size]]
      BY Zenon
    <3>4. [m.nxtAck EXCEPT ![u][d] = IF Absolute THEN Max({@, p.ipsn}) ELSE @ + p.size] = [m.nxtAck EXCEPT ![u][d] = x]
      BY Zenon
    <3> QED
      BY <3>2, <3>3, <3>4, Zenon
  <2> HIDE DEF x, m1, u, d
  <2>5. /\ A \in [Upstream(s) -> Counters] /\ A[u][d] = x
        /\ \A v \in Upstream(s), e \in Host : v # u \/ e # d => A[v][e] = m.nxtAck[v][e]
    <3> DEFINE a == [m.nxtAck[u] EXCEPT ![d] = x]
    <3>1. a \in Counters /\ a[d] = x /\ \A e \in Host : e # d => a[e] = m.nxtAck[u][e]
      BY <2>1, <2>2, <2>3 DEF Counters
    <3>2. A = [m.nxtAck EXCEPT ![u] = a]
      BY <2>1, <2>2
    <3> HIDE DEF A, a
    <3>3. A \in [Upstream(s) -> Counters] /\ A[u] = a /\ \A v \in Upstream(s) : v # u => A[v] = m.nxtAck[v]
      BY <2>1, <2>2, <3>1, <3>2
    <3> QED
      BY <3>1, <3>3
  <2> HIDE DEF A
  <2>6. /\ m1 \in MmuType(s) /\ Apart(m, m1) /\ m1.rcvData = m.rcvData /\ m1.lstAck = m.lstAck /\ m1.nxtAck = A
    BY <2>4, <2>5, Zenon DEF MmuType, Apart
  <2>7. Owes(s, m1)
    <3>1. ASSUME NEW v \in Upstream(s), NEW e \in Host
          PROVE  /\ m1.lstAck[v][e] <= m1.nxtAck[v][e]
                 /\ NextHop[v][e] # s => m1.nxtAck[v][e] = 0 /\ m1.rcvData[v][e] = 0
                 /\ Absolute => m1.nxtAck[v][e] <= m1.rcvData[v][e]
      <4>1. CASE v = u /\ e = d
        BY <2>1, <2>2, <2>3, <2>5, <2>6, <4>1
      <4>2. CASE v # u \/ e # d
        BY <2>5, <2>6, <4>2 DEF Owes
      <4> QED
        BY <4>1, <4>2
    <3> QED
      BY <3>1 DEF Owes
  <2>8. r = Acknowledge(m1, U, Scope(d))
    BY <1>2 DEF NotifyDequeue, m1, d
  <2>9. U \in SUBSET Upstream(s) /\ Scope(d) \in SUBSET Host
    BY <2>1 DEF Scope, u
  <2> HIDE DEF U
  <2>10. Acked(s, m1, r)
    BY <2>6, <2>7, <2>8, <2>9, AcknowledgeIs
  <2>11. Noted(s, m, r.m) /\ Apart(m, r.m) /\ r.m.rcvData = m.rcvData
    BY <2>6, <2>10 DEF Acked, Noted, Apart
  <2>12. Acked(s, m, r)
    BY <2>10, <2>11 DEF Acked
  <2>13. Repays(s, m1, r) /\ r.m.nxtAck = A
    BY <2>1, <2>6, <2>7, <2>8, <2>9, AcknowledgeRepays
  <2>14. Repays(s, m, r)
    <3>1. \A v, n, c : Repaid(v, m1, n, c) => Repaid(v, m, n, c)
      BY <2>6 DEF Repaid
    <3>2. \A v : m1.lstAck[v] = m.lstAck[v]
      BY <2>6, Zenon
    <3>3. ASSUME NEW v \in Upstream(s), v \in DOMAIN r.acks, NEW y, r.acks[v] = <<y>> /\ Repaid(v, m1, r.m, y)
          PROVE  \E z : r.acks[v] = <<z>> /\ Repaid(v, m, r.m, z)
      BY <3>1, <3>3
    <3> QED
      BY <2>13, <3>2, <3>3, Zenon DEF Repays
  <2>15. \A v \in Upstream(s), e \in Host :
           r.m.nxtAck[v][e] = IF v # u \/ e # d THEN m.nxtAck[v][e]
                              ELSE IF Absolute THEN Max({m.nxtAck[v][e], p.ipsn}) ELSE m.nxtAck[v][e] + p.size
    <3> SUFFICES ASSUME NEW v \in Upstream(s), NEW e \in Host
                 PROVE  r.m.nxtAck[v][e] = IF v # u \/ e # d THEN m.nxtAck[v][e]
                                           ELSE IF Absolute THEN Max({m.nxtAck[v][e], p.ipsn}) ELSE m.nxtAck[v][e] + p.size
      OBVIOUS
    <3>1. CASE v # u \/ e # d
      BY <2>5, <2>13, <3>1, Zenon
    <3>2. CASE v = u /\ e = d
      <4>1. r.m.nxtAck[v][e] = x
        BY <2>5, <2>13, <3>2, Zenon
      <4> QED
        BY <3>2, <4>1, Zenon DEF x
    <3> QED
      BY <3>1, <3>2, Zenon
  <2> QED
    BY <2>12, <2>14, <2>15, Zenon DEF Notified, u, d
<1> QED
  BY <1>1, <1>2

-----------------------------------------------------------------------------
(* The inductive invariant, of the switches M, the ports Q and the links W *)

LEMMA Links ==
  /\ \A l \in Link : l[1] \in Switch /\ l[2] \in Switch \cup Host /\ l = <<l[1], l[2]>>
  /\ \A l \in Wire : l \in Link /\ l[1] \in Switch /\ l[2] \in Switch /\ l[1] \in Upstream(l[2])
  /\ \A s \in Switch : \A u \in Upstream(s) : u \in Switch /\ <<u, s>> \in Wire
  /\ \A s \in Switch, n \in Switch, d \in Host : NextHop[s][d] = n => <<s, n>> \in Wire
<1>1. \A l \in Link : l[1] \in Switch /\ l[2] \in Switch \cup Host /\ l = <<l[1], l[2]>>
  BY DEF Link
<1>2. \A l \in Wire : l \in Link /\ l[2] \in Switch
  BY DEF Wire
<1>3. \A s, n \in Switch : <<s, n>> \in Link => <<s, n>> \in Wire
  BY DEF Wire
<1>4. \A s, n \in Switch, d \in Host : NextHop[s][d] = n => <<s, n>> \in Link
  BY DEF Link, Routed
<1> QED
  BY <1>1, <1>2, <1>3, <1>4 DEF Upstream

LEMMA GrownHolds ==
  ASSUME NEW s, NEW m \in MmuType(s), NEW n \in MmuType(s), Grown(s, m, n)
  PROVE  /\ \A p \in Packet : Here(s, m, p) => Here(s, n, p)
         /\ \A l \in Link, p \in Packet : Out(l, m, p) => Out(l, n, p)
         /\ \A l \in Link, x \in Frame : l[1] = s /\ Carried(l, m, x) => Carried(l, n, x)
<1>1. ASSUME NEW p \in Packet, Here(s, m, p) PROVE Here(s, n, p)
  <2>1. p.dst \in Host /\ p.ipsn \in Nat
    BY DEF Packet
  <2>2. CASE p.in \in Upstream(s)
    <3>1. /\ m.rcvData[p.in][p.dst] <= n.rcvData[p.in][p.dst]
          /\ n.rcvData[p.in][p.dst] \in Nat /\ m.rcvData[p.in][p.dst] \in Nat
      BY <2>1, <2>2, CountersOf DEF Grown, Noted
    <3> QED
      BY <1>1, <2>1, <3>1 DEF Here
  <2>3. CASE p.in \notin Upstream(s)
    BY <1>1, <2>3 DEF Here
  <2> QED
    BY <2>2, <2>3
<1>2. \A d \in Host : m.nxtData[d] \in Nat /\ n.nxtData[d] \in Nat /\ m.nxtData[d] <= n.nxtData[d]
  BY DEF Grown, MmuType, Counters
<1>3. ASSUME NEW l \in Link, NEW p \in Packet, Out(l, m, p) PROVE Out(l, n, p)
  <2>1. p.dst \in Host /\ p.psn \in Nat
    BY DEF Packet
  <2>2. m.nxtData[p.dst] \in Nat /\ n.nxtData[p.dst] \in Nat /\ m.nxtData[p.dst] <= n.nxtData[p.dst]
    BY <1>2, <2>1
  <2> QED
    BY <1>3, <2>1, <2>2 DEF Out
<1>4. ASSUME NEW l \in Link, NEW x \in Frame, l[1] = s, Carried(l, m, x) PROVE Carried(l, n, x)
  <2>1. CASE x.kind = "DATA"
    <3>1. x \in Packet
      BY <2>1 DEF Frame
    <3> QED
      BY <1>3, <1>4, <2>1, <3>1 DEF Carried
  <2>2. CASE x.kind = "ACK"
    <3> DEFINE u == l[2]
    <3>1. x.credit \in [DOMAIN x.credit -> Nat] /\ DOMAIN x.credit \subseteq Host
      <4>1. x.credit \in Partial(Host, Nat)
        BY <2>2 DEF Frame, Packet
      <4> QED
        BY <4>1, PartialIs
    <3>2. u \in Upstream(s) /\ Gives(s, u, m, x.credit)
      BY <1>4, <2>2 DEF Carried
    <3>3. ASSUME NEW d \in DOMAIN x.credit
          PROVE  NextHop[u][d] = s /\ (Absolute => x.credit[d] <= n.lstAck[u][d])
      <4>1. d \in Host /\ x.credit[d] \in Nat
        BY <3>1
      <4>2. m.lstAck[u][d] \in Nat /\ n.lstAck[u][d] \in Nat /\ m.lstAck[u][d] <= n.lstAck[u][d]
        BY <3>2, <4>1, CountersOf DEF Grown, Noted
      <4>3. NextHop[u][d] = s /\ (Absolute => x.credit[d] <= m.lstAck[u][d])
        BY <3>2 DEF Gives
      <4> HIDE DEF u
      <4> QED
        BY <4>1, <4>2, <4>3
    <3>4. Gives(s, u, n, x.credit)
      BY <3>2, <3>3 DEF Gives
    <3> QED
      BY <1>4, <2>2, <3>2, <3>4 DEF Carried
  <2>3. CASE x.kind = "SYN"
    <3>1. x.data \in [DOMAIN x.data -> Nat] /\ DOMAIN x.data \subseteq Host
      <4>1. x.data \in Partial(Host, Nat)
        BY <2>3 DEF Frame, Packet
      <4> QED
        BY <4>1, PartialIs
    <3>2. \A d \in DOMAIN x.data : NextHop[l[1]][d] = l[2] /\ x.data[d] <= m.nxtData[d]
      BY <1>4, <2>3 DEF Carried
    <3>3. \A d \in DOMAIN x.data : NextHop[l[1]][d] = l[2] /\ x.data[d] <= n.nxtData[d]
      <4>1. \A d \in DOMAIN x.data : x.data[d] \in Nat /\ d \in Host
        BY <3>1
      <4> QED
        BY <1>2, <3>2, <4>1
    <3> QED
      BY <1>4, <2>3, <3>3 DEF Carried
  <2>4. x.kind \in {"DATA", "ACK", "SYN"}
    BY DEF Frame, Packet
  <2> QED
    BY <2>1, <2>2, <2>3, <2>4
<1> QED
  BY <1>1, <1>3, <1>4

\* One switch goes from M[s] to n.
LEMMA Steps ==
  ASSUME settings \in Configuration, NEW M, NEW Q, NEW W, SystemOK(M, Q, W), NEW s \in Switch,
         NEW n, StateOK(s, n), Grown(s, M[s], n), NEW N, N = [M EXCEPT ![s] = n],
         NEW P, PortsFrom(s, n, Q, P), NEW X, WiresFrom(s, n, W, X), Agreed(s, M, n)
  PROVE  SystemOK(N, P, X)
<1>1. /\ DOMAIN M = Switch /\ \A t \in Switch : StateOK(t, M[t]) /\ M[t] \in MmuType(t)
      /\ Q \in [Link -> Seq(Packet)] /\ W \in [Wire -> Seq(Frame)]
      /\ n \in MmuType(s) /\ P \in [Link -> Seq(Packet)] /\ X \in [Wire -> Seq(Frame)]
  BY DEF SystemOK, StateOK, PortsFrom, WiresFrom
<1>2. DOMAIN N = Switch /\ N[s] = n /\ \A t \in Switch : t # s => N[t] = M[t]
  BY <1>1
<1>3. \A t \in Switch : StateOK(t, N[t])
  BY <1>1, <1>2
<1>4. ASSUME NEW l \in Link, NEW i \in DOMAIN P[l] PROVE Queued(l, N[l[1]], P[l][i])
  <2>1. l[1] \in Switch /\ P[l][i] \in Packet
    BY <1>1, Links
  <2>2. CASE \E j \in DOMAIN Q[l] : Q[l][j] = P[l][i]
    <3>1. Queued(l, M[l[1]], P[l][i])
      BY <2>2 DEF SystemOK
    <3>2. CASE l[1] = s
      <4>1. Here(s, n, P[l][i]) /\ Out(l, n, P[l][i])
        BY <1>1, <2>1, <3>1, <3>2, GrownHolds DEF Queued
      <4> QED
        BY <1>2, <3>2, <4>1 DEF Queued
    <3>3. CASE l[1] # s
      BY <1>2, <2>1, <3>1, <3>3
    <3> QED
      BY <3>2, <3>3
  <2>3. CASE ~ \E j \in DOMAIN Q[l] : Q[l][j] = P[l][i]
    BY <1>2, <2>3 DEF PortsFrom
  <2> QED
    BY <2>2, <2>3
<1>5. ASSUME NEW l \in Wire, NEW i \in DOMAIN X[l] PROVE Carried(l, N[l[1]], X[l][i])
  <2>1. l \in Link /\ l[1] \in Switch /\ X[l][i] \in Frame
    BY <1>1, Links
  <2>2. CASE \E j \in DOMAIN W[l] : W[l][j] = X[l][i]
    <3>1. Carried(l, M[l[1]], X[l][i])
      BY <2>2 DEF SystemOK
    <3>2. CASE l[1] = s
      <4>1. Carried(l, n, X[l][i])
        BY <1>1, <2>1, <3>1, <3>2, GrownHolds
      <4> QED
        BY <1>2, <3>2, <4>1
    <3>3. CASE l[1] # s
      BY <1>2, <2>1, <3>1, <3>3
    <3> QED
      BY <3>2, <3>3
  <2>3. CASE ~ \E j \in DOMAIN W[l] : W[l][j] = X[l][i]
    BY <1>2, <2>3 DEF WiresFrom
  <2> QED
    BY <2>2, <2>3
<1>6. ASSUME NEW l \in Wire PROVE Pair(l, N[l[1]], N[l[2]])
  <2>1. /\ l[1] \in Switch /\ l[2] \in Switch /\ l[1] \in Upstream(l[2]) /\ l = <<l[1], l[2]>>
        /\ Pair(l, M[l[1]], M[l[2]])
    BY Links DEF SystemOK
  <2>2. CASE l[1] # s /\ l[2] # s
    BY <1>2, <2>1, <2>2
  <2>3. CASE l[1] # s /\ l[2] = s
    BY <1>2, <2>1, <2>3 DEF Agreed
  <2>4. CASE l[1] = s /\ l[2] # s
    BY <1>2, <2>1, <2>4 DEF Agreed
  <2>5. CASE l[1] = s /\ l[2] = s
    <3>1. Pair(l, M[s], n) /\ Pair(l, n, M[s])
      BY <2>1, <2>5 DEF Agreed
    <3>2. ASSUME Absolute, NEW d \in Host, NextHop[s][d] = s
          PROVE  n.rcvData[s][d] <= n.nxtData[d] /\ n.rcvAck[d] <= n.lstAck[s][d]
      <4>1. n.rcvData[s][d] <= M[s].nxtData[d] /\ n.rcvAck[d] <= M[s].lstAck[s][d]
        BY <2>5, <3>1, <3>2 DEF Pair
      <4>2. M[s].nxtData[d] <= n.nxtData[d] /\ M[s].lstAck[s][d] <= n.lstAck[s][d]
        BY <2>1, <2>5 DEF Grown, Noted
      <4>3. /\ n.rcvData[s][d] \in Nat /\ M[s].lstAck[s][d] \in Nat /\ n.lstAck[s][d] \in Nat
        BY <1>1, <2>1, <2>5, CountersOf
      <4>4. n.nxtData[d] \in Nat /\ M[s].nxtData[d] \in Nat /\ n.rcvAck[d] \in Nat
        BY <1>1 DEF MmuType, Counters
      <4> QED
        BY <4>1, <4>2, <4>3, <4>4
    <3>3. Pair(l, n, n)
      BY <2>5, <3>2 DEF Pair
    <3> QED
      BY <1>2, <2>5, <3>3
  <2> QED
    BY <2>2, <2>3, <2>4, <2>5
<1> QED
  BY <1>1, <1>2, <1>3, <1>4, <1>5, <1>6 DEF SystemOK

LEMMA AckingIs ==
  ASSUME NEW s, NEW n, NEW w \in [Wire -> Seq(Frame)], NEW acks,
         \A u \in DOMAIN acks : /\ acks[u] \in Seq(Frame)
                                /\ \A i \in DOMAIN acks[u] : Carried(<<s, u>>, n, acks[u][i])
  PROVE  WiresFrom(s, n, w, Acking(s, w, acks))
<1> DEFINE X == Acking(s, w, acks)
<1>1. ASSUME NEW l \in Wire
      PROVE  /\ X[l] \in Seq(Frame)
             /\ \A i \in DOMAIN X[l] : \/ \E j \in DOMAIN w[l] : w[l][j] = X[l][i]
                                       \/ l[1] = s /\ Carried(l, n, X[l][i])
  <2>1. CASE ~ (l[1] = s /\ l[2] \in DOMAIN acks)
    <3>1. X[l] = w[l]
      BY <2>1 DEF Acking
    <3> QED
      BY <3>1
  <2>2. CASE l[1] = s /\ l[2] \in DOMAIN acks
    <3> DEFINE q == w[l]
               a == acks[l[2]]
    <3>1. X[l] = q \o a
      BY <2>2 DEF Acking
    <3>2. q \in Seq(Frame) /\ a \in Seq(Frame) /\ l = <<s, l[2]>>
      BY <2>2, Links
    <3>3. \A i \in DOMAIN a : Carried(l, n, a[i])
      BY <2>2, <3>2
    <3> HIDE DEF q, a
    <3>4. q \o a \in Seq(Frame) /\ \A i \in DOMAIN (q \o a) :
            (\E j \in DOMAIN q : q[j] = (q \o a)[i]) \/ (\E j \in DOMAIN a : a[j] = (q \o a)[i])
      <4>1. /\ q \o a \in Seq(Frame) /\ Len(q \o a) = Len(q) + Len(a) /\ Len(q) \in Nat /\ Len(a) \in Nat
            /\ \A i \in 1 .. Len(q) + Len(a) : (q \o a)[i] = IF i <= Len(q) THEN q[i] ELSE a[i - Len(q)]
        BY <3>2
      <4>2. ASSUME NEW i \in 1 .. Len(q) + Len(a)
            PROVE  (\E j \in DOMAIN q : q[j] = (q \o a)[i]) \/ (\E j \in DOMAIN a : a[j] = (q \o a)[i])
        <5>1. CASE i <= Len(q)
          <6>1. i \in DOMAIN q
            BY <3>2, <4>1, <5>1
          <6> QED
            BY <4>1, <5>1, <6>1
        <5>2. CASE ~ (i <= Len(q))
          <6>1. i - Len(q) \in DOMAIN a
            BY <3>2, <4>1, <5>2
          <6> QED
            BY <4>1, <5>2, <6>1
        <5> QED
          BY <5>1, <5>2
      <4>3. DOMAIN (q \o a) = 1 .. Len(q) + Len(a)
        BY <3>2, <4>1
      <4> QED
        BY <4>1, <4>2, <4>3, Zenon
    <3> QED
      BY <2>2, <3>1, <3>3, <3>4 DEF q
  <2> QED
    BY <2>1, <2>2
<1>2. X = [l \in Wire |-> X[l]]
  BY DEF Acking
<1> HIDE DEF X
<1>3. X \in [Wire -> Seq(Frame)]
  BY <1>1, <1>2
<1> QED
  BY <1>1, <1>3 DEF X, WiresFrom

LEMMA HandledIs ==
  ASSUME NEW W \in [Wire -> Seq(Frame)], NEW l \in Wire, W[l] # << >>
  PROVE  /\ Handled(W, l) \in [Wire -> Seq(Frame)] /\ Head(W[l]) \in Frame
         /\ \E j \in DOMAIN W[l] : W[l][j] = Head(W[l])
         /\ \A k \in Wire : \A i \in DOMAIN Handled(W, l)[k] : \E j \in DOMAIN W[k] : W[k][j] = Handled(W, l)[k][i]
<1> DEFINE q == W[l]
<1>1. q \in Seq(Frame) /\ q # << >>
  OBVIOUS
<1>2. Handled(W, l) = [W EXCEPT ![l] = Tail(q)]
  BY DEF Handled
<1> HIDE DEF q
<1>3. /\ Tail(q) \in Seq(Frame) /\ Head(q) \in Frame /\ 1 \in DOMAIN q /\ q[1] = Head(q)
      /\ \A i \in DOMAIN Tail(q) : \E j \in DOMAIN q : q[j] = Tail(q)[i]
  BY <1>1, TailLeft
<1> QED
  BY <1>2, <1>3 DEF q

\* A switch works on its ports after its counters went from M[s] to k.
LEMMA ServedStep ==
  ASSUME settings \in Configuration, NEW M, NEW Q, NEW W, SystemOK(M, Q, W), NEW s \in Switch,
         NEW k \in MmuType(s), Grown(s, M[s], k), Owes(s, k), NEW st, st = [m |-> k, q |-> Q],
         NEW r, Served(s, st, r), NEW N, N = [M EXCEPT ![s] = r.m],
         NEW X, Drained(W, X), Agreed(s, M, k)
  PROVE  SystemOK(N, r.q, X)
<1> DEFINE n == r.m
<1>1. /\ st.m = k /\ st.q = Q /\ r \in AtWork(s) /\ VoqsGood(s, n) /\ Lacks(n) /\ Worked(s, st, r)
  BY DEF Served
<1>2. n \in MmuType(s) /\ r.q \in [Link -> Seq(Packet)]
  BY <1>1 DEF AtWork
<1>3. Kept(k, n) /\ \A d \in Host : k.nxtData[d] <= n.nxtData[d]
  BY <1>1 DEF Worked
<1>4. M[s] \in MmuType(s) /\ \A t \in Switch : M[t] \in MmuType(t)
  BY DEF SystemOK, StateOK
<1>5. \A l \in Link : \A i \in DOMAIN r.q[l] :
        (\E j \in DOMAIN Q[l] : Q[l][j] = r.q[l][i]) \/ (l[1] = s /\ Queued(l, n, r.q[l][i]))
  BY <1>1 DEF Worked
<1>10. PortsFrom(s, n, Q, r.q)
  BY <1>2, <1>5 DEF PortsFrom
<1>11. WiresFrom(s, n, W, X)
  BY DEF WiresFrom, Drained
<1> HIDE DEF n
<1>6. StateOK(s, n)
  BY <1>1, <1>2, <1>3 DEF StateOK, Owes, Kept, n
<1>7. Grown(s, M[s], n)
  <2>1. \A d \in Host : M[s].nxtData[d] <= n.nxtData[d]
    <3>1. \A d \in Host : M[s].nxtData[d] \in Nat /\ k.nxtData[d] \in Nat /\ n.nxtData[d] \in Nat
      BY <1>2, <1>4 DEF MmuType, Counters, n
    <3> QED
      BY <1>3, <3>1 DEF Grown
  <2> QED
    BY <1>3, <2>1 DEF Grown, Noted, Kept
<1>8. ASSUME NEW u \in Upstream(s) PROVE Pair(<<u, s>>, M[u], n)
  BY <1>3 DEF Pair, Kept, Agreed
<1>9. ASSUME NEW t \in Switch, <<s, t>> \in Wire PROVE Pair(<<s, t>>, n, M[t])
  <2>1. Pair(<<s, t>>, k, M[t]) /\ s \in Upstream(t)
    BY <1>9 DEF Upstream, Agreed
  <2>2. \A d \in Host : /\ M[t].rcvData[s][d] \in Nat /\ k.nxtData[d] \in Nat /\ n.nxtData[d] \in Nat
                        /\ k.nxtData[d] <= n.nxtData[d] /\ n.rcvAck[d] = k.rcvAck[d]
    <3>1. \A d \in Host : M[t].rcvData[s][d] \in Nat
      BY <1>4, <2>1, CountersOf
    <3>2. \A d \in Host : k.nxtData[d] \in Nat /\ n.nxtData[d] \in Nat
      BY <1>2 DEF MmuType, Counters, n
    <3> QED
      BY <1>3, <3>1, <3>2 DEF Kept
  <2> QED
    BY <2>1, <2>2 DEF Pair
<1>12. Agreed(s, M, n)
  BY <1>8, <1>9 DEF Agreed
<1>13. N = [M EXCEPT ![s] = n]
  BY DEF n
<1> QED
  BY <1>6, <1>7, <1>10, <1>11, <1>12, <1>13, Steps, Zenon

\* What a switch has agreed with its neighbours.
LEMMA PairsOf ==
  ASSUME NEW M, NEW Q, NEW W, SystemOK(M, Q, W), NEW s \in Switch
  PROVE  /\ M[s] \in MmuType(s) /\ StateOK(s, M[s]) /\ \A t \in Switch : M[t] \in MmuType(t)
         /\ \A u \in Upstream(s) : u \in Switch /\ <<u, s>> \in Wire
         /\ Agreed(s, M, M[s])
<1>1. \A u \in Upstream(s) : u \in Switch /\ <<u, s>> \in Wire
  BY Links
<1>2. \A l \in Wire : Pair(l, M[l[1]], M[l[2]])
  BY DEF SystemOK
<1>3. \A t \in Switch : <<s, t>> \in Wire => Pair(<<s, t>>, M[s], M[t])
  BY <1>2
<1>4. \A u \in Upstream(s) : Pair(<<u, s>>, M[u], M[s])
  BY <1>1, <1>2
<1> QED
  BY <1>1, <1>3, <1>4 DEF SystemOK, StateOK, Agreed

\* A change of the credit counters that leaves the windows of both sides alone.
LEMMA PairsKept ==
  ASSUME NEW M, NEW Q, NEW W, SystemOK(M, Q, W), NEW s \in Switch, NEW n \in MmuType(s),
         Apart(M[s], n), Noted(s, M[s], n), n.rcvData = M[s].rcvData
  PROVE  /\ Grown(s, M[s], n)
         /\ Agreed(s, M, n)
<1>1. /\ M[s] \in MmuType(s) /\ \A t \in Switch : M[t] \in MmuType(t)
      /\ \A u \in Upstream(s) : u \in Switch /\ Pair(<<u, s>>, M[u], M[s])
      /\ \A t \in Switch : <<s, t>> \in Wire => Pair(<<s, t>>, M[s], M[t])
  BY PairsOf DEF Agreed
<1>2. Grown(s, M[s], n)
  <2>1. \A d \in Host : M[s].nxtData[d] \in Nat
    BY <1>1 DEF MmuType, Counters
  <2> QED
    BY <2>1 DEF Grown, Apart
<1>3. ASSUME NEW u \in Upstream(s) PROVE Pair(<<u, s>>, M[u], n)
  <2>1. \A d \in Host : /\ M[u].rcvAck[d] \in Nat /\ M[s].lstAck[u][d] \in Nat /\ n.lstAck[u][d] \in Nat
                        /\ M[s].lstAck[u][d] <= n.lstAck[u][d]
    <3>1. \A d \in Host : M[s].lstAck[u][d] \in Nat /\ n.lstAck[u][d] \in Nat
      BY <1>1, CountersOf
    <3>2. \A d \in Host : M[u].rcvAck[d] \in Nat
      BY <1>1, Zenon DEF MmuType, Counters
    <3> QED
      BY <3>1, <3>2 DEF Noted
  <2> QED
    BY <1>1, <2>1 DEF Pair
<1>4. ASSUME NEW t \in Switch, <<s, t>> \in Wire PROVE Pair(<<s, t>>, n, M[t])
  BY <1>1, <1>4 DEF Pair, Apart
<1> QED
  BY <1>2, <1>3, <1>4 DEF Agreed

\* The links in two steps.
LEMMA WiresOn ==
  ASSUME NEW s, NEW n, NEW W, NEW Y, NEW X, WiresFrom(s, n, W, Y), WiresFrom(s, n, Y, X)
  PROVE  WiresFrom(s, n, W, X)
<1>1. ASSUME NEW l \in Wire, NEW i \in DOMAIN X[l]
      PROVE  (\E j \in DOMAIN W[l] : W[l][j] = X[l][i]) \/ (l[1] = s /\ Carried(l, n, X[l][i]))
  <2>1. CASE \E j \in DOMAIN Y[l] : Y[l][j] = X[l][i]
    <3>1. PICK j \in DOMAIN Y[l] : Y[l][j] = X[l][i]
      BY <2>1
    <3> QED
      BY <3>1 DEF WiresFrom
  <2>2. CASE ~ \E j \in DOMAIN Y[l] : Y[l][j] = X[l][i]
    BY <2>2 DEF WiresFrom
  <2> QED
    BY <2>1, <2>2
<1> QED
  BY <1>1 DEF WiresFrom

\* Nothing is put on the ports, or the links.
LEMMA Left ==
  ASSUME NEW M, NEW Q, NEW W, SystemOK(M, Q, W), NEW s, NEW n
  PROVE  PortsFrom(s, n, Q, Q) /\ WiresFrom(s, n, W, W)
BY DEF SystemOK, PortsFrom, WiresFrom

LEMMA FrameHandled ==
  ASSUME NEW M, NEW Q, NEW W, SystemOK(M, Q, W), NEW l \in Wire, W[l] # << >>, NEW s, NEW n
  PROVE  /\ Head(W[l]) \in Frame /\ Carried(l, M[l[1]], Head(W[l]))
         /\ Handled(W, l) \in [Wire -> Seq(Frame)] /\ WiresFrom(s, n, W, Handled(W, l))
         /\ Drained(W, Handled(W, l))
<1>1. W \in [Wire -> Seq(Frame)] /\ \A i \in DOMAIN W[l] : Carried(l, M[l[1]], W[l][i])
  BY DEF SystemOK
<1>2. /\ Handled(W, l) \in [Wire -> Seq(Frame)] /\ Head(W[l]) \in Frame
      /\ \E j \in DOMAIN W[l] : W[l][j] = Head(W[l])
      /\ \A k \in Wire : \A i \in DOMAIN Handled(W, l)[k] : \E j \in DOMAIN W[k] : W[k][j] = Handled(W, l)[k][i]
  BY <1>1, HandledIs
<1> QED
  BY <1>1, <1>2 DEF WiresFrom, Drained

\* A switch whose counters stay.
LEMMA Stays ==
  ASSUME NEW M, NEW Q, NEW W, SystemOK(M, Q, W), NEW s \in Switch
  PROVE  Grown(s, M[s], M[s]) /\ Agreed(s, M, M[s])
<1>1. M[s] \in MmuType(s) /\ Agreed(s, M, M[s])
  BY PairsOf
<1>2. Noted(s, M[s], M[s]) /\ Apart(M[s], M[s])
  <2>1. \A u \in Upstream(s), d \in Host : M[s].rcvData[u][d] \in Nat /\ M[s].lstAck[u][d] \in Nat
    BY <1>1, CountersOf
  <2> QED
    BY <2>1 DEF Noted, Apart
<1> QED
  BY <1>1, <1>2, PairsKept

-----------------------------------------------------------------------------
(* From event to event: data *)

\* The switch of a flow's source.
LEMMA SourceToR ==
  ASSUME NEW f \in Flow
  PROVE  /\ ToROf(FlowSrc[f]) \in Switch /\ ShouldIgnore(ToROf(FlowSrc[f]), FlowSrc[f])
         /\ ToROf(FlowSrc[f]) \in ToR /\ FlowSrc[f] \in Down[ToROf(FlowSrc[f])]
<1>1. \E x \in ToR : FlowSrc[f] \in Down[x]
  BY FlowsRouted
<1>2. ToROf(FlowSrc[f]) \in ToR /\ FlowSrc[f] \in Down[ToROf(FlowSrc[f])]
  BY <1>1 DEF ToROf
<1> QED
  BY <1>2, FloodgateParameters DEF ShouldIgnore

\* The route of a flow passes its switches one by one, and none twice.
LEMMA RouteStep ==
  ASSUME NEW u \in Switch, NEW s \in Switch, NEW p \in Packet, OnRoute(u, p), NextHop[u][p.dst] = s
  PROVE  /\ \A n, path : RouteOf(p.flow, n, path) =>
              \E i \in 1 .. n - 1 : path[i] = u /\ path[i + 1] = s
         /\ OnRoute(s, p) /\ ~ ShouldIgnore(s, FlowSrc[p.flow])
<1>1. p.flow \in Flow /\ p.dst = FlowDst[p.flow] /\ p.dst \notin Switch
  BY FloodgateParameters DEF OnRoute, Packet
<1>2. ASSUME NEW n, NEW path, RouteOf(p.flow, n, path)
      PROVE  \E i \in 1 .. n - 1 : path[i] = u /\ path[i + 1] = s
  <2>1. PICK i \in 1 .. n : path[i] = u
    BY <1>2 DEF OnRoute
  <2>2. n \in Nat /\ \A j \in 1 .. n - 1 : NextHop[path[j]][p.dst] = path[j + 1]
    BY <1>1, <1>2, FS_CardinalityType DEF RouteOf, IsPath
  <2>3. NextHop[path[n]][p.dst] = p.dst
    BY <1>1, <1>2 DEF RouteOf, IsPath
  <2>4. i # n
    BY <1>1, <2>1, <2>3
  <2>5. i \in 1 .. n - 1
    BY <2>2, <2>4
  <2> QED
    BY <2>1, <2>2, <2>5
<1>3. PICK n, path : RouteOf(p.flow, n, path)
  BY <1>1, FlowsRouted DEF RouteOf
<1>4. OnRoute(s, p)
  <2>1. ASSUME NEW k, NEW r, RouteOf(p.flow, k, r) PROVE \E i \in 1 .. k : r[i] = s
    <3>1. PICK i \in 1 .. k - 1 : r[i + 1] = s
      BY <1>2, <2>1
    <3>2. k \in Int
      BY <2>1 DEF RouteOf
    <3>3. i + 1 \in 1 .. k
      BY <3>2
    <3> QED
      BY <3>1, <3>3
  <2> QED
    BY <1>1, <2>1 DEF OnRoute
<1>5. ~ ShouldIgnore(s, FlowSrc[p.flow])
  <2>1. PICK i \in 1 .. n - 1 : path[i + 1] = s
    BY <1>2, <1>3
  <2>2. n \in Nat
    BY <1>3, FloodgateParameters, FS_CardinalityType DEF RouteOf
  <2>3. i + 1 \in 1 .. n /\ 1 \in 1 .. n /\ i + 1 # 1
    BY <2>2
  <2>4. path[1] # path[i + 1]
    BY <1>3, <2>3 DEF RouteOf, IsInjective
  <2>5. s # ToROf(FlowSrc[p.flow])
    BY <1>3, <2>1, <2>4 DEF RouteOf, IsPath
  <2>6. ToROf(FlowSrc[p.flow]) \in ToR /\ FlowSrc[p.flow] \in Down[ToROf(FlowSrc[p.flow])]
    BY <1>1, SourceToR
  <2> QED
    BY <2>5, <2>6, FloodgateParameters DEF ShouldIgnore
<1> QED
  BY <1>2, <1>4, <1>5

LEMMA HostSends ==
  ASSUME settings \in Configuration, SystemOK(mmu, oq, wire), sent \in [Flow -> Nat],
         NEW f \in Flow, HostSend(f)
  PROVE  SystemOK(mmu', oq', wire')
<1> DEFINE s == ToROf(FlowSrc[f])
           p == [kind |-> "DATA", flow |-> f, seq |-> sent[f] + 1, size |-> Sizes[f][sent[f] + 1],
                 dst |-> FlowDst[f], in |-> FlowSrc[f], psn |-> 0, ipsn |-> 0]
           m == mmu[s]
           st == [m |-> m, q |-> oq]
           r == CheckVOQWin(s, st, p)
<1>1. sent[f] < Len(Sizes[f]) /\ mmu' = [mmu EXCEPT ![s] = r.m] /\ oq' = r.q /\ wire' = wire
  BY DEF HostSend
<1>2. s \in Switch /\ ShouldIgnore(s, FlowSrc[f])
  BY SourceToR
<1>3. FlowSrc[f] \in Host /\ FlowDst[f] \in Host /\ FlowSrc[f] \notin Switch /\ sent[f] \in Nat
  BY FloodgateParameters
<1>4. Sizes[f][sent[f] + 1] \in Positive
  <2>1. Sizes[f] \in Seq(Positive)
    BY SettingTypes
  <2> QED
    BY <1>1, <1>3, <2>1
<1>5. p \in Packet
  BY <1>3, <1>4 DEF Packet, Node
<1>6. p.in = FlowSrc[f] /\ p.flow = f /\ p.dst = FlowDst[f] /\ p.psn = 0
  OBVIOUS
<1> HIDE DEF s, p
<1>7. m \in MmuType(s) /\ StateOK(s, m)
  BY <1>2, PairsOf
<1>8. Here(s, m, p)
  <2>1. OnRoute(s, p)
    <3>1. \A n, path : RouteOf(f, n, path) => 1 \in 1 .. n /\ path[1] = s
      BY DEF RouteOf, IsPath, s
    <3> QED
      BY <1>6, <3>1 DEF OnRoute
  <2> QED
    BY <1>2, <1>3, <1>6, <2>1, Links, Zenon DEF Here
<1>9. st \in AtWork(s) /\ st.m = m
  BY <1>7 DEF AtWork, SystemOK
<1> HIDE DEF m
<1>10. Served(s, st, r)
  <2> DEFINE t == st
  <2>1. t \in AtWork(s) /\ VoqsGood(s, t.m) /\ Lacks(t.m) /\ Here(s, t.m, p)
    BY <1>7, <1>8, <1>9 DEF StateOK
  <2> HIDE DEF t
  <2>2. Served(s, t, CheckVOQWin(s, t, p))
    BY <1>2, <1>5, <1>6, <2>1, WinChecked
  <2> QED
    BY <2>2 DEF t
<1>11. Grown(s, mmu[s], m) /\ Agreed(s, mmu, m) /\ Owes(s, m)
  BY <1>2, <1>7, Stays DEF m, StateOK
<1>12. Drained(wire, wire)
  BY DEF SystemOK, Drained
<1> HIDE DEF r
<1> QED
  BY <1>1, <1>2, <1>7, <1>10, <1>11, <1>12, ServedStep, Zenon

LEMMA NotingIs ==
  ASSUME settings \in Configuration, NEW s, NEW m \in MmuType(s), Owes(s, m), NEW u \in Upstream(s), NEW d \in Host,
         NextHop[u][d] = s, NEW x \in Nat, NEW k, k = Noting(m, u, d, x)
  PROVE  RcvNoted(s, m, u, d, x, k)
<1> DEFINE a == m.rcvData[u][d]
           y == IF Absolute THEN Max({a, x}) ELSE a
           R == [m.rcvData EXCEPT ![u][d] = y]
<1>1. a \in Nat /\ m.rcvData \in [Upstream(s) -> Counters] /\ \A v \in Upstream(s) : m.rcvData[v] \in Counters
  BY CountersOf DEF MmuType
<1>2. k = [m EXCEPT !.rcvData[u][d] = y]
  BY DEF Noting
<1>3. k = [m EXCEPT !.rcvData = R]
  <2> HIDE DEF y
  <2> QED
    BY <1>2, Zenon DEF R
<1> HIDE DEF a
<1>4. y \in Nat /\ a <= y /\ (Absolute => x <= y) /\ \A c \in Nat : a <= c /\ x <= c => y <= c
  <2>1. CASE Absolute
    BY <1>1, <2>1, MaxIs, Zenon
  <2>2. CASE ~ Absolute
    BY <1>1, <2>2
  <2> QED
    BY <2>1, <2>2
<1>5. ~ Absolute => y = a
  OBVIOUS
<1> HIDE DEF y
<1>6. /\ R \in [Upstream(s) -> Counters] /\ R[u][d] = y
      /\ \A v \in Upstream(s), e \in Host : ~ (v = u /\ e = d) => R[v][e] = m.rcvData[v][e]
  BY <1>1, <1>4 DEF Counters
<1> HIDE DEF R
<1>7. /\ k \in MmuType(s) /\ Apart(m, k) /\ k.lstAck = m.lstAck /\ k.nxtAck = m.nxtAck /\ k.rcvData = R
  BY <1>3, <1>6, Zenon DEF MmuType, Apart
<1>8. ASSUME NEW v \in Upstream(s), NEW e \in Host
      PROVE  /\ m.rcvData[v][e] <= R[v][e] /\ m.rcvData[v][e] \in Nat /\ R[v][e] \in Nat
             /\ NextHop[v][e] # s => R[v][e] = m.rcvData[v][e]
             /\ R[v][e] = m.rcvData[v][e] \/ (v = u /\ e = d /\ Absolute)
  <2>1. m.rcvData[v][e] \in Nat
    BY CountersOf
  <2>2. CASE v = u /\ e = d
    <3>1. m.rcvData[v][e] = a /\ R[v][e] = y
      BY <1>6, <2>2 DEF a
    <3> QED
      BY <1>1, <1>4, <1>5, <2>2, <3>1
  <2>3. CASE ~ (v = u /\ e = d)
    <3>1. m.rcvData[v][e] = R[v][e]
      BY <1>6, <2>3
    <3> QED
      BY <2>1, <3>1
  <2> QED
    BY <2>2, <2>3
<1>9. Noted(s, m, k)
  <2>1. \A v \in Upstream(s), e \in Host : m.lstAck[v][e] \in Nat
    BY CountersOf
  <2> QED
    BY <1>7, <1>8, <2>1 DEF Noted
<1>10. Owes(s, k)
  <2>1. \A v \in Upstream(s), e \in Host : m.nxtAck[v][e] \in Nat
    BY CountersOf
  <2>2. ASSUME NEW v \in Upstream(s), NEW e \in Host, Absolute PROVE m.nxtAck[v][e] <= R[v][e]
    <3>1. m.nxtAck[v][e] <= m.rcvData[v][e]
      BY <2>2 DEF Owes
    <3> QED
      BY <1>8, <2>1, <3>1
  <2> QED
    BY <1>7, <1>8, <2>2 DEF Owes
<1>11. k.rcvData[u][d] = y
  BY <1>6, <1>7
<1>12. \A v \in Upstream(s), e \in Host : k.rcvData[v][e] = m.rcvData[v][e] \/ (v = u /\ e = d /\ Absolute)
  BY <1>7, <1>8
<1> QED
  BY <1>4, <1>7, <1>9, <1>10, <1>11, <1>12 DEF a, RcvNoted

\* A frame of data is a packet.
LEMMA DataFrame ==
  ASSUME NEW x \in Frame
  PROVE  /\ x.kind = "DATA" => x \in Packet
         /\ x.kind = "ACK" => x.credit \in Partial(Host, Nat)
         /\ x.kind = "SYN" => x.data \in Partial(Host, Nat) /\ x.ack \in Partial(Host, Nat)
<1>1. CASE x \in Packet
  <2>1. x.kind = "DATA"
    BY <1>1 DEF Packet
  <2> QED
    BY <1>1, <2>1
<1>2. CASE x \in [kind : {"ACK"}, credit : Partial(Host, Nat)]
  BY <1>2
<1>3. CASE x \in [kind : {"SYN"}, data : Partial(Host, Nat), ack : Partial(Host, Nat)]
  BY <1>3
<1> QED
  BY <1>1, <1>2, <1>3 DEF Frame

LEMMA DataReceived ==
  ASSUME settings \in Configuration, SystemOK(mmu, oq, wire), NEW s \in Switch, NEW u \in Upstream(s),
         NEW p, p = Head(wire[<<u, s>>]), wire[<<u, s>>] # << >>, p.kind = "DATA", ReceiveData(s, u, p)
  PROVE  SystemOK(mmu', oq', wire')
<1> DEFINE l == <<u, s>>
           q == [p EXCEPT !.in = u, !.psn = 0, !.ipsn = p.psn]
           m == mmu[s]
           k == Noting(m, u, p.dst, p.psn)
           st == [m |-> k, q |-> oq]
           r == CheckVOQWin(s, st, q)
           X == Handled(wire, l)
<1>1. /\ wire' = X
      /\ \/ mmu' = [mmu EXCEPT ![s] = r.m] /\ oq' = r.q
         \/ mmu' = [mmu EXCEPT ![s] = k] /\ oq' = oq
  BY Zenon DEF ReceiveData, Noting, Handled
<1>2. u \in Switch /\ l \in Wire /\ l[1] = u /\ l[2] = s
  BY Links
<1> HIDE DEF l
<1>3. /\ p \in Frame /\ Carried(l, mmu[l[1]], p)
      /\ WiresFrom(s, k, wire, X) /\ Drained(wire, X)
  <2>1. wire[l] # << >> /\ p = Head(wire[l])
    BY DEF l
  <2> HIDE DEF k
  <2> QED
    BY <1>2, <2>1, FrameHandled
<1> HIDE DEF X
<1>4. /\ p \in Packet /\ p.dst \in Host /\ p.psn \in Nat /\ NextHop[u][p.dst] = s
      /\ Absolute => p.psn <= mmu[u].nxtData[p.dst]
  <2>1. p \in Packet
    BY <1>3, DataFrame
  <2>2. Out(l, mmu[u], p)
    BY <1>2, <1>3 DEF Carried
  <2> QED
    BY <1>2, <2>1, <2>2 DEF Out, Packet
<1>4a. OnRoute(s, p) /\ ~ ShouldIgnore(s, FlowSrc[p.flow])
  <2>1. OnRoute(u, p)
    BY <1>2, <1>3, <1>4 DEF Carried, Out, Packet
  <2> QED
    BY <1>2, <1>4, <2>1, RouteStep
<1>5. m \in MmuType(s) /\ StateOK(s, m) /\ Owes(s, m) /\ Agreed(s, mmu, m) /\ \A t \in Switch : mmu[t] \in MmuType(t)
  BY PairsOf DEF StateOK
<1> HIDE DEF m
<1>6. /\ k \in MmuType(s) /\ Apart(m, k) /\ Noted(s, m, k) /\ Owes(s, k) /\ k.lstAck = m.lstAck
      /\ Absolute => p.psn <= k.rcvData[u][p.dst]
      /\ \A v \in Upstream(s), e \in Host :
           \/ k.rcvData[v][e] = m.rcvData[v][e]
           \/ /\ v = u /\ e = p.dst /\ Absolute
              /\ \A c \in Nat : m.rcvData[u][p.dst] <= c /\ p.psn <= c => k.rcvData[u][p.dst] <= c
  <2> DEFINE d == p.dst
             x == p.psn
  <2>1. d \in Host /\ x \in Nat /\ NextHop[u][d] = s /\ k = Noting(m, u, d, x)
    BY <1>4
  <2> HIDE DEF d, x, k
  <2>2. RcvNoted(s, m, u, d, x, k)
    BY <1>5, <2>1, NotingIs
  <2> QED
    BY <2>2 DEF d, x, RcvNoted
<1> HIDE DEF k
<1>7. StateOK(s, k)
  BY <1>5, <1>6, ApartGood
<1>8. Grown(s, m, k)
  <2>1. \A d \in Host : m.nxtData[d] \in Nat
    BY <1>5 DEF MmuType, Counters
  <2> QED
    BY <1>6, <2>1 DEF Grown, Apart
<1>9. Agreed(s, mmu, k)
  <2>1. ASSUME NEW v \in Upstream(s), NEW d \in Host, Absolute, NextHop[v][d] = s
        PROVE  k.rcvData[v][d] <= mmu[v].nxtData[d] /\ mmu[v].rcvAck[d] <= k.lstAck[v][d]
    <3>1. m.rcvData[v][d] <= mmu[v].nxtData[d] /\ mmu[v].rcvAck[d] <= m.lstAck[v][d]
      BY <1>5, <2>1 DEF Agreed, Pair
    <3>2. mmu[v].nxtData[d] \in Nat
      <4>1. v \in Switch
        BY Links, Zenon
      <4> QED
        BY <1>5, <4>1 DEF MmuType, Counters
    <3>3. CASE k.rcvData[v][d] = m.rcvData[v][d]
      BY <1>6, <3>1, <3>3
    <3>4. CASE k.rcvData[v][d] # m.rcvData[v][d]
      <4>1. /\ v = u /\ d = p.dst
            /\ \A c \in Nat : m.rcvData[u][p.dst] <= c /\ p.psn <= c => k.rcvData[u][p.dst] <= c
        BY <1>6, <3>4
      <4> QED
        BY <1>4, <1>6, <2>1, <3>1, <3>2, <4>1, Zenon
    <3> QED
      BY <3>3, <3>4
  <2>2. ASSUME NEW t \in Switch, <<s, t>> \in Wire PROVE Pair(<<s, t>>, k, mmu[t])
    BY <1>5, <1>6, <2>2 DEF Agreed, Pair, Apart
  <2> QED
    BY <2>1, <2>2 DEF Agreed, Pair
<1>10. CASE mmu' = [mmu EXCEPT ![s] = k] /\ oq' = oq
  <2>1. PortsFrom(s, k, oq, oq)
    BY Left
  <2> QED
    BY <1>1, <1>3, <1>7, <1>8, <1>9, <1>10, <2>1, Steps, Zenon DEF m
<1>11. CASE mmu' = [mmu EXCEPT ![s] = r.m] /\ oq' = r.q
  <2>1. q \in Packet /\ q.psn = 0 /\ q.in = u /\ q.dst = p.dst /\ q.ipsn = p.psn /\ q.flow = p.flow
    BY <1>2, <1>4, Zenon DEF Packet, Node
  <2> HIDE DEF q
  <2>2. Here(s, k, q)
    BY <1>4, <1>4a, <1>6, <2>1 DEF Here, OnRoute
  <2>3. st \in AtWork(s) /\ st.m = k /\ VoqsGood(s, k) /\ Lacks(k)
    BY <1>6, <1>7 DEF AtWork, SystemOK, StateOK
  <2>4. Served(s, st, r)
    <3> DEFINE t == st
    <3>1. t \in AtWork(s) /\ VoqsGood(s, t.m) /\ Lacks(t.m) /\ Here(s, t.m, q)
      BY <2>2, <2>3
    <3> HIDE DEF t
    <3>2. Served(s, t, CheckVOQWin(s, t, q))
      BY <2>1, <3>1, WinChecked
    <3> QED
      BY <3>2 DEF t
  <2> HIDE DEF r
  <2>5. Drained(wire, X)
    BY <1>3
  <2>6. k \in MmuType(s) /\ Grown(s, mmu[s], k) /\ Owes(s, k)
    BY <1>6, <1>8 DEF m
  <2>7. SystemOK(mmu', r.q, X)
    BY <1>9, <1>11, <2>4, <2>5, <2>6, ServedStep, Zenon
  <2> QED
    BY <1>1, <1>11, <2>7
<1> QED
  BY <1>1, <1>10, <1>11

-----------------------------------------------------------------------------
(* From event to event: switch ACKs *)

LEMMA RestoredIs ==
  ASSUME settings \in Configuration, NEW s, NEW m, StateOK(s, m), NEW credit \in Partial(Host, Nat),
         NEW k, k = Restored(m, credit)
  PROVE  RestoredOK(s, m, credit, k)
<1> DEFINE acks == [d \in Host |-> IF d \notin DOMAIN credit THEN m.rcvAck[d]
                                   ELSE IF Absolute THEN Max({m.rcvAck[d], credit[d]})
                                   ELSE m.rcvAck[d] + credit[d]]
           fresh == [d \in Host |-> m.fresh[d] \/ (SynTimer /\ d \in DOMAIN credit)]
<1>1. m \in MmuType(s) /\ \A d \in Host : m.rcvAck[d] \in Nat /\ m.fresh[d] \in BOOLEAN
  BY DEF StateOK, MmuType, Counters
<1>2. \A d \in DOMAIN credit : d \in Host /\ credit[d] \in Nat
  BY PartialIs
<1>3. k = [[m EXCEPT !.rcvAck = acks] EXCEPT !.fresh = fresh]
  <2> DEFINE w == [m EXCEPT !.rcvAck = acks]
  <2>1. RecoverWin(m, credit) = w
    BY DEF RecoverWin
  <2>2. w.fresh = m.fresh
    BY <1>1 DEF MmuType
  <2> HIDE DEF w
  <2>3. k = [w EXCEPT !.fresh = fresh]
    BY <2>1, <2>2 DEF Restored
  <2> QED
    BY <2>3 DEF w
<1>4. ASSUME NEW d \in Host
      PROVE  /\ acks[d] \in Nat
             /\ d \notin DOMAIN credit => acks[d] = m.rcvAck[d]
             /\ Absolute => acks[d] = m.rcvAck[d] \/ (d \in DOMAIN credit /\
                              \A c \in Nat : m.rcvAck[d] <= c /\ credit[d] <= c => acks[d] <= c)
             /\ d \in DOMAIN credit => /\ Absolute => m.rcvAck[d] <= acks[d] /\ credit[d] <= acks[d]
                                       /\ ~ Absolute => acks[d] = m.rcvAck[d] + credit[d]
  <2> DEFINE a == m.rcvAck[d]
             b == credit[d]
  <2>1. a \in Nat
    BY <1>1
  <2>2. CASE d \notin DOMAIN credit
    BY <2>1, <2>2
  <2>3. CASE d \in DOMAIN credit
    <3>1. b \in Nat /\ acks[d] = IF Absolute THEN Max({a, b}) ELSE a + b
      BY <1>2, <2>3
    <3> HIDE DEF a, b, acks
    <3>2. Max({a, b}) \in Nat /\ a <= Max({a, b}) /\ b <= Max({a, b}) /\ \A c \in Nat : a <= c /\ b <= c => Max({a, b}) <= c
      BY <2>1, <3>1, MaxIs, Zenon
    <3>3. CASE Absolute
      <4>1. acks[d] \in Nat /\ a <= acks[d] /\ b <= acks[d] /\ \A c \in Nat : a <= c /\ b <= c => acks[d] <= c
        BY <3>1, <3>2, <3>3
      <4> QED
        BY <2>3, <3>3, <4>1 DEF a, b
    <3>4. CASE ~ Absolute
      <4>1. acks[d] \in Nat /\ acks[d] = a + b
        BY <2>1, <3>1, <3>4
      <4> QED
        BY <2>3, <3>4, <4>1 DEF a, b
    <3> QED
      BY <3>3, <3>4
  <2> QED
    BY <2>2, <2>3, Zenon
<1>5. \A d \in Host : fresh[d] \in BOOLEAN
  BY <1>1
<1>6. acks \in Counters /\ fresh \in [Host -> BOOLEAN]
  <2>1. acks = [d \in Host |-> acks[d]] /\ fresh = [d \in Host |-> fresh[d]]
    OBVIOUS
  <2> HIDE DEF acks, fresh
  <2> QED
    BY <1>4, <1>5, <2>1 DEF Counters
<1> HIDE DEF acks, fresh
<1>7. /\ k \in MmuType(s) /\ k.groups = m.groups /\ k.nxtData = m.nxtData /\ k.buffering = m.buffering
      /\ k.rcvData = m.rcvData /\ k.nxtAck = m.nxtAck /\ k.lstAck = m.lstAck /\ k.rcvAck = acks
  BY <1>1, <1>3, <1>6, Zenon DEF MmuType
<1>8. /\ \A v : VoqAt(k, v) = VoqAt(m, v)
      /\ \A d : Bound(s, k, d) = Bound(s, m, d)
      /\ \A d : WaitingBytes(k, d, Node) = WaitingBytes(m, d, Node)
      /\ \A p : Here(s, k, p) <=> Here(s, m, p)
  BY <1>7 DEF VoqAt, Bound, WaitingBytes, Voqs, Voq, Here
<1>9. VoqsOK(s, k)
  BY <1>7, <1>8 DEF StateOK, VoqsGood, VoqsOK, Placed, Counted, Needed
<1>10. Waits(s, k)
  BY <1>8 DEF StateOK, VoqsGood, Waits
<1>11. Owes(s, k)
  BY <1>7 DEF StateOK, Owes
<1> QED
  BY <1>2, <1>4, <1>7, <1>9, <1>10, <1>11 DEF VoqsGood, RestoredOK

LEMMA AckReceived ==
  ASSUME settings \in Configuration, SystemOK(mmu, oq, wire), NEW n \in Switch, NEW s \in Switch, <<n, s>> \in Wire,
         NEW x, x = Head(wire[<<n, s>>]), wire[<<n, s>>] # << >>, x.kind = "ACK", ReceiveAck(s, n, x.credit)
  PROVE  SystemOK(mmu', oq', wire') /\ AckTaken(s, n, x.credit)
<1> DEFINE l == <<n, s>>
           credit == x.credit
           m == mmu[s]
           k == Restored(m, credit)
           st == [m |-> k, q |-> oq]
           d0 == CHOOSE d \in DOMAIN credit : TRUE
           r == IF Mode = "ingress" THEN CheckAndSendVOQAll(s, st) ELSE CheckAndSendVOQ(s, st, d0)
           X == Handled(wire, l)
<1>1. wire' = X /\ mmu' = [mmu EXCEPT ![s] = r.m] /\ oq' = r.q /\ sent' = sent /\ rcvd' = rcvd
  BY DEF ReceiveAck, Restored, Handled
<1>1a. wire' = Handled(wire, <<n, s>>) /\ credit = x.credit /\ m = mmu[s] /\ st = [m |-> k, q |-> oq]
  BY <1>1
<1>2. l \in Wire /\ l[1] = n /\ l[2] = s
  OBVIOUS
<1>3. wire[l] # << >> /\ x = Head(wire[l])
  OBVIOUS
<1> HIDE DEF l
<1>4. x \in Frame /\ Carried(l, mmu[l[1]], x) /\ Drained(wire, X)
  BY <1>2, <1>3, FrameHandled
<1> HIDE DEF X
<1>5. credit \in Partial(Host, Nat) /\ Gives(n, s, mmu[n], credit)
  <2>1. credit \in Partial(Host, Nat)
    BY <1>4, DataFrame
  <2> QED
    BY <1>2, <1>4, <2>1 DEF Carried
<1>6. /\ \A d \in DOMAIN credit : d \in Host /\ credit[d] \in Nat /\ NextHop[s][d] = n
      /\ Absolute => \A d \in DOMAIN credit : credit[d] <= mmu[n].lstAck[s][d]
      /\ Mode # "ingress" => \E d \in Host : DOMAIN credit = {d}
  <2>1. \A d \in DOMAIN credit : d \in Host /\ credit[d] \in Nat
    BY <1>5, PartialIs
  <2>2. Mode \in {"dst", "ingress"}
    BY FloodgateParameters DEF Mode
  <2> QED
    BY <1>5, <2>1, <2>2 DEF Gives
<1> HIDE DEF credit
<1>7. m \in MmuType(s) /\ StateOK(s, m) /\ Agreed(s, mmu, m) /\ \A t \in Switch : mmu[t] \in MmuType(t)
  BY PairsOf
<1> HIDE DEF m
<1>8. RestoredOK(s, m, credit, k)
  BY <1>5, <1>7, RestoredIs
<1> HIDE DEF k
<1>9. k \in MmuType(s) /\ VoqsGood(s, k) /\ Owes(s, k)
  BY <1>8 DEF RestoredOK
<1>10. Grown(s, m, k)
  <2>1. \A d \in Host : m.nxtData[d] \in Nat
    BY <1>7 DEF MmuType, Counters
  <2>2. \A u \in Upstream(s), d \in Host : m.rcvData[u][d] \in Nat /\ m.lstAck[u][d] \in Nat
    BY <1>7, CountersOf
  <2> QED
    BY <1>8, <2>1, <2>2 DEF Grown, RestoredOK, Noted
<1>11. Agreed(s, mmu, k)
  <2>1. ASSUME NEW u \in Upstream(s) PROVE Pair(<<u, s>>, mmu[u], k)
    BY <1>7, <1>8, <2>1 DEF Agreed, Pair, RestoredOK
  <2>2. ASSUME NEW t \in Switch, <<s, t>> \in Wire, Absolute, NEW d \in Host, NextHop[s][d] = t
        PROVE  mmu[t].rcvData[s][d] <= k.nxtData[d] /\ k.rcvAck[d] <= mmu[t].lstAck[s][d]
    <3>1. mmu[t].rcvData[s][d] <= m.nxtData[d] /\ m.rcvAck[d] <= mmu[t].lstAck[s][d]
      BY <1>7, <2>2 DEF Agreed, Pair
    <3>2. mmu[t].lstAck[s][d] \in Nat
      <4>1. s \in Upstream(t) /\ mmu[t] \in MmuType(t)
        BY <1>7, <2>2 DEF Upstream
      <4> QED
        BY <4>1, CountersOf
    <3>3. \/ k.rcvAck[d] = m.rcvAck[d]
          \/ d \in DOMAIN credit /\ \A c \in Nat : m.rcvAck[d] <= c /\ credit[d] <= c => k.rcvAck[d] <= c
      BY <1>8, <2>2 DEF RestoredOK
    <3>4. k.nxtData = m.nxtData
      BY <1>8 DEF RestoredOK
    <3>5. CASE k.rcvAck[d] = m.rcvAck[d]
      BY <3>1, <3>4, <3>5
    <3>6. CASE d \in DOMAIN credit /\ \A c \in Nat : m.rcvAck[d] <= c /\ credit[d] <= c => k.rcvAck[d] <= c
      <4>1. credit[d] <= mmu[t].lstAck[s][d]
        BY <1>6, <2>2, <3>6
      <4> QED
        BY <3>1, <3>2, <3>4, <3>6, <4>1
    <3> QED
      BY <3>3, <3>5, <3>6
  <2> QED
    BY <2>1, <2>2 DEF Agreed, Pair
<1>12. st \in AtWork(s) /\ st.m = k
  BY <1>9 DEF AtWork, SystemOK
<1> DEFINE t == st
<1>13. t \in AtWork(s) /\ t.m = k /\ VoqsGood(s, t.m) /\ t = [m |-> k, q |-> oq]
  BY <1>9, <1>12
<1>14. Served(s, t, r) /\ Moved(s, t, r)
  <2>1. CASE Mode = "ingress"
    <3>1. r = CheckAndSendVOQAll(s, t)
      BY <2>1
    <3> HIDE DEF t
    <3> QED
      BY <1>13, <3>1, AllServed
  <2>2. CASE Mode # "ingress"
    <3>1. PICK d \in Host : DOMAIN credit = {d}
      BY <1>6, <2>2, Zenon
    <3>2. r = CheckAndSendVOQ(s, t, d)
      <4>1. d0 = d
        BY <3>1
      <4> HIDE DEF d0
      <4> QED
        BY <2>2, <4>1
    <3> HIDE DEF t, r
    <3>3. ASSUME NEW v \in Places, NEW p \in HeadOf(k, v), CheckDstWin(k, p.dst, p.size) PROVE p.dst = d
      <4>1. p \in HeadOf(m, v) /\ ~ CheckDstWin(m, p.dst, p.size)
        <5>1. p \in HeadOf(m, v)
          BY <1>8 DEF RestoredOK, HeadOf
        <5> QED
          BY <1>7, <5>1 DEF StateOK, Lacks
      <4>2. p.dst \in Host
        BY <1>9, <3>3, AbleHas, Zenon
      <4>3. CASE p.dst \notin DOMAIN credit
        <5>1. k.rcvAck[p.dst] = m.rcvAck[p.dst] /\ k.nxtData = m.nxtData
          BY <1>8, <4>2, <4>3 DEF RestoredOK
        <5> QED
          BY <3>3, <4>1, <5>1 DEF CheckDstWin, Inflight
      <4> QED
        BY <3>1, <4>3
    <3>4. \A v \in Places : \A p \in HeadOf(t.m, v) : CheckDstWin(t.m, p.dst, p.size) => p.dst = d
      BY <1>13, <3>3
    <3> QED
      BY <1>13, <3>2, <3>4, DstServed
  <2> QED
    BY <2>1, <2>2
<1> HIDE DEF r, t
<1>15. Grown(s, mmu[s], k)
  BY <1>10 DEF m
<1>16. SystemOK(mmu', r.q, X)
  BY <1>1, <1>4, <1>9, <1>11, <1>13, <1>14, <1>15, ServedStep, Zenon
<1>17. Moved(s, [m |-> k, q |-> oq], r) /\ RestoredOK(s, mmu[s], credit, k)
  BY <1>8, <1>13, <1>14 DEF m
<1> HIDE DEF st, X, d0
<1>18. AckTaken(s, n, credit)
  BY <1>1, <1>1a, <1>5, <1>8, <1>17, Zenon DEF AckTaken, m
<1> QED
  BY <1>1, <1>1a, <1>16, <1>18, SMTT(30)

-----------------------------------------------------------------------------
(* From event to event: what a switch sends *)

\* A frame is put on a link.
LEMMA PutOn ==
  ASSUME NEW W \in [Wire -> Seq(Frame)], NEW l \in Wire, NEW n, NEW p \in Frame, Carried(l, n, p),
         NEW w, w = [W EXCEPT ![l] = Append(W[l], p)], NEW s, l[1] = s
  PROVE  WiresFrom(s, n, W, w)
<1> DEFINE a == W[l]
           b == Append(a, p)
<1>1. a \in Seq(Frame)
  OBVIOUS
<1> HIDE DEF a
<1>2. b \in Seq(Frame) /\ \A i \in DOMAIN b : b[i] = p \/ \E j \in DOMAIN a : a[j] = b[i]
  <2>1. /\ b \in Seq(Frame) /\ DOMAIN b = 1 .. Len(a) + 1 /\ b[Len(a) + 1] = p
        /\ \A i \in 1 .. Len(a) : b[i] = a[i] /\ i \in DOMAIN a
    BY <1>1
  <2>2. Len(a) \in Nat
    BY <1>1
  <2>3. ASSUME NEW i \in DOMAIN b PROVE b[i] = p \/ \E j \in DOMAIN a : a[j] = b[i]
    <3> HIDE DEF b
    <3>1. i = Len(a) + 1 \/ i \in 1 .. Len(a)
      BY <2>1, <2>2, <2>3
    <3> QED
      BY <2>1, <3>1
  <2> QED
    BY <2>1, <2>3
<1> HIDE DEF b
<1>3. w \in [Wire -> Seq(Frame)] /\ w[l] = b /\ \A k \in Wire : k # l => w[k] = W[k]
  BY <1>2 DEF a, b
<1>4. ASSUME NEW k \in Wire, NEW i \in DOMAIN w[k]
      PROVE  (\E j \in DOMAIN W[k] : W[k][j] = w[k][i]) \/ (k[1] = s /\ Carried(k, n, w[k][i]))
  <2>1. CASE k = l
    BY <1>2, <1>3, <2>1 DEF a
  <2>2. CASE k # l
    BY <1>3, <2>2
  <2> QED
    BY <2>1, <2>2
<1> QED
  BY <1>3, <1>4 DEF WiresFrom

\* Credits are sent back, after the links have become w.
LEMMA AckedStep ==
  ASSUME settings \in Configuration, NEW M, NEW Q, NEW W, SystemOK(M, Q, W), NEW s \in Switch,
         NEW r, Acked(s, M[s], r), NEW N, N = [M EXCEPT ![s] = r.m],
         NEW P, PortsFrom(s, r.m, Q, P), NEW w, WiresFrom(s, r.m, W, w)
  PROVE  SystemOK(N, P, Acking(s, w, r.acks))
<1> DEFINE n == r.m
           a == r.acks
           X == Acking(s, w, a)
<1>1. /\ n \in MmuType(s) /\ Apart(M[s], n) /\ Noted(s, M[s], n) /\ Owes(s, n) /\ n.rcvData = M[s].rcvData
      /\ \A u \in DOMAIN a : a[u] \in Seq(Frame) /\ \A i \in DOMAIN a[u] : Carried(<<s, u>>, n, a[u][i])
  BY DEF Acked
<1>2. PortsFrom(s, n, Q, P) /\ WiresFrom(s, n, W, w) /\ w \in [Wire -> Seq(Frame)]
  BY DEF WiresFrom
<1>3. N = [M EXCEPT ![s] = n]
  OBVIOUS
<1> HIDE DEF n, a
<1>4. WiresFrom(s, n, w, X)
  BY <1>1, <1>2, AckingIs
<1> HIDE DEF X
<1>5. WiresFrom(s, n, W, X)
  BY <1>2, <1>4, WiresOn
<1>6. StateOK(s, n)
  BY <1>1, PairsOf, ApartGood
<1>7. Grown(s, M[s], n) /\ Agreed(s, M, n)
  BY <1>1, PairsKept
<1>8. SystemOK(N, P, X)
  BY <1>2, <1>3, <1>5, <1>6, <1>7, Steps, Zenon
<1> QED
  BY <1>8 DEF X, a

LEMMA Transmits ==
  ASSUME settings \in Configuration, SystemOK(mmu, oq, wire), NEW s, NEW n, <<s, n>> \in Link, Transmit(s, n)
  PROVE  SystemOK(mmu', oq', wire')
<1> DEFINE l == <<s, n>>
           q == oq[l]
           p == Head(q)
           r == NotifyDequeue(s, mmu[s], p)
           w == IF n \in Host THEN wire ELSE [wire EXCEPT ![l] = Append(@, p)]
           P == [oq EXCEPT ![l] = Tail(q)]
<1>1. /\ q # << >> /\ mmu' = [mmu EXCEPT ![s] = r.m] /\ oq' = P
      /\ wire' = Acking(s, w, r.acks)
  BY DEF Transmit, SendAcks, Acking
<1>2. l \in Link /\ s \in Switch /\ n \in Switch \cup Host /\ l[1] = s /\ l[2] = n
  BY Links
<1>3. q \in Seq(Packet) /\ \A i \in DOMAIN q : Queued(l, mmu[s], q[i])
  BY <1>2, Zenon DEF SystemOK
<1>4. mmu[s] \in MmuType(s) /\ Owes(s, mmu[s])
  BY <1>2, PairsOf DEF StateOK
<1> HIDE DEF l
<1>5. /\ Tail(q) \in Seq(Packet) /\ p \in Packet /\ 1 \in DOMAIN q /\ q[1] = p
      /\ \A i \in DOMAIN Tail(q) : \E j \in DOMAIN q : q[j] = Tail(q)[i]
  <2> DEFINE h == q
  <2>1. h \in Seq(Packet) /\ h # << >>
    BY <1>1, <1>3
  <2> HIDE DEF h
  <2>2. /\ Tail(h) \in Seq(Packet) /\ Head(h) \in Packet /\ 1 \in DOMAIN h /\ h[1] = Head(h)
        /\ \A i \in DOMAIN Tail(h) : \E j \in DOMAIN h : h[j] = Tail(h)[i]
    BY <2>1, TailLeft
  <2> QED
    BY <2>2 DEF h
<1>6. Queued(l, mmu[s], p)
  BY <1>3, <1>5
<1> HIDE DEF p
<1>7. Here(s, mmu[s], p) /\ Out(l, mmu[s], p) /\ p \in Frame /\ p.kind = "DATA"
  BY <1>2, <1>5, <1>6 DEF Queued, Frame, Packet
<1>8. Acked(s, mmu[s], r)
  BY <1>4, <1>5, <1>7, NotifyIs
<1>9. PortsFrom(s, r.m, oq, P)
  <2>1. oq \in [Link -> Seq(Packet)]
    BY DEF SystemOK
  <2> DEFINE t == Tail(q)
  <2>2. P \in [Link -> Seq(Packet)] /\ P[l] = t /\ \A k \in Link : k # l => P[k] = oq[k]
    BY <1>2, <1>5, <2>1
  <2>3. \A i \in DOMAIN t : \E j \in DOMAIN oq[l] : oq[l][j] = t[i]
    BY <1>5
  <2> HIDE DEF t, P, q, r
  <2> QED
    BY <2>2, <2>3 DEF PortsFrom
<1>10. WiresFrom(s, r.m, wire, w)
  <2>1. CASE n \in Host
    BY <2>1, Left
  <2>2. CASE n \notin Host
    <3>1. l \in Wire /\ wire \in [Wire -> Seq(Frame)] /\ w = [wire EXCEPT ![l] = Append(wire[l], p)]
      BY <1>2, <2>2, SMTT(30) DEF Wire, SystemOK
    <3>2. Carried(l, r.m, p)
      BY <1>7, <1>8 DEF Carried, Out, Acked, Apart
    <3> HIDE DEF w, r
    <3> QED
      BY <1>2, <1>7, <3>1, <3>2, PutOn, Zenon
  <2> QED
    BY <2>1, <2>2
<1> HIDE DEF r, w, P
<1> QED
  BY <1>1, <1>2, <1>8, <1>9, <1>10, AckedStep, Zenon

LEMMA CreditsTimeOut ==
  ASSUME settings \in Configuration, SystemOK(mmu, oq, wire), NEW s \in Switch, NEW u \in Upstream(s), NEW d \in Host,
         CreditTimeout(s, u, d)
  PROVE  SystemOK(mmu', oq', wire') /\ CreditsSent(s)
<1> DEFINE r == Acknowledge(mmu[s], {u}, Scope(d))
<1>1. mmu' = [mmu EXCEPT ![s] = r.m] /\ wire' = Acking(s, wire, r.acks) /\ oq' = oq /\ sent' = sent /\ rcvd' = rcvd
  BY DEF CreditTimeout, SendAcks, Acking
<1>2. mmu[s] \in MmuType(s) /\ Owes(s, mmu[s])
  BY PairsOf DEF StateOK
<1>3. Scope(d) \in SUBSET Host /\ {u} \in SUBSET Upstream(s)
  BY DEF Scope
<1>4. Acked(s, mmu[s], r)
  <2> DEFINE D == Scope(d)
             U == {u}
  <2>1. D \in SUBSET Host /\ U \in SUBSET Upstream(s) /\ r = Acknowledge(mmu[s], U, D)
    BY <1>3
  <2> HIDE DEF D, U, r
  <2> QED
    BY <1>2, <2>1, AcknowledgeIs
<1>7. Repays(s, mmu[s], r) /\ r.m.nxtAck = mmu[s].nxtAck
  <2> DEFINE m == mmu[s]
             U == {u}
  <2>1. U \in SUBSET Upstream(s) /\ r = Acknowledge(m, U, Scope(d)) /\ m \in MmuType(s) /\ Owes(s, m)
    BY <1>2
  <2> HIDE DEF m, U, r
  <2>2. Repays(s, m, r) /\ r.m.nxtAck = m.nxtAck
    BY <2>1, AcknowledgeRepays
  <2> QED
    BY <2>2 DEF m
<1> HIDE DEF r
<1>5. PortsFrom(s, r.m, oq, oq) /\ WiresFrom(s, r.m, wire, wire)
  BY Left
<1>6. SystemOK(mmu', oq', wire')
  BY <1>1, <1>4, <1>5, AckedStep, Zenon
<1> QED
  BY <1>1, <1>4, <1>6, <1>7, Zenon DEF CreditsSent

-----------------------------------------------------------------------------
(* From event to event: SYN *)

LEMMA SynsTimeOut ==
  ASSUME settings \in Configuration, SystemOK(mmu, oq, wire), NEW s, NEW n, <<s, n>> \in Wire, SynTimeout(s, n)
  PROVE  SystemOK(mmu', oq', wire') /\ SynSent(s, <<s, n>>)
<1> DEFINE l == <<s, n>>
           m == mmu[s]
           asked == {d \in Via(s, n) : m.fresh[d]}
           open == {d \in asked : Inflight(m, d) > 0}
           fresh == [d \in Host |-> m.fresh[d] /\ d \notin asked]
           k == [m EXCEPT !.fresh = fresh]
           data == [d \in open |-> m.nxtData[d]]
           ack == [d \in open |-> m.rcvAck[d]]
           x == [kind |-> "SYN", data |-> data, ack |-> ack]
<1>1. l \in Wire /\ l \in Link /\ s \in Switch /\ l[1] = s /\ l[2] = n
  BY Links
<1>2. m \in MmuType(s) /\ StateOK(s, m)
  BY <1>1, PairsOf
<1>3. SynTimer /\ oq' = oq /\ sent' = sent /\ rcvd' = rcvd /\ (wire' = wire \/ wire' = [wire EXCEPT ![l] = Append(wire[l], x)])
  BY DEF SynTimeout
<1>4. mmu' = [mmu EXCEPT ![s] = k]
  <2>1. mmu' = [mmu EXCEPT ![s].fresh = [d \in Host |-> @[d] /\ d \notin asked]]
    BY DEF SynTimeout
  <2> HIDE DEF asked
  <2> QED
    BY <2>1
<1>5. open \subseteq Host /\ \A d \in open : NextHop[s][d] = n
  BY DEF Via
<1>6. /\ fresh \in [Host -> BOOLEAN]
      /\ \A d \in Host : m.nxtData[d] \in Nat /\ m.rcvAck[d] \in Nat
  BY <1>2 DEF MmuType, Counters
<1> HIDE DEF m, open
<1>7. x \in Frame
  <2>1. data \in [open -> Nat] /\ ack \in [open -> Nat]
    BY <1>5, <1>6
  <2>2. data \in Partial(Host, Nat) /\ ack \in Partial(Host, Nat)
    BY <1>5, <2>1 DEF Partial
  <2> QED
    BY <2>2 DEF Frame
<1> HIDE DEF fresh
<1>8. /\ k \in MmuType(s) /\ k.groups = m.groups /\ k.nxtData = m.nxtData /\ k.buffering = m.buffering
      /\ k.rcvData = m.rcvData /\ k.nxtAck = m.nxtAck /\ k.lstAck = m.lstAck /\ k.rcvAck = m.rcvAck
  BY <1>2, <1>6 DEF MmuType
<1> HIDE DEF k
<1>9. StateOK(s, k)
  <2>1. /\ \A v : VoqAt(k, v) = VoqAt(m, v) /\ HeadOf(k, v) = HeadOf(m, v)
        /\ \A d : Bound(s, k, d) = Bound(s, m, d)
        /\ \A d : WaitingBytes(k, d, Node) = WaitingBytes(m, d, Node)
        /\ \A p : Here(s, k, p) <=> Here(s, m, p)
        /\ \A d, z : CheckDstWin(k, d, z) <=> CheckDstWin(m, d, z)
    BY <1>8 DEF VoqAt, Bound, HeadOf, WaitingBytes, Voqs, Voq, Here, CheckDstWin, Inflight
  <2>2. VoqsOK(s, k)
    BY <1>2, <1>8, <2>1 DEF StateOK, VoqsGood, VoqsOK, Placed, Counted, Needed
  <2>3. Waits(s, k)
    BY <1>2, <2>1 DEF StateOK, VoqsGood, Waits
  <2>4. Lacks(k)
    BY <1>2, <2>1 DEF StateOK, Lacks
  <2>5. Owes(s, k)
    BY <1>2, <1>8 DEF StateOK, Owes
  <2> QED
    BY <1>8, <2>2, <2>3, <2>4, <2>5 DEF StateOK, VoqsGood
<1>10. Grown(s, m, m) /\ Agreed(s, mmu, m)
  BY <1>1, Stays DEF m
<1>11. Grown(s, mmu[s], k) /\ Agreed(s, mmu, k)
  <2>1. Grown(s, m, k)
    BY <1>8, <1>10 DEF Grown, Noted
  <2>2. Agreed(s, mmu, k)
    BY <1>8, <1>10 DEF Agreed, Pair
  <2> QED
    BY <2>1, <2>2 DEF m
<1>12. PortsFrom(s, k, oq, oq) /\ WiresFrom(s, k, wire, wire)
  BY Left
<1>13. WiresFrom(s, k, wire, wire')
  <2>1. CASE wire' = wire
    BY <1>12, <2>1
  <2>2. CASE wire' = [wire EXCEPT ![l] = Append(wire[l], x)]
    <3>1. Carried(l, k, x)
      <4>1. DOMAIN data = open /\ \A d \in open : data[d] = m.nxtData[d]
        OBVIOUS
      <4>2. x.kind = "SYN" /\ x.data = data
        OBVIOUS
      <4> HIDE DEF x, data
      <4>3. \A d \in open : data[d] <= k.nxtData[d]
        BY <1>5, <1>6, <1>8, <4>1
      <4> QED
        BY <1>1, <1>3, <1>5, <4>1, <4>2, <4>3 DEF Carried
    <3>2. wire \in [Wire -> Seq(Frame)]
      BY DEF SystemOK
    <3> HIDE DEF x, l
    <3> QED
      BY <1>1, <1>7, <2>2, <3>1, <3>2, PutOn, Zenon
  <2> QED
    BY <1>3, <2>1, <2>2, Zenon
<1>14. SystemOK(mmu', oq', wire')
  BY <1>1, <1>3, <1>4, <1>9, <1>11, <1>12, <1>13, Steps, Zenon
<1>15. x.kind = "SYN"
  OBVIOUS
<1> HIDE DEF x, l
<1>16. SynSent(s, l)
  BY <1>1, <1>3, <1>4, <1>7, <1>8, <1>15, Zenon DEF SynSent, m
<1> QED
  BY <1>14, <1>16 DEF l

LEMMA CheckedIs ==
  ASSUME settings \in Configuration, Absolute, NEW s, NEW m \in MmuType(s), Owes(s, m), NEW u \in Upstream(s),
         NEW syn, syn.data \in Partial(Host, Nat), \A d \in DOMAIN syn.data : NextHop[u][d] = s,
         NEW k, k = CheckSYN(m, u, syn)
  PROVE  Checked(s, u, m, syn, k)
<1> DEFINE data == syn.data
           dropped == {d \in DOMAIN data : data[d] > m.rcvData[u][d]}
           Set(psn) == [d \in Host |-> IF d \in dropped THEN data[d] ELSE psn[d]]
           a == Set(m.rcvData[u])
           b == Set(m.nxtAck[u])
           R == [m.rcvData EXCEPT ![u] = a]
           A == [m.nxtAck EXCEPT ![u] = b]
<1>1. k = [[m EXCEPT !.rcvData = R] EXCEPT !.nxtAck = A]
  <2>1. k = [m EXCEPT !.rcvData[u] = a, !.nxtAck[u] = b]
    BY DEF CheckSYN
  <2> HIDE DEF a, b
  <2> QED
    BY <2>1, Zenon DEF R, A
<1>2. \A d \in dropped : d \in Host /\ data[d] \in Nat /\ data[d] > m.rcvData[u][d] /\ NextHop[u][d] = s
  BY PartialIs
<1>3. /\ m.rcvData \in [Upstream(s) -> Counters] /\ m.nxtAck \in [Upstream(s) -> Counters]
      /\ \A v \in Upstream(s), d \in Host :
           m.rcvData[v][d] \in Nat /\ m.nxtAck[v][d] \in Nat /\ m.lstAck[v][d] \in Nat
  BY CountersOf DEF MmuType
<1>4. \A d \in Host : a[d] = (IF d \in dropped THEN data[d] ELSE m.rcvData[u][d])
                      /\ b[d] = (IF d \in dropped THEN data[d] ELSE m.nxtAck[u][d])
  OBVIOUS
<1>5. dropped \subseteq DOMAIN data
  OBVIOUS
<1>6. a = [d \in Host |-> a[d]] /\ b = [d \in Host |-> b[d]]
  OBVIOUS
<1> HIDE DEF a, b, dropped, data
<1>7. a \in Counters /\ b \in Counters
  <2>1. \A d \in Host : a[d] \in Nat /\ b[d] \in Nat
    BY <1>2, <1>3, <1>4
  <2> QED
    BY <1>6, <2>1 DEF Counters
<1>8. /\ R \in [Upstream(s) -> Counters] /\ A \in [Upstream(s) -> Counters] /\ R[u] = a /\ A[u] = b
      /\ \A v \in Upstream(s) : v # u => R[v] = m.rcvData[v] /\ A[v] = m.nxtAck[v]
  BY <1>3, <1>7
<1> HIDE DEF R, A
<1>9. k \in MmuType(s) /\ Apart(m, k) /\ k.lstAck = m.lstAck /\ k.rcvData = R /\ k.nxtAck = A
  BY <1>1, <1>8, Zenon DEF MmuType, Apart
<1>10. ASSUME NEW v \in Upstream(s), NEW d \in Host
       PROVE  /\ m.rcvData[v][d] <= R[v][d] /\ m.lstAck[v][d] <= A[v][d]
              /\ NextHop[v][d] # s => A[v][d] = 0 /\ R[v][d] = 0
              /\ Absolute => A[v][d] <= R[v][d]
              /\ R[v][d] = m.rcvData[v][d] \/ (v = u /\ d \in DOMAIN data /\ R[v][d] = data[d])
  <2>1. /\ m.rcvData[v][d] \in Nat /\ m.nxtAck[v][d] \in Nat /\ m.lstAck[v][d] \in Nat
        /\ m.lstAck[v][d] <= m.nxtAck[v][d]
        /\ NextHop[v][d] # s => m.nxtAck[v][d] = 0 /\ m.rcvData[v][d] = 0
        /\ Absolute => m.nxtAck[v][d] <= m.rcvData[v][d]
    BY <1>3 DEF Owes
  <2>2. CASE ~ (v = u /\ d \in dropped)
    <3>1. R[v][d] = m.rcvData[v][d] /\ A[v][d] = m.nxtAck[v][d]
      BY <1>4, <1>8, <2>2
    <3> QED
      BY <2>1, <3>1
  <2>3. CASE v = u /\ d \in dropped
    <3>1. R[v][d] = data[d] /\ A[v][d] = data[d]
      BY <1>4, <1>8, <2>3
    <3>2. data[d] \in Nat /\ data[d] > m.rcvData[v][d] /\ NextHop[v][d] = s /\ d \in DOMAIN data
      BY <1>2, <1>5, <2>3
    <3>3. m.lstAck[v][d] <= data[d]
      BY <2>1, <3>2
    <3> QED
      BY <2>1, <2>3, <3>1, <3>2, <3>3
  <2> QED
    BY <2>2, <2>3
<1>11. Noted(s, m, k)
  BY <1>3, <1>9, <1>10 DEF Noted
<1>12. Owes(s, k)
  BY <1>9, <1>10 DEF Owes
<1> QED
  BY <1>9, <1>10, <1>11, <1>12 DEF Checked, data

LEMMA CleanIs ==
  ASSUME NEW s, NEW m \in MmuType(s), Owes(s, m), NEW u \in Upstream(s), NEW D \in SUBSET Host,
         NEW n, n = Clean(m, u, D)
  PROVE  CleanOK(s, u, m, D, n)
<1> DEFINE a == [d \in Host |-> IF d \in D THEN m.nxtAck[u][d] ELSE m.lstAck[u][d]]
           L == [m.lstAck EXCEPT ![u] = a]
<1>1. n = [m EXCEPT !.lstAck = L]
  <2>1. n = [m EXCEPT !.lstAck[u] = a]
    BY DEF Clean
  <2> HIDE DEF a
  <2> QED
    BY <2>1, Zenon DEF L
<1>2. /\ m.lstAck \in [Upstream(s) -> Counters]
      /\ \A v \in Upstream(s), d \in Host :
           m.rcvData[v][d] \in Nat /\ m.nxtAck[v][d] \in Nat /\ m.lstAck[v][d] \in Nat
  BY CountersOf DEF MmuType
<1>3. a \in Counters /\ \A d \in Host : a[d] = IF d \in D THEN m.nxtAck[u][d] ELSE m.lstAck[u][d]
  BY <1>2 DEF Counters
<1> HIDE DEF a
<1>4. /\ L \in [Upstream(s) -> Counters] /\ L[u] = a /\ \A v \in Upstream(s) : v # u => L[v] = m.lstAck[v]
  BY <1>2, <1>3
<1> HIDE DEF L
<1>5. n \in MmuType(s) /\ Apart(m, n) /\ n.rcvData = m.rcvData /\ n.nxtAck = m.nxtAck /\ n.lstAck = L
  BY <1>1, <1>4, WithLstAck
<1>6. ASSUME NEW v \in Upstream(s), NEW d \in Host
      PROVE  m.lstAck[v][d] <= L[v][d] /\ L[v][d] <= m.nxtAck[v][d]
  <2>1. /\ m.nxtAck[v][d] \in Nat /\ m.lstAck[v][d] \in Nat /\ m.lstAck[v][d] <= m.nxtAck[v][d]
    BY <1>2 DEF Owes
  <2>2. L[v][d] = m.lstAck[v][d] \/ L[v][d] = m.nxtAck[v][d]
    BY <1>3, <1>4
  <2> QED
    BY <2>1, <2>2
<1>7. Noted(s, m, n)
  BY <1>2, <1>5, <1>6 DEF Noted
<1>8. Owes(s, n)
  BY <1>5, <1>6 DEF Owes
<1>9. \A d \in D : n.lstAck[u][d] = m.nxtAck[u][d]
  BY <1>3, <1>4, <1>5
<1> QED
  BY <1>5, <1>7, <1>8, <1>9 DEF CleanOK

LEMMA SynReceived ==
  ASSUME settings \in Configuration, SystemOK(mmu, oq, wire), NEW s \in Switch, NEW u \in Upstream(s),
         NEW x, x = Head(wire[<<u, s>>]), wire[<<u, s>>] # << >>, x.kind = "SYN", ReceiveSYN(s, u, x)
  PROVE  SystemOK(mmu', oq', wire') /\ SynTaken(s, <<u, s>>)
<1> DEFINE l == <<u, s>>
           m == mmu[s]
           k == CheckSYN(m, u, x)
           missing == {d \in Host : k.nxtAck[u][d] > (IF d \in DOMAIN x.ack THEN x.ack[d] ELSE 0)}
           D == IF Mode = "dst" \/ AckTh = 0 THEN missing ELSE {d \in missing : k.buffering[d] <= AckTh}
           frames == AckFrames(k, u, D)
           acks == IF missing = {} THEN << >> ELSE [y \in {u} |-> frames]
           n == Clean(k, u, D)
           X == Handled(wire, l)
<1>1. wire' = Acking(s, X, acks) /\ mmu' = [mmu EXCEPT ![s] = n] /\ oq' = oq /\ sent' = sent /\ rcvd' = rcvd
  BY Zenon DEF ReceiveSYN, SendAcks, Acking, Handled
<1>2. u \in Switch /\ l \in Wire /\ l[1] = u /\ l[2] = s
  BY Links
<1>3. wire[l] # << >> /\ x = Head(wire[l])
  OBVIOUS
<1> HIDE DEF l
<1>4. x \in Frame /\ Carried(l, mmu[l[1]], x) /\ WiresFrom(s, n, wire, X)
  <2> HIDE DEF n
  <2> QED
    BY <1>2, <1>3, FrameHandled
<1> HIDE DEF X
<1>5. /\ x.data \in Partial(Host, Nat) /\ x.ack \in Partial(Host, Nat) /\ Absolute /\ SynTimer
      /\ \A d \in DOMAIN x.data : NextHop[u][d] = s /\ x.data[d] <= mmu[u].nxtData[d]
  <2>1. x.data \in Partial(Host, Nat) /\ x.ack \in Partial(Host, Nat)
    BY <1>4, DataFrame
  <2> QED
    BY <1>2, <1>4, <2>1, SettingTypes, Zenon DEF Carried
<1>6. m \in MmuType(s) /\ StateOK(s, m) /\ Owes(s, m) /\ Agreed(s, mmu, m) /\ \A t \in Switch : mmu[t] \in MmuType(t)
  BY PairsOf DEF StateOK
<1> HIDE DEF m
<1>7. Checked(s, u, m, x, k)
  BY <1>5, <1>6, CheckedIs
<1> HIDE DEF k
<1>8. k \in MmuType(s) /\ Owes(s, k) /\ \A d \in Host : k.nxtAck[u][d] \in Nat
  BY <1>7, CountersOf DEF Checked
<1>9. D \in SUBSET Host /\ \A d \in D : k.nxtAck[u][d] > 0
  <2>1. ASSUME NEW d \in Host, k.nxtAck[u][d] > (IF d \in DOMAIN x.ack THEN x.ack[d] ELSE 0)
        PROVE  k.nxtAck[u][d] > 0
    <3>1. d \in DOMAIN x.ack => x.ack[d] \in Nat
      BY <1>5, PartialIs
    <3> QED
      BY <1>8, <2>1, <3>1
  <2> QED
    BY <2>1
<1> HIDE DEF missing, D
<1>10. CleanOK(s, u, k, D, n)
  BY <1>8, <1>9, CleanIs
<1> HIDE DEF n
<1>11. n \in MmuType(s) /\ Apart(m, n) /\ Noted(s, m, n) /\ Owes(s, n)
  <2>1. n \in MmuType(s) /\ Owes(s, n) /\ Apart(m, n)
    BY <1>7, <1>10 DEF Checked, CleanOK, Apart
  <2>2. Noted(s, m, n)
    <3>1. \A v \in Upstream(s), d \in Host :
            /\ m.rcvData[v][d] \in Nat /\ k.rcvData[v][d] \in Nat /\ n.rcvData[v][d] \in Nat
            /\ m.lstAck[v][d] \in Nat /\ k.lstAck[v][d] \in Nat /\ n.lstAck[v][d] \in Nat
      BY <1>6, <1>8, <2>1, CountersOf
    <3>2. Noted(s, m, k) /\ Noted(s, k, n)
      BY <1>7, <1>10 DEF Checked, CleanOK
    <3> QED
      BY <3>1, <3>2 DEF Noted
  <2> QED
    BY <2>1, <2>2
<1>12. StateOK(s, n)
  BY <1>6, <1>11, ApartGood
<1>13. Grown(s, mmu[s], n)
  <2>1. \A d \in Host : m.nxtData[d] \in Nat
    BY <1>6 DEF MmuType, Counters
  <2> QED
    BY <1>11, <2>1 DEF Grown, Apart, m
<1>14. Agreed(s, mmu, n)
  <2>1. ASSUME NEW v \in Upstream(s), NEW d \in Host, NextHop[v][d] = s
        PROVE  n.rcvData[v][d] <= mmu[v].nxtData[d] /\ mmu[v].rcvAck[d] <= n.lstAck[v][d]
    <3>1. m.rcvData[v][d] <= mmu[v].nxtData[d] /\ mmu[v].rcvAck[d] <= m.lstAck[v][d]
      BY <1>5, <1>6, <2>1 DEF Agreed, Pair
    <3>2. n.rcvData[v][d] <= mmu[v].nxtData[d]
      <4>1. n.rcvData = k.rcvData
        BY <1>10 DEF CleanOK
      <4>2. \/ k.rcvData[v][d] = m.rcvData[v][d]
            \/ v = u /\ d \in DOMAIN x.data /\ k.rcvData[v][d] = x.data[d]
        BY <1>7 DEF Checked
      <4> QED
        BY <1>5, <3>1, <4>1, <4>2
    <3>3. mmu[v].rcvAck[d] <= n.lstAck[v][d]
      <4>1. v \in Switch /\ m.lstAck[v][d] <= n.lstAck[v][d]
        BY <1>11, Links, Zenon DEF Noted
      <4>2. mmu[v].rcvAck[d] \in Nat
        BY <1>6, <4>1 DEF MmuType, Counters
      <4>3. m.lstAck[v][d] \in Nat /\ n.lstAck[v][d] \in Nat
        BY <1>6, <1>11, CountersOf
      <4> QED
        BY <3>1, <4>1, <4>2, <4>3
    <3> QED
      BY <3>2, <3>3
  <2>2. ASSUME NEW t \in Switch, <<s, t>> \in Wire PROVE Pair(<<s, t>>, n, mmu[t])
    BY <1>6, <1>11, <2>2 DEF Agreed, Pair, Apart
  <2> QED
    BY <2>1, <2>2 DEF Agreed, Pair
<1>15. frames \in Seq(Frame) /\ \A i \in DOMAIN frames : frames[i].kind = "ACK" /\ Gives(s, u, n, frames[i].credit)
  <2>1. \A d \in D : n.lstAck[u][d] = k.nxtAck[u][d]
    BY <1>10 DEF CleanOK
  <2> DEFINE q == frames
  <2>2. q = AckFrames(k, u, D)
    OBVIOUS
  <2> HIDE DEF q
  <2>3. q \in Seq(Frame) /\ \A i \in DOMAIN q : q[i].kind = "ACK" /\ Gives(s, u, n, q[i].credit)
    BY <1>8, <1>9, <2>1, <2>2, AckFramesAre
  <2> QED
    BY <2>3 DEF q
<1> HIDE DEF frames
<1>16. \A y \in DOMAIN acks : /\ acks[y] \in Seq(Frame)
                              /\ \A i \in DOMAIN acks[y] : Carried(<<s, y>>, n, acks[y][i]) /\ acks[y][i].kind = "ACK"
  <2>1. \A i \in DOMAIN frames : Carried(<<s, u>>, n, frames[i]) /\ frames[i].kind = "ACK"
    BY <1>15 DEF Carried
  <2>2. \A y \in DOMAIN acks : y = u /\ acks[y] = frames
    OBVIOUS
  <2> HIDE DEF acks
  <2> QED
    BY <1>15, <2>1, <2>2
<1> HIDE DEF acks
<1>17. WiresFrom(s, n, wire, Acking(s, X, acks))
  <2>1. X \in [Wire -> Seq(Frame)]
    BY <1>4 DEF WiresFrom
  <2> DEFINE Y == Acking(s, X, acks)
  <2>2. WiresFrom(s, n, X, Y)
    BY <1>16, <2>1, AckingIs
  <2> HIDE DEF Y
  <2>3. WiresFrom(s, n, wire, Y)
    BY <1>4, <2>2, WiresOn
  <2> QED
    BY <2>3 DEF Y
<1>18. PortsFrom(s, n, oq, oq)
  BY Left
<1>19. SystemOK(mmu', oq', wire')
  BY <1>1, <1>12, <1>13, <1>14, <1>17, <1>18, Steps, Zenon
<1>20. SynTaken(s, l)
  <2>1. /\ Apart(mmu[s], n) /\ mmu' = [mmu EXCEPT ![s] = n] /\ wire' = Acking(s, Handled(wire, l), acks)
        /\ \A y \in DOMAIN acks : acks[y] \in Seq(Frame) /\ \A i \in DOMAIN acks[y] : acks[y][i].kind = "ACK"
    BY <1>1, <1>11, <1>16, Zenon DEF X, m
  <2> DEFINE a == acks
  <2>2. /\ Apart(mmu[s], n) /\ mmu' = [mmu EXCEPT ![s] = n] /\ wire' = Acking(s, Handled(wire, l), a)
        /\ \A y \in DOMAIN a : a[y] \in Seq(Frame) /\ \A i \in DOMAIN a[y] : a[y][i].kind = "ACK"
    BY <2>1
  <2> HIDE DEF a
  <2>3. SynTimer /\ oq' = oq /\ sent' = sent /\ rcvd' = rcvd
    BY <1>1, <1>5
  <2> QED
    BY <2>2, <2>3, Zenon DEF SynTaken
<1> QED
  BY <1>19, <1>20 DEF l

\* A frame is lost on its link.
LEMMA FrameLost ==
  ASSUME settings \in Configuration, SystemOK(mmu, oq, wire), NEW l \in Wire, wire[l] # << >>,
         mmu' = mmu, oq' = oq, wire' = Handled(wire, l)
  PROVE  SystemOK(mmu', oq', wire')
<1>1. Drained(wire, wire')
  BY FrameHandled
<1> QED
  BY <1>1 DEF SystemOK, Drained

-----------------------------------------------------------------------------
(* The packets of a flow *)

LEMMA SeqKeyOK ==
  ASSUME NEW f \in Flow
  PROVE  /\ KeyOK(SeqKey(f)) /\ KeyFor(SeqKey(f), FlowDst[f]) /\ FlowDst[f] \in Host
         /\ \A x \in Packet : /\ x \in SeqKey(f).mem <=> x.flow = f /\ x.dst = FlowDst[f]
                              /\ SeqKey(f).lo[x] = x.seq - 1 /\ SeqKey(f).hi[x] = x.seq
<1>1. FlowDst[f] \in Host
  BY FloodgateParameters
<1>2. KeyOK(SeqKey(f))
  BY DEF SeqKey, KeyOK, Packet
<1>3. KeyFor(SeqKey(f), FlowDst[f])
  BY <1>2 DEF SeqKey, KeyFor, Same
<1> QED
  BY <1>1, <1>2, <1>3 DEF SeqKey

\* The switches on a route, and the links between them.
LEMMA RouteIs ==
  ASSUME NEW f \in Flow, NEW n, NEW path, RouteOf(f, n, path)
  PROVE  /\ n \in Nat /\ 1 \in 1 .. n /\ path \in [1 .. n -> Switch]
         /\ \A i \in 1 .. n - 1 : /\ i \in 1 .. n /\ i + 1 \in 1 .. n /\ NextHop[path[i]][FlowDst[f]] = path[i + 1]
                                  /\ <<path[i], path[i + 1]>> \in Wire
         /\ NextHop[path[n]][FlowDst[f]] = FlowDst[f] /\ path[1] = ToROf(FlowSrc[f])
         /\ \A i, j \in 1 .. n : path[i] = path[j] => i = j
<1>1. n \in Nat /\ n \in 1 .. Cardinality(Switch) /\ path \in [1 .. n -> Switch] /\ IsInjective(path)
  BY FloodgateParameters, FS_CardinalityType DEF RouteOf
<1>2. \A i \in 1 .. n - 1 : i \in 1 .. n /\ i + 1 \in 1 .. n /\ NextHop[path[i]][FlowDst[f]] = path[i + 1]
  BY <1>1 DEF RouteOf, IsPath
<1>3. FlowDst[f] \in Host
  BY FloodgateParameters
<1>4. \A i \in 1 .. n - 1 : <<path[i], path[i + 1]>> \in Wire
  BY <1>1, <1>2, <1>3, Links
<1>5. NextHop[path[n]][FlowDst[f]] = FlowDst[f] /\ path[1] = ToROf(FlowSrc[f])
  BY DEF RouteOf, IsPath
<1>6. \A i, j \in 1 .. n : path[i] = path[j] => i = j
  BY <1>1 DEF IsInjective
<1> QED
  BY <1>1, <1>2, <1>4, <1>5, <1>6

LEMMA LinedElsewhere ==
  ASSUME NEW s, NEW M, NEW Q, NEW N, NEW P, Elsewhere(s, M, Q, N, P), NEW t \in Switch, t # s, NEW d \in Host,
         NEW k, NEW lo, NEW hi, LinedAt(t, d, k, At(M, Q, t), lo, hi)
  PROVE  LinedAt(t, d, k, At(N, P, t), lo, hi)
<1>1. PortTo(t, d) \in Link /\ PortTo(t, d)[1] = t
  BY PortIn DEF PortTo
<1>2. N[t] = M[t] /\ P[PortTo(t, d)] = Q[PortTo(t, d)]
  BY <1>1 DEF Elsewhere
<1> QED
  BY <1>2 DEF LinedAt, At

\* No packet of the flow goes on.
LEMMA FlowKept ==
  ASSUME NEW f \in Flow, NEW n, NEW path, RouteOf(f, n, path), NEW A, NEW B, NEW M, NEW Q, NEW W, NEW S \in Int, NEW R,
         FlowLines(f, n, path, A, B, M, Q, W, S, R), NEW s, NEW N, NEW P, NEW X, NEW T \in Int, S <= T,
         Elsewhere(s, M, Q, N, P), KeptAt(s, FlowDst[f], SeqKey(f), M, Q, N, P), KeptOn(SeqKey(f), W, X)
  PROVE  FlowLines(f, n, path, A, B, N, P, X, T, R)
<1> DEFINE d == FlowDst[f]
           k == SeqKey(f)
<1>1. /\ path \in [1 .. n -> Switch] /\ d \in Host
      /\ \A i \in 1 .. n - 1 : i \in 1 .. n /\ i + 1 \in 1 .. n /\ <<path[i], path[i + 1]>> \in Wire
  BY RouteIs, SeqKeyOK
<1>2. /\ A \in [1 .. n -> Int] /\ B \in [1 .. n -> Int] /\ Arriving(R, B[n])
      /\ \A i \in 1 .. n : A[i] <= S /\ LinedAt(path[i], d, k, At(M, Q, path[i]), B[i], A[i])
      /\ \A i \in 1 .. n - 1 : A[i + 1] <= B[i] /\ Numbered(W[<<path[i], path[i + 1]>>], k, A[i + 1], B[i])
  BY DEF FlowLines
<1>3. KeptAt(s, d, k, M, Q, N, P) /\ KeptOn(k, W, X)
  OBVIOUS
<1> HIDE DEF d, k
<1>4. ASSUME NEW i \in 1 .. n PROVE A[i] <= T /\ LinedAt(path[i], d, k, At(N, P, path[i]), B[i], A[i])
  <2>1. A[i] \in Int /\ B[i] \in Int /\ path[i] \in Switch
    BY <1>1, <1>2
  <2>2. A[i] <= T
    BY <1>2, <2>1
  <2>3. CASE path[i] = s
    BY <1>2, <1>3, <2>1, <2>2, <2>3 DEF KeptAt
  <2>4. CASE path[i] # s
    BY <1>1, <1>2, <2>1, <2>2, <2>4, LinedElsewhere
  <2> QED
    BY <2>3, <2>4
<1>5. ASSUME NEW i \in 1 .. n - 1 PROVE Numbered(X[<<path[i], path[i + 1]>>], k, A[i + 1], B[i])
  <2>1. A[i + 1] \in Int /\ B[i] \in Int
    BY <1>1, <1>2, Zenon
  <2> QED
    BY <1>1, <1>2, <1>3, <2>1 DEF KeptOn
<1> QED
  BY <1>2, <1>4, <1>5 DEF FlowLines, d, k

LEMMA HandledKept ==
  ASSUME NEW k, KeyOK(k), NEW W \in [Wire -> Seq(Frame)], NEW l \in Wire, W[l] # << >>
  PROVE  KeptOn(k, W, Handled(W, l))
<1> SUFFICES ASSUME NEW j \in Wire, NEW lo \in Int, NEW hi \in Int, lo <= hi, Numbered(W[j], k, lo, hi)
             PROVE  Numbered(Handled(W, l)[j], k, lo, hi)
  BY Zenon DEF KeptOn
<1> DEFINE q == W[l]
<1>1. q \in Seq(Frame) /\ q # << >>
  OBVIOUS
<1>2. Handled(W, l)[j] = IF j = l THEN Tail(q) ELSE W[j]
  BY DEF Handled
<1>3. j = l => Numbered(q, k, lo, hi)
  OBVIOUS
<1> HIDE DEF q
<1>4. j = l => Numbered(Tail(q), k, lo, hi)
  BY <1>1, <1>3, NumberedTail
<1> QED
  BY <1>2, <1>4

LEMMA AckingKept ==
  ASSUME NEW k, KeyOK(k), NEW s, NEW w \in [Wire -> Seq(Frame)], NEW acks,
         \A u \in DOMAIN acks : acks[u] \in Seq(Frame) /\ \A i \in DOMAIN acks[u] : acks[u][i].kind = "ACK"
  PROVE  KeptOn(k, w, Acking(s, w, acks))
<1> SUFFICES ASSUME NEW l \in Wire, NEW lo \in Int, NEW hi \in Int, Numbered(w[l], k, lo, hi)
             PROVE  Numbered(Acking(s, w, acks)[l], k, lo, hi)
  BY Zenon DEF KeptOn
<1>1. CASE l[1] = s /\ l[2] \in DOMAIN acks
  <2> DEFINE q == w[l]
             r == acks[l[2]]
  <2>1. q \in Seq(Frame) /\ r \in Seq(Frame) /\ Numbered(q, k, lo, hi)
    BY <1>1
  <2>2. \A i \in DOMAIN r : r[i] \notin k.mem
    BY <1>1 DEF KeyOK, Packet
  <2>3. Acking(s, w, acks)[l] = q \o r
    BY <1>1 DEF Acking
  <2> HIDE DEF q, r
  <2>4. Numbered(q \o r, k, lo, hi)
    BY <2>1, <2>2, NumberedBefore, Zenon
  <2> QED
    BY <2>3, <2>4
<1>2. CASE ~ (l[1] = s /\ l[2] \in DOMAIN acks)
  BY <1>2 DEF Acking
<1> QED
  BY <1>1, <1>2

\* A frame put on a link, which is not for k.
LEMMA PutKept ==
  ASSUME NEW k, KeyOK(k), NEW W \in [Wire -> Seq(Frame)], NEW l \in Wire, NEW x \in Frame, x \notin k.mem
  PROVE  KeptOn(k, W, [W EXCEPT ![l] = Append(W[l], x)])
<1> SUFFICES ASSUME NEW j \in Wire, NEW lo \in Int, NEW hi \in Int, lo <= hi, Numbered(W[j], k, lo, hi)
             PROVE  Numbered([W EXCEPT ![l] = Append(W[l], x)][j], k, lo, hi)
  BY Zenon DEF KeptOn
<1> DEFINE q == W[l]
<1>1. q \in Seq(Frame) /\ [W EXCEPT ![l] = Append(q, x)][j] = IF j = l THEN Append(q, x) ELSE W[j]
  OBVIOUS
<1>2. j = l => Numbered(q, k, lo, hi)
  OBVIOUS
<1>3. j = l => Numbered(Append(q, x), k, lo, hi)
  <2> HIDE DEF q
  <2> QED
    BY <1>1, <1>2, NumberedAppend
<1> QED
  BY <1>1, <1>3

LEMMA KeptOnBoth ==
  ASSUME NEW k, NEW W, NEW Y, NEW X, KeptOn(k, W, Y), KeptOn(k, Y, X)
  PROVE  KeptOn(k, W, X)
  BY DEF KeptOn

LEMMA KeptAtSame ==
  ASSUME NEW s, NEW M, NEW Q, NEW N, NEW P, N[s].groups = M[s].groups, P = Q, NEW d, NEW k
  PROVE  KeptAt(s, d, k, M, Q, N, P)
  BY DEF KeptAt, LinedAt, At, VoqAt

LEMMA JoinLines ==
  ASSUME NEW M, NEW Q, DOMAIN M = Switch, NEW s \in Switch, NEW p \in Packet,
         NEW st, st.m.groups = M[s].groups, st.q = Q, NEW r, Joined(s, st, p, r),
         NEW N, N = [M EXCEPT ![s] = r.m], NEW P, P = r.q, NEW f \in Flow
  PROVE  Comes(s, p, f, M, Q, N, P)
<1> DEFINE d == FlowDst[f]
           y == SeqKey(f)
<1>1. KeyFor(y, d) /\ d \in Host /\ y.lo[p] = p.seq - 1 /\ y.hi[p] = p.seq /\ p.seq \in Int
  BY SeqKeyOK DEF Packet
<1> HIDE DEF d, y
<1>2. N[s] = r.m /\ \A t \in Switch : t # s => N[t] = M[t]
  OBVIOUS
<1>3. Elsewhere(s, M, Q, N, P)
  BY <1>2 DEF Elsewhere, Joined
<1>4. \A lo, c : LinedAt(s, d, y, At(M, Q, s), lo, c) => LinedAt(s, d, y, st, lo, c)
  BY <1>2 DEF LinedAt, At, VoqAt
<1>5. \A lo, c : LinedAt(s, d, y, r, lo, c) => LinedAt(s, d, y, At(N, P, s), lo, c)
  BY <1>2 DEF LinedAt, At
<1>6. \A lo, c, hi \in Int : /\ LinedAt(s, d, y, st, lo, c) /\ c <= hi /\ (p \in y.mem => c <= y.lo[p] /\ y.hi[p] <= hi)
                               => LinedAt(s, d, y, r, lo, hi)
  BY <1>1 DEF Joined
<1>7. ASSUME p \notin y.mem PROVE KeptAt(s, d, y, M, Q, N, P)
  <2>1. \A lo, hi \in Int : LinedAt(s, d, y, st, lo, hi) => LinedAt(s, d, y, r, lo, hi)
    BY <1>6, <1>7
  <2> QED
    BY <1>4, <1>5, <2>1, Zenon DEF KeptAt
<1>8. ASSUME NEW lo \in Int, NEW c \in Int, c < p.seq, LinedAt(s, d, y, At(M, Q, s), lo, c)
      PROVE  LinedAt(s, d, y, At(N, P, s), lo, p.seq)
  <2>1. c <= p.seq /\ c <= y.lo[p] /\ y.hi[p] <= p.seq
    BY <1>1, <1>8
  <2> QED
    BY <1>1, <1>4, <1>5, <1>6, <1>8, <2>1, Zenon
<1> QED
  BY <1>3, <1>7, <1>8, Zenon DEF Comes, d, y

\* A packet of the flow enters the i-th switch of its route.
LEMMA FlowEnters ==
  ASSUME NEW f \in Flow, NEW n, NEW path, RouteOf(f, n, path), NEW A, NEW B, NEW M, NEW Q, NEW W, NEW S \in Int, NEW R,
         FlowLines(f, n, path, A, B, M, Q, W, S, R), NEW N, NEW P, NEW X, NEW T \in Int, S <= T,
         NEW i \in 1 .. n, Elsewhere(path[i], M, Q, N, P), NEW x \in Int, x <= T,
         LinedAt(path[i], FlowDst[f], SeqKey(f), At(N, P, path[i]), B[i], x),
         i # 1 => x <= B[i - 1] /\ Numbered(X[<<path[i - 1], path[i]>>], SeqKey(f), x, B[i - 1]),
         \A j \in 1 .. n - 1 : j + 1 # i => X[<<path[j], path[j + 1]>>] = W[<<path[j], path[j + 1]>>]
  PROVE  FlowOn(f, n, path, N, P, X, T, R)
<1> DEFINE d == FlowDst[f]
           k == SeqKey(f)
           C == [A EXCEPT ![i] = x]
<1>1. /\ n \in Nat /\ path \in [1 .. n -> Switch] /\ d \in Host
      /\ \A j \in 1 .. n - 1 : j \in 1 .. n /\ j + 1 \in 1 .. n
      /\ \A j \in 1 .. n : path[j] = path[i] => j = i
  BY RouteIs, SeqKeyOK
<1>2. /\ A \in [1 .. n -> Int] /\ B \in [1 .. n -> Int] /\ Arriving(R, B[n])
      /\ \A j \in 1 .. n : A[j] <= S /\ LinedAt(path[j], d, k, At(M, Q, path[j]), B[j], A[j])
      /\ \A j \in 1 .. n - 1 : A[j + 1] <= B[j] /\ Numbered(W[<<path[j], path[j + 1]>>], k, A[j + 1], B[j])
  BY Zenon DEF FlowLines
<1>3. /\ LinedAt(path[i], d, k, At(N, P, path[i]), B[i], x)
      /\ i # 1 => x <= B[i - 1] /\ Numbered(X[<<path[i - 1], path[i]>>], k, x, B[i - 1])
  OBVIOUS
<1> HIDE DEF d, k
<1>4. C \in [1 .. n -> Int] /\ C[i] = x /\ \A j \in 1 .. n : j # i => C[j] = A[j]
  BY <1>2
<1> HIDE DEF C
<1>5. ASSUME NEW j \in 1 .. n PROVE C[j] <= T /\ LinedAt(path[j], d, k, At(N, P, path[j]), B[j], C[j])
  <2>1. CASE j = i
    BY <1>3, <1>4, <2>1
  <2>2. CASE j # i
    <3>1. A[j] \in Int /\ A[j] <= S /\ path[j] \in Switch /\ path[j] # path[i]
      BY <1>1, <1>2, <2>2, Zenon
    <3>2. LinedAt(path[j], d, k, At(N, P, path[j]), B[j], A[j])
      BY <1>1, <1>2, <3>1, LinedElsewhere, Zenon
    <3>3. C[j] = A[j] /\ A[j] <= T
      BY <1>4, <2>2, <3>1
    <3> QED
      BY <3>2, <3>3
  <2> QED
    BY <2>1, <2>2
<1>6. ASSUME NEW j \in 1 .. n - 1 PROVE C[j + 1] <= B[j] /\ Numbered(X[<<path[j], path[j + 1]>>], k, C[j + 1], B[j])
  <2>1. j + 1 \in 1 .. n /\ j \in Int
    BY <1>1
  <2>2. CASE j + 1 = i
    <3>1. i # 1 /\ i - 1 = j /\ C[j + 1] = x
      BY <1>4, <2>1, <2>2
    <3> QED
      BY <1>3, <2>2, <3>1
  <2>3. CASE j + 1 # i
    <3>1. C[j + 1] = A[j + 1]
      BY <1>4, <2>1, <2>3
    <3> QED
      BY <1>2, <2>3, <3>1
  <2> QED
    BY <2>2, <2>3
<1>7. FlowLines(f, n, path, C, B, N, P, X, T, R)
  BY <1>2, <1>4, <1>5, <1>6 DEF FlowLines, d, k
<1> QED
  BY <1>7 DEF FlowOn

\* A packet of the flow leaves the i-th switch of its route.
LEMMA FlowLeaves ==
  ASSUME NEW f \in Flow, NEW n, NEW path, RouteOf(f, n, path), NEW A, NEW B, NEW M, NEW Q, NEW W, NEW S, NEW R,
         FlowLines(f, n, path, A, B, M, Q, W, S, R), NEW N, NEW P, NEW X, NEW T,
         NEW i \in 1 .. n, Elsewhere(path[i], M, Q, N, P), NEW x \in Int,
         LinedAt(path[i], FlowDst[f], SeqKey(f), At(N, P, path[i]), x, A[i]),
         i # n => A[i + 1] <= x /\ Numbered(X[<<path[i], path[i + 1]>>], SeqKey(f), A[i + 1], x),
         KeptBeside(i, n, path, SeqKey(f), W, X),
         Arriving(T, IF i = n THEN x ELSE B[n])
  PROVE  FlowOn(f, n, path, N, P, X, S, T)
<1> DEFINE d == FlowDst[f]
           k == SeqKey(f)
           C == [B EXCEPT ![i] = x]
<1>1. /\ n \in Nat /\ n \in 1 .. n /\ path \in [1 .. n -> Switch] /\ d \in Host
      /\ \A j \in 1 .. n - 1 : j \in 1 .. n /\ j + 1 \in 1 .. n
      /\ \A j \in 1 .. n : path[j] = path[i] => j = i
  <2>1. n \in Nat /\ 1 \in 1 .. n
    BY RouteIs
  <2>2. n \in 1 .. n
    BY <2>1
  <2> QED
    BY <2>2, RouteIs, SeqKeyOK
<1>2. /\ A \in [1 .. n -> Int] /\ B \in [1 .. n -> Int]
      /\ \A j \in 1 .. n : A[j] <= S /\ LinedAt(path[j], d, k, At(M, Q, path[j]), B[j], A[j])
      /\ \A j \in 1 .. n - 1 : A[j + 1] <= B[j] /\ Numbered(W[<<path[j], path[j + 1]>>], k, A[j + 1], B[j])
  BY DEF FlowLines
<1>3. /\ LinedAt(path[i], d, k, At(N, P, path[i]), x, A[i])
      /\ i # n => A[i + 1] <= x /\ Numbered(X[<<path[i], path[i + 1]>>], k, A[i + 1], x)
      /\ \A j \in 1 .. n - 1, lo, hi \in Int :
           /\ j # i /\ lo <= hi /\ Numbered(W[<<path[j], path[j + 1]>>], k, lo, hi)
             => Numbered(X[<<path[j], path[j + 1]>>], k, lo, hi)
  BY DEF KeptBeside
<1> HIDE DEF d, k
<1>4. C \in [1 .. n -> Int] /\ C[i] = x /\ \A j \in 1 .. n : j # i => C[j] = B[j]
  BY <1>2
<1> HIDE DEF C
<1>5. ASSUME NEW j \in 1 .. n PROVE LinedAt(path[j], d, k, At(N, P, path[j]), C[j], A[j])
  <2>1. CASE j = i
    BY <1>3, <1>4, <2>1
  <2>2. CASE j # i
    <3>1. path[j] \in Switch /\ path[j] # path[i]
      BY <1>1, <2>2
    <3>2. LinedAt(path[j], d, k, At(N, P, path[j]), B[j], A[j])
      BY <1>1, <1>2, <3>1, LinedElsewhere
    <3> QED
      BY <1>4, <2>2, <3>2
  <2> QED
    BY <2>1, <2>2
<1>6. ASSUME NEW j \in 1 .. n - 1 PROVE A[j + 1] <= C[j] /\ Numbered(X[<<path[j], path[j + 1]>>], k, A[j + 1], C[j])
  <2>1. j \in 1 .. n /\ j + 1 \in 1 .. n
    BY <1>1
  <2>2. CASE j = i
    <3>1. i # n
      BY <1>1, <2>2
    <3> QED
      BY <1>3, <1>4, <2>2, <3>1
  <2>3. CASE j # i
    <3>1. C[j] = B[j] /\ A[j + 1] \in Int /\ B[j] \in Int
      BY <1>2, <1>4, <2>1, <2>3, Zenon
    <3> QED
      BY <1>2, <1>3, <2>3, <3>1
  <2> QED
    BY <2>2, <2>3
<1>7. Arriving(T, C[n])
  BY <1>1, <1>4
<1>8. FlowLines(f, n, path, A, C, N, P, X, S, T)
  BY <1>2, <1>4, <1>5, <1>6, <1>7, Zenon DEF FlowLines, d, k
<1> QED
  BY <1>8 DEF FlowOn

\* No packet goes on.
LEMMA FlowsKept ==
  ASSUME NEW M, NEW Q, NEW W, NEW S \in [Flow -> Nat], NEW R, FlowsOK(M, Q, W, S, R), NEW s, NEW N, NEW P, NEW X,
         Elsewhere(s, M, Q, N, P),
         \A f \in Flow : KeptAt(s, FlowDst[f], SeqKey(f), M, Q, N, P) /\ KeptOn(SeqKey(f), W, X)
  PROVE  FlowsOK(N, P, X, S, R)
<1> SUFFICES ASSUME NEW f \in Flow, NEW n, NEW path, RouteOf(f, n, path)
             PROVE  FlowOn(f, n, path, N, P, X, S[f], R[f])
  BY DEF FlowsOK
<1>1. PICK A, B : FlowLines(f, n, path, A, B, M, Q, W, S[f], R[f])
  BY DEF FlowsOK, FlowOn
<1> DEFINE t == S[f]
           r == R[f]
<1>2. t \in Int /\ t <= t /\ FlowLines(f, n, path, A, B, M, Q, W, t, r)
  BY <1>1
<1> HIDE DEF t, r
<1>3. FlowLines(f, n, path, A, B, N, P, X, t, r)
  BY <1>2, FlowKept
<1> QED
  BY <1>3 DEF FlowOn, t, r

LEMMA HostPacketIs ==
  ASSUME settings \in Configuration, sent \in [Flow -> Nat], NEW f \in Flow, sent[f] < Len(Sizes[f])
  PROVE  HostPacket(f) \in Packet
<1>1. FlowSrc[f] \in Host /\ FlowDst[f] \in Host /\ sent[f] \in Nat
  BY FloodgateParameters
<1>2. Sizes[f][sent[f] + 1] \in Positive
  <2>1. Sizes[f] \in Seq(Positive)
    BY SettingTypes
  <2> QED
    BY <1>1, <2>1
<1> QED
  BY <1>1, <1>2 DEF HostPacket, Packet, Node

LEMMA HostJoins ==
  ASSUME settings \in Configuration, SystemOK(mmu, oq, wire), sent \in [Flow -> Nat],
         NEW f \in Flow, HostSend(f), NEW s, s = ToROf(FlowSrc[f]), NEW st, st = [m |-> mmu[s], q |-> oq]
  PROVE  /\ s \in Switch /\ HostPacket(f) \in Packet
         /\ sent' = [sent EXCEPT ![f] = @ + 1] /\ wire' = wire /\ rcvd' = rcvd /\ losses' = losses
         /\ \E r : mmu' = [mmu EXCEPT ![s] = r.m] /\ oq' = r.q /\ Joined(s, st, HostPacket(f), r)
<1> DEFINE r == CheckVOQWin(s, st, HostPacket(f))
<1>1. /\ sent[f] < Len(Sizes[f]) /\ mmu' = [mmu EXCEPT ![s] = r.m] /\ oq' = r.q /\ wire' = wire
      /\ sent' = [sent EXCEPT ![f] = @ + 1] /\ rcvd' = rcvd /\ losses' = losses
  BY DEF HostSend, HostPacket
<1>2. s \in Switch /\ HostPacket(f) \in Packet
  BY <1>1, SourceToR, HostPacketIs
<1>3. st \in AtWork(s) /\ VoqsGood(s, st.m)
  <2>1. mmu[s] \in MmuType(s) /\ StateOK(s, mmu[s])
    BY <1>2, PairsOf
  <2> QED
    BY <2>1 DEF AtWork, SystemOK, StateOK
<1> HIDE DEF r
<1>4. Joined(s, st, HostPacket(f), r)
  BY <1>2, <1>3, WinJoins DEF r
<1> QED
  BY <1>1, <1>2, <1>4, Zenon

LEMMA HostFlows ==
  ASSUME settings \in Configuration, SystemOK(mmu, oq, wire), sent \in [Flow -> Nat], FlowsOK(mmu, oq, wire, sent, rcvd),
         NEW g \in Flow, HostSend(g)
  PROVE  FlowsOK(mmu', oq', wire', sent', rcvd')
<1> DEFINE s == ToROf(FlowSrc[g])
           p == HostPacket(g)
           st == [m |-> mmu[s], q |-> oq]
<1>1. /\ s \in Switch /\ p \in Packet
      /\ sent' = [sent EXCEPT ![g] = @ + 1] /\ wire' = wire /\ rcvd' = rcvd
      /\ \E r : mmu' = [mmu EXCEPT ![s] = r.m] /\ oq' = r.q /\ Joined(s, st, p, r)
  BY HostJoins
<1>2. PICK r : mmu' = [mmu EXCEPT ![s] = r.m] /\ oq' = r.q /\ Joined(s, st, p, r)
  BY <1>1, Zenon
<1>3. p.flow = g /\ p.seq = sent[g] + 1 /\ p.dst = FlowDst[g]
  BY DEF HostPacket
<1>4. DOMAIN mmu = Switch /\ mmu[s].groups = mmu[s].groups
  BY DEF SystemOK
<1>5. s = ToROf(FlowSrc[g])
  OBVIOUS
<1> DEFINE k == mmu[s]
<1>6. st = [m |-> k, q |-> oq] /\ k.groups = mmu[s].groups
  OBVIOUS
<1> HIDE DEF s, p, st, k
<1> SUFFICES ASSUME NEW f \in Flow, NEW n, NEW path, RouteOf(f, n, path)
             PROVE  FlowOn(f, n, path, mmu', oq', wire', sent'[f], rcvd'[f])
  BY DEF FlowsOK
<1> DEFINE S == sent[f]
           T == sent'[f]
           R == rcvd[f]
<1>7. PICK A, B : FlowLines(f, n, path, A, B, mmu, oq, wire, S, R)
  BY DEF FlowsOK, FlowOn
<1>8. S \in Int /\ T \in Int /\ S <= T /\ (f = g => T = p.seq /\ p.seq = S + 1) /\ rcvd'[f] = R
  BY <1>1, <1>3
<1> HIDE DEF S, T, R
<1>9. Comes(s, p, f, mmu, oq, mmu', oq')
  <2>1. mmu' = [mmu EXCEPT ![s] = r.m] /\ oq' = r.q /\ Joined(s, st, p, r) /\ s \in Switch /\ p \in Packet
    BY <1>1, <1>2, Zenon
  <2>2. DOMAIN mmu = Switch /\ st.m.groups = mmu[s].groups /\ st.q = oq
    BY <1>4, <1>6
  <2> QED
    BY <2>1, <2>2, JoinLines, Zenon
<1>10. CASE f = g
  <2>1. p \in SeqKey(f).mem
    BY <1>1, <1>3, <1>10, SeqKeyOK
  <2>2. /\ 1 \in 1 .. n /\ path[1] = s /\ n \in Nat
    BY <1>5, <1>10, RouteIs
  <2>3. /\ A[1] \in Int /\ B[1] \in Int /\ A[1] <= S
        /\ LinedAt(s, FlowDst[f], SeqKey(f), At(mmu, oq, s), B[1], A[1])
    BY <1>7, <2>2 DEF FlowLines
  <2>4. LinedAt(s, FlowDst[f], SeqKey(f), At(mmu', oq', s), B[1], T)
    <3>1. A[1] < p.seq /\ p.seq = T
      BY <1>8, <1>10, <2>3
    <3> QED
      BY <1>9, <2>1, <2>3, <3>1 DEF Comes
  <2>5. \A j \in 1 .. n - 1 : wire'[<<path[j], path[j + 1]>>] = wire[<<path[j], path[j + 1]>>]
    BY <1>1
  <2>6. FlowOn(f, n, path, mmu', oq', wire', T, R)
    <3> DEFINE i == 1
    <3>1. /\ i \in 1 .. n /\ Elsewhere(path[i], mmu, oq, mmu', oq') /\ T <= T
          /\ LinedAt(path[i], FlowDst[f], SeqKey(f), At(mmu', oq', path[i]), B[i], T)
      BY <1>8, <1>9, <2>2, <2>4 DEF Comes
    <3>2. /\ i # 1 => T <= B[i - 1] /\ Numbered(wire'[<<path[i - 1], path[i]>>], SeqKey(f), T, B[i - 1])
          /\ \A j \in 1 .. n - 1 : j + 1 # i => wire'[<<path[j], path[j + 1]>>] = wire[<<path[j], path[j + 1]>>]
      BY <2>5
    <3> HIDE DEF i
    <3> QED
      BY <1>7, <1>8, <3>1, <3>2, FlowEnters
  <2> QED
    BY <1>8, <2>6 DEF T
<1>11. CASE f # g
  <2>1. p \notin SeqKey(f).mem
    BY <1>1, <1>3, <1>11, SeqKeyOK
  <2>2. KeptOn(SeqKey(f), wire, wire')
    BY <1>1 DEF KeptOn
  <2>3. FlowLines(f, n, path, A, B, mmu', oq', wire', T, R)
    <3>1. Elsewhere(s, mmu, oq, mmu', oq') /\ KeptAt(s, FlowDst[f], SeqKey(f), mmu, oq, mmu', oq')
      BY <1>9, <2>1 DEF Comes
    <3> QED
      BY <1>7, <1>8, <2>2, <3>1, FlowKept
  <2> QED
    BY <1>8, <2>3 DEF FlowOn, T
<1> QED
  BY <1>10, <1>11

LEMMA Arrives ==
  ASSUME settings \in Configuration, SystemOK(mmu, oq, wire), NEW s \in Switch, NEW u \in Upstream(s),
         NEW p, p = Head(wire[<<u, s>>]), wire[<<u, s>>] # << >>, p.kind = "DATA", ReceiveData(s, u, p)
  PROVE  Arrived(s, u, p)
<1> DEFINE l == <<u, s>>
           q == [p EXCEPT !.in = u, !.psn = 0, !.ipsn = p.psn]
           m == mmu[s]
           k == Noting(m, u, p.dst, p.psn)
           st == [m |-> k, q |-> oq]
           r == CheckVOQWin(s, st, q)
<1>1. /\ wire' = Handled(wire, l) /\ sent' = sent /\ rcvd' = rcvd
      /\ \/ mmu' = [mmu EXCEPT ![s] = r.m] /\ oq' = r.q
         \/ mmu' = [mmu EXCEPT ![s] = k] /\ oq' = oq /\ losses' = losses + 1
  BY Zenon DEF ReceiveData, Noting, Handled
<1>2. u \in Switch /\ l \in Wire /\ l[1] = u /\ l[2] = s
  BY Links
<1>3. wire[l] # << >> /\ p = Head(wire[l])
  OBVIOUS
<1> HIDE DEF l
<1>4. p \in Frame /\ Carried(l, mmu[l[1]], p)
  BY <1>2, <1>3, FrameHandled
<1>5. p \in Packet
  BY <1>4, DataFrame
<1>6. OnRoute(u, p) /\ NextHop[u][p.dst] = s /\ p.dst \in Host /\ p.psn \in Nat
  BY <1>2, <1>4, <1>5 DEF Carried, Out, Packet
<1>7. RcvNoted(s, m, u, p.dst, p.psn, k)
  <2> DEFINE d == p.dst
             x == p.psn
             n == m
  <2>1. d \in Host /\ x \in Nat /\ NextHop[u][d] = s /\ k = Noting(n, u, d, x)
    BY <1>6
  <2>2. n \in MmuType(s) /\ Owes(s, n)
    BY PairsOf DEF StateOK
  <2> HIDE DEF d, x, k, n
  <2>3. RcvNoted(s, n, u, d, x, k)
    BY <2>1, <2>2, NotingIs
  <2> QED
    BY <2>3 DEF d, x, n
<1>8. /\ q \in Packet /\ q.flow = p.flow /\ q.dst = p.dst /\ q.seq = p.seq
      /\ q.in = u /\ q.size = p.size /\ q.ipsn = p.psn
  BY <1>2, <1>5, <1>6, Zenon DEF Packet, Node
<1> HIDE DEF k, q
<1>9. Joined(s, st, q, r)
  <2>1. k \in MmuType(s) /\ StateOK(s, k)
    <3>1. StateOK(s, mmu[s])
      BY DEF SystemOK
    <3> QED
      BY <1>7, <3>1, ApartGood DEF RcvNoted
  <2>2. st \in AtWork(s) /\ VoqsGood(s, st.m)
    BY <2>1 DEF AtWork, SystemOK, StateOK
  <2> HIDE DEF st
  <2> QED
    BY <1>8, <2>2, WinJoins
<1> HIDE DEF r
<1>10. RcvNoted(s, mmu[s], u, p.dst, p.psn, k) /\ Joined(s, [m |-> k, q |-> oq], q, r)
  BY <1>7, <1>9
<1> HIDE DEF st, m
<1> QED
  BY <1>1, <1>2, <1>3, <1>5, <1>6, <1>8, <1>10 DEF Arrived, l

\* What a switch holds of a flow leaves it after what left it before, and
\* entered it before.
LEMMA LineBounds ==
  ASSUME NEW s, NEW d, NEW k, NEW st, NEW lo \in Int, NEW hi \in Int, LinedAt(s, d, k, st, lo, hi)
  PROVE  lo <= hi
  BY DEF LinedAt

LEMMA DataFlows ==
  ASSUME settings \in Configuration, SystemOK(mmu, oq, wire), sent \in [Flow -> Nat], FlowsOK(mmu, oq, wire, sent, rcvd),
         NEW s \in Switch, NEW u, NEW p, Arrived(s, u, p)
  PROVE  FlowsOK(mmu', oq', wire', sent', rcvd')
<1> DEFINE l == <<u, s>>
<1>1. /\ p \in Packet /\ u \in Switch /\ l \in Wire /\ OnRoute(u, p) /\ NextHop[u][p.dst] = s
      /\ wire[l] # << >> /\ p = Head(wire[l]) /\ wire' = Handled(wire, l) /\ sent' = sent /\ rcvd' = rcvd
  BY DEF Arrived
<1>2. PICK k : /\ RcvNoted(s, mmu[s], u, p.dst, p.psn, k)
               /\ \/ \E q, r : /\ q \in Packet /\ q.flow = p.flow /\ q.dst = p.dst /\ q.seq = p.seq
                               /\ Joined(s, [m |-> k, q |-> oq], q, r)
                               /\ mmu' = [mmu EXCEPT ![s] = r.m] /\ oq' = r.q
                  \/ mmu' = [mmu EXCEPT ![s] = k] /\ oq' = oq
  BY DEF Arrived
<1>3. k.groups = mmu[s].groups
  BY <1>2 DEF RcvNoted, Apart
<1>4. DOMAIN mmu = Switch /\ wire \in [Wire -> Seq(Frame)]
  BY DEF SystemOK
<1> HIDE DEF l
<1>5. ASSUME NEW f \in Flow PROVE KeptOn(SeqKey(f), wire, wire')
  BY <1>1, <1>4, SeqKeyOK, HandledKept, Zenon
<1>6. CASE mmu' = [mmu EXCEPT ![s] = k] /\ oq' = oq
  <2>1. mmu'[s].groups = mmu[s].groups
    BY <1>3, <1>4, <1>6
  <2>2. Elsewhere(s, mmu, oq, mmu', oq')
    BY <1>4, <1>6 DEF Elsewhere
  <2>3. \A f \in Flow : KeptAt(s, FlowDst[f], SeqKey(f), mmu, oq, mmu', oq')
    BY <1>6, <2>1, KeptAtSame, Zenon
  <2> QED
    BY <1>1, <1>5, <2>2, <2>3, FlowsKept
<1>7. ASSUME NEW q, NEW r, q \in Packet, q.flow = p.flow, q.dst = p.dst, q.seq = p.seq,
             Joined(s, [m |-> k, q |-> oq], q, r), mmu' = [mmu EXCEPT ![s] = r.m], oq' = r.q
      PROVE  FlowsOK(mmu', oq', wire', sent', rcvd')
  <2> SUFFICES ASSUME NEW f \in Flow, NEW n, NEW path, RouteOf(f, n, path)
               PROVE  FlowOn(f, n, path, mmu', oq', wire', sent'[f], rcvd'[f])
    BY DEF FlowsOK
  <2> DEFINE S == sent[f]
             R == rcvd[f]
             y == SeqKey(f)
             x == p.seq
  <2>1. PICK A, B : FlowLines(f, n, path, A, B, mmu, oq, wire, S, R)
    BY DEF FlowsOK, FlowOn
  <2>2. S \in Int /\ S <= S /\ x \in Int
    BY <1>1 DEF Packet
  <2>3. Comes(s, q, f, mmu, oq, mmu', oq')
    <3> DEFINE st == [m |-> k, q |-> oq]
    <3>1. st.m.groups = mmu[s].groups /\ st.q = oq /\ Joined(s, st, q, r)
      BY <1>3, <1>7
    <3> HIDE DEF st
    <3> QED
      BY <1>4, <1>7, <3>1, JoinLines, Zenon
  <2>4. KeptOn(y, wire, wire')
    BY <1>5
  <2>5. CASE f = p.flow
    <3>1. PICK i \in 1 .. n - 1 : path[i] = u /\ path[i + 1] = s
      BY <1>1, <2>5, RouteStep
    <3>2. /\ n \in Nat /\ i \in 1 .. n /\ i + 1 \in 1 .. n
          /\ \A a, b \in 1 .. n : path[a] = path[b] => a = b
          /\ \A j \in 1 .. n - 1 : j \in 1 .. n
      BY <3>1, RouteIs
    <3>3. p \in y.mem /\ q \in y.mem /\ y.lo[p] = x - 1 /\ y.hi[p] = x /\ KeyOK(y)
      BY <1>1, <1>7, <2>5, SeqKeyOK DEF OnRoute
    <3> DEFINE lo == A[i + 1]
               hi == B[i]
    <3>4. /\ lo \in Int /\ hi \in Int /\ A[i] \in Int /\ A[i] <= S /\ B[i + 1] \in Int
          /\ LinedAt(u, FlowDst[f], y, At(mmu, oq, u), hi, A[i])
          /\ LinedAt(s, FlowDst[f], y, At(mmu, oq, s), B[i + 1], lo)
          /\ Numbered(wire[l], y, lo, hi)
      BY <2>1, <3>1, <3>2, Zenon DEF FlowLines, l
    <3> HIDE DEF S, R, y, x, lo, hi
    <3>5. hi <= S
      <4>1. hi <= A[i]
        BY <3>4, LineBounds
      <4> QED
        BY <2>2, <3>4, <4>1
    <3>6. lo <= x - 1 /\ x <= hi /\ Numbered(Tail(wire[l]), y, x, hi)
      <4> DEFINE w == wire[l]
      <4>1. w \in Seq(Frame) /\ w # << >> /\ Head(w) = p /\ Numbered(w, y, lo, hi)
        BY <1>1, <1>4, <3>4
      <4> HIDE DEF w
      <4>2. lo <= y.lo[p] /\ y.hi[p] <= hi /\ Numbered(Tail(w), y, y.hi[p], hi)
        BY <3>3, <3>4, <4>1, NumberedTail
      <4> QED
        BY <3>3, <4>2 DEF w
    <3>7. wire'[l] = Tail(wire[l]) /\ \A j \in Wire : j # l => wire'[j] = wire[j]
      BY <1>1, <1>4 DEF Handled
    <3>8. LinedAt(s, FlowDst[f], y, At(mmu', oq', s), B[i + 1], x)
      <4>1. lo < q.seq /\ q.seq = x
        BY <1>7, <2>2, <3>4, <3>6 DEF x
      <4> QED
        BY <2>3, <3>3, <3>4, <4>1 DEF Comes, y
    <3>9. \A j \in 1 .. n - 1 : j # i => wire'[<<path[j], path[j + 1]>>] = wire[<<path[j], path[j + 1]>>]
      <4> SUFFICES ASSUME NEW j \in 1 .. n - 1, j # i PROVE wire'[<<path[j], path[j + 1]>>] = wire[<<path[j], path[j + 1]>>]
        OBVIOUS
      <4>1. path[j] # u /\ <<path[j], path[j + 1]>> \in Wire
        BY <3>1, <3>2, RouteIs, Zenon
      <4> QED
        BY <3>7, <4>1 DEF l
    <3> DEFINE g == i + 1
    <3>10. /\ g \in 1 .. n /\ path[g] = s /\ g - 1 = i /\ S <= S /\ x <= S /\ Elsewhere(path[g], mmu, oq, mmu', oq')
           /\ LinedAt(path[g], FlowDst[f], y, At(mmu', oq', path[g]), B[g], x)
      <4>1. x <= S
        BY <2>2, <3>4, <3>5, <3>6
      <4> QED
        BY <2>2, <2>3, <3>1, <3>2, <3>8, <4>1 DEF Comes
    <3>11. /\ x <= B[g - 1] /\ Numbered(wire'[<<path[g - 1], path[g]>>], y, x, B[g - 1])
           /\ \A j \in 1 .. n - 1 : j + 1 # g => wire'[<<path[j], path[j + 1]>>] = wire[<<path[j], path[j + 1]>>]
      <4>1. <<path[g - 1], path[g]>> = l /\ B[g - 1] = hi
        BY <3>1, <3>10 DEF l, hi
      <4> QED
        BY <3>6, <3>7, <3>9, <4>1
    <3> HIDE DEF g
    <3>12. FlowOn(f, n, path, mmu', oq', wire', S, R)
      BY <2>1, <2>2, <3>10, <3>11, FlowEnters DEF y
    <3> QED
      BY <1>1, <3>12 DEF S, R
  <2>6. CASE f # p.flow
    <3>1. q \notin y.mem
      BY <1>7, <2>6, SeqKeyOK
    <3>2. Elsewhere(s, mmu, oq, mmu', oq') /\ KeptAt(s, FlowDst[f], y, mmu, oq, mmu', oq')
      BY <2>3, <3>1 DEF Comes
    <3> HIDE DEF S, R
    <3>3. FlowLines(f, n, path, A, B, mmu', oq', wire', S, R)
      BY <2>1, <2>2, <2>4, <3>2, FlowKept
    <3> QED
      BY <1>1, <3>3 DEF FlowOn, S, R
  <2> QED
    BY <2>5, <2>6
<1> QED
  BY <1>2, <1>6, <1>7

LEMMA Departs ==
  ASSUME settings \in Configuration, SystemOK(mmu, oq, wire), NEW s, NEW t, <<s, t>> \in Link, Transmit(s, t),
         NEW p, p = Head(oq[<<s, t>>])
  PROVE  Departed(s, t, p)
<1> DEFINE l == <<s, t>>
           q == oq[l]
           r == NotifyDequeue(s, mmu[s], p)
<1>1. /\ q # << >> /\ mmu' = [mmu EXCEPT ![s] = r.m] /\ oq' = [oq EXCEPT ![l] = Tail(oq[l])] /\ sent' = sent
      /\ rcvd' = IF t \in Host THEN [rcvd EXCEPT ![p.flow] = Append(rcvd[p.flow], p.seq)] ELSE rcvd
      /\ wire' = Acking(s, IF t \in Host THEN wire ELSE [wire EXCEPT ![l] = Append(wire[l], p)], r.acks)
  BY DEF Transmit, SendAcks, Acking
<1>2. l \in Link /\ s \in Switch /\ l[1] = s /\ p = Head(oq[l])
  BY Links
<1>3. q \in Seq(Packet) /\ \A i \in DOMAIN q : Queued(l, mmu[s], q[i])
  BY <1>2, Zenon DEF SystemOK
<1> HIDE DEF l
<1>4. p \in Packet /\ 1 \in DOMAIN q /\ q[1] = p
  BY <1>1, <1>2, <1>3
<1>5. Queued(l, mmu[s], p) /\ Here(s, mmu[s], p)
  BY <1>2, <1>3, <1>4 DEF Queued
<1>6. Acked(s, mmu[s], r)
  <2>1. mmu[s] \in MmuType(s) /\ Owes(s, mmu[s])
    BY <1>2, PairsOf DEF StateOK
  <2> DEFINE m == mmu[s]
  <2>2. m \in MmuType(s) /\ Owes(s, m) /\ Here(s, m, p) /\ r = NotifyDequeue(s, m, p)
    BY <1>5, <2>1
  <2> HIDE DEF m, r
  <2>3. Acked(s, m, r)
    BY <1>4, <2>2, NotifyIs
  <2> QED
    BY <2>3 DEF m
<1>7. r = NotifyDequeue(s, mmu[s], p)
  OBVIOUS
<1> HIDE DEF r
<1> QED
  BY <1>1, <1>2, <1>4, <1>5, <1>6, <1>7, Zenon DEF Departed, l

LEMMA LinedTail ==
  ASSUME NEW M, NEW Q \in [Link -> Seq(Packet)], NEW s \in Switch, NEW l \in Link, Q[l] # << >>,
         NEW p, p = Head(Q[l]), NEW N, N[s].groups = M[s].groups, NEW P, P = [Q EXCEPT ![l] = Tail(Q[l])],
         NEW d \in Host, NEW k, KeyOK(k), NEW lo \in Int, NEW hi \in Int, LinedAt(s, d, k, At(M, Q, s), lo, hi)
  PROVE  LinedAfter(s, l, p, d, k, lo, hi, N, P)
<1> DEFINE q == Q[l]
           o == PortTo(s, d)
<1>1. q \in Seq(Packet) /\ q # << >> /\ p = Head(q) /\ o \in Link
  BY PortIn DEF PortTo
<1>2. P[o] = IF o = l THEN Tail(q) ELSE Q[o]
  BY <1>1
<1> HIDE DEF q, o
<1>3. \A v : VoqAt(At(N, P, s).m, v) = VoqAt(At(M, Q, s).m, v)
  BY DEF At, VoqAt
<1>4. At(N, P, s).q = P /\ At(M, Q, s).q = Q
  BY DEF At
<1>5. PICK c \in Int : /\ lo <= c /\ c <= hi /\ Numbered(Q[o], k, lo, c)
                       /\ \A v \in Places : Numbered(VoqAt(At(M, Q, s).m, v), k, c, hi)
  BY <1>4 DEF LinedAt, o
<1>6. ASSUME o = l
      PROVE  /\ Numbered(Tail(q), k, lo, c)
             /\ p \in k.mem => lo <= k.lo[p] /\ k.hi[p] <= c /\ Numbered(Tail(q), k, k.hi[p], c)
  <2>1. Numbered(q, k, lo, c)
    BY <1>5, <1>6 DEF q
  <2> QED
    BY <1>1, <2>1, NumberedTail
<1>7. ASSUME p \notin k.mem PROVE LinedAt(s, d, k, At(N, P, s), lo, hi)
  <2>1. Numbered(P[o], k, lo, c)
    BY <1>2, <1>5, <1>6
  <2> QED
    BY <1>3, <1>4, <1>5, <2>1, Zenon DEF LinedAt, o
<1>8. ASSUME p \in k.mem, o = l PROVE lo <= k.lo[p] /\ LinedAt(s, d, k, At(N, P, s), k.hi[p], hi)
  <2>1. Numbered(P[o], k, k.hi[p], c) /\ k.hi[p] <= c /\ lo <= k.lo[p]
    BY <1>2, <1>6, <1>8, Zenon
  <2> QED
    BY <1>3, <1>4, <1>5, <2>1, Zenon DEF LinedAt, o
<1> QED
  BY <1>7, <1>8 DEF o, LinedAfter

LEMMA TransmitFlows ==
  ASSUME settings \in Configuration, SystemOK(mmu, oq, wire), sent \in [Flow -> Nat], DOMAIN rcvd = Flow,
         FlowsOK(mmu, oq, wire, sent, rcvd), NEW s, NEW t, NEW p, Departed(s, t, p)
  PROVE  FlowsOK(mmu', oq', wire', sent', rcvd')
<1> DEFINE l == <<s, t>>
           w == IF t \in Host THEN wire ELSE [wire EXCEPT ![l] = Append(wire[l], p)]
           g == p.flow
           x == p.seq
<1>1. /\ s \in Switch /\ l \in Link /\ p \in Packet /\ OnRoute(s, p) /\ NextHop[s][p.dst] = t
      /\ oq[l] # << >> /\ p = Head(oq[l]) /\ oq' = [oq EXCEPT ![l] = Tail(oq[l])] /\ sent' = sent
      /\ rcvd' = IF t \in Host THEN [rcvd EXCEPT ![g] = Append(rcvd[g], x)] ELSE rcvd
  BY DEF Departed, Queued, Out
<1>2. PICK r : Acked(s, mmu[s], r) /\ mmu' = [mmu EXCEPT ![s] = r.m] /\ wire' = Acking(s, w, r.acks)
  BY Zenon DEF Departed
<1>3. DOMAIN mmu = Switch /\ oq \in [Link -> Seq(Packet)] /\ wire \in [Wire -> Seq(Frame)]
  BY DEF SystemOK
<1>4. g \in Flow /\ x \in Int /\ p \in Frame
  BY <1>1 DEF Packet, Frame
<1>5. t \notin Host => l \in Wire
  BY <1>1, Links DEF Wire
<1>6. mmu'[s].groups = mmu[s].groups
  BY <1>1, <1>2, <1>3 DEF Acked, Apart
<1>7. Elsewhere(s, mmu, oq, mmu', oq')
  <2>1. l[1] = s
    OBVIOUS
  <2> HIDE DEF l
  <2> QED
    BY <1>1, <1>2, <1>3, <2>1 DEF Elsewhere
<1>8. w \in [Wire -> Seq(Frame)] /\ \A j \in Wire : j # l => w[j] = wire[j]
  <2> HIDE DEF l
  <2>1. t \notin Host => Append(wire[l], p) \in Seq(Frame)
    BY <1>3, <1>4, <1>5
  <2> QED
    BY <1>3, <1>5, <2>1
<1>9. PortTo(s, p.dst) = l
  BY <1>1 DEF PortTo
<1>10. t \notin Host => w[l] = Append(wire[l], p)
  BY <1>3, <1>5
<1> HIDE DEF l, w
<1>11. ASSUME NEW f \in Flow PROVE KeptOn(SeqKey(f), w, wire')
  <2> DEFINE a == r.acks
  <2>1. \A u \in DOMAIN a : a[u] \in Seq(Frame) /\ \A i \in DOMAIN a[u] : a[u][i].kind = "ACK"
    BY <1>2, Zenon DEF Acked
  <2> HIDE DEF a
  <2>2. KeptOn(SeqKey(f), w, Acking(s, w, a))
    BY <1>8, <2>1, SeqKeyOK, AckingKept
  <2> QED
    BY <1>2, <2>2 DEF a
<1> SUFFICES ASSUME NEW f \in Flow, NEW n, NEW path, RouteOf(f, n, path)
             PROVE  FlowOn(f, n, path, mmu', oq', wire', sent'[f], rcvd'[f])
  BY DEF FlowsOK
<1> DEFINE S == sent[f]
           R == rcvd[f]
           T == rcvd'[f]
           y == SeqKey(f)
<1>12. PICK A, B : FlowLines(f, n, path, A, B, mmu, oq, wire, S, R)
  BY DEF FlowsOK, FlowOn
<1>13. S \in Int /\ S <= S /\ KeyOK(y) /\ FlowDst[f] \in Host
  BY SeqKeyOK
<1>14. ASSUME NEW d \in Host, NEW lo \in Int, NEW hi \in Int, LinedAt(s, d, y, At(mmu, oq, s), lo, hi)
       PROVE  /\ p \notin y.mem => LinedAt(s, d, y, At(mmu', oq', s), lo, hi)
              /\ p \in y.mem /\ PortTo(s, d) = l => lo <= y.lo[p] /\ LinedAt(s, d, y, At(mmu', oq', s), y.hi[p], hi)
  <2> HIDE DEF y
  <2>1. LinedAfter(s, l, p, d, y, lo, hi, mmu', oq')
    BY <1>1, <1>3, <1>6, <1>13, <1>14, LinedTail, Zenon
  <2> QED
    BY <2>1 DEF LinedAfter
<1>15. CASE f # g
  <2>1. p \notin y.mem
    BY <1>1, <1>15, SeqKeyOK
  <2>2. KeptAt(s, FlowDst[f], y, mmu, oq, mmu', oq')
    BY <1>13, <1>14, <2>1 DEF KeptAt
  <2>3. KeptOn(y, wire, wire')
    <3>1. KeptOn(y, wire, w)
      <4>1. CASE t \in Host
        BY <4>1 DEF w, KeptOn
      <4>2. CASE t \notin Host
        <5>1. w = [wire EXCEPT ![l] = Append(wire[l], p)]
          BY <4>2 DEF w
        <5> HIDE DEF y
        <5> QED
          BY <1>3, <1>4, <1>5, <1>13, <2>1, <4>2, <5>1, PutKept, Zenon
      <4> QED
        BY <4>1, <4>2
    <3> QED
      BY <1>11, <3>1, KeptOnBoth
  <2>4. T = R
    BY <1>1, <1>4, <1>15
  <2> HIDE DEF S, R
  <2>5. FlowLines(f, n, path, A, B, mmu', oq', wire', S, R)
    BY <1>7, <1>12, <1>13, <2>2, <2>3, FlowKept
  <2> QED
    BY <1>1, <2>4, <2>5, Zenon DEF FlowOn, S
<1>16. CASE f = g
  <2>1. PICK i \in 1 .. n : path[i] = s
    BY <1>1, <1>16 DEF OnRoute
  <2>2. /\ n \in Nat /\ i \in Int /\ path \in [1 .. n -> Switch]
        /\ \A a, b \in 1 .. n : path[a] = path[b] => a = b
        /\ \A j \in 1 .. n - 1 : /\ j \in 1 .. n /\ j + 1 \in 1 .. n /\ <<path[j], path[j + 1]>> \in Wire
                                 /\ NextHop[path[j]][FlowDst[f]] = path[j + 1]
    BY RouteIs
  <2>3. p \in y.mem /\ y.lo[p] = x - 1 /\ y.hi[p] = x /\ PortTo(s, FlowDst[f]) = l
    BY <1>1, <1>9, <1>16, SeqKeyOK DEF OnRoute
  <2>4. p.dst = FlowDst[f] /\ FlowDst[f] \notin Switch
    <3>1. p.dst = FlowDst[f]
      BY <1>1, <1>16 DEF OnRoute
    <3> QED
      BY <1>13, <3>1, FloodgateParameters
  <2>5. /\ i = n => t = FlowDst[f] /\ t \in Host
        /\ i # n => i \in 1 .. n - 1 /\ t = path[i + 1] /\ t \notin Host
    <3>1. i = n => t = FlowDst[f]
      BY <1>1, <2>1, <2>4, RouteIs
    <3>2. i # n => i \in 1 .. n - 1
      BY <2>1, <2>2
    <3>3. ASSUME i # n PROVE t = path[i + 1] /\ t \in Switch
      <4>1. i \in 1 .. n - 1 /\ i + 1 \in 1 .. n
        BY <2>2, <3>2, <3>3
      <4>2. NextHop[path[i]][FlowDst[f]] = path[i + 1]
        BY <2>2, <4>1, Zenon
      <4> QED
        BY <1>1, <2>1, <2>2, <2>4, <4>1, <4>2
    <3> QED
      BY <1>13, <3>1, <3>2, <3>3, FloodgateParameters
  <2> HIDE DEF S, R, T, y, x
  <2>6. /\ A[i] \in Int /\ B[i] \in Int /\ LinedAt(s, FlowDst[f], y, At(mmu, oq, s), B[i], A[i])
        /\ Arriving(R, B[n]) /\ B[n] \in Int
    <3>1. n \in 1 .. n
      BY <2>1, <2>2
    <3> QED
      BY <1>12, <2>1, <3>1, Zenon DEF FlowLines, y
  <2>7. B[i] <= x - 1 /\ LinedAt(s, FlowDst[f], y, At(mmu', oq', s), x, A[i])
    BY <1>13, <1>14, <2>3, <2>6
  <2>8. ASSUME i # n
        PROVE  A[i + 1] <= x /\ Numbered(wire'[<<path[i], path[i + 1]>>], y, A[i + 1], x)
    <3>1. <<path[i], path[i + 1]>> = l /\ l \in Wire /\ t \notin Host
      BY <2>1, <2>2, <2>5, <2>8 DEF l
    <3> DEFINE lo == A[i + 1]
               c == B[i]
               q == wire[l]
    <3>2. lo \in Int /\ c \in Int /\ lo <= c /\ Numbered(q, y, lo, c)
      <4>1. i \in 1 .. n - 1 /\ i + 1 \in 1 .. n
        BY <2>2, <2>5, <2>8
      <4> QED
        BY <1>12, <2>1, <3>1, <4>1 DEF FlowLines, y
    <3>3. q \in Seq(Frame) /\ c <= x /\ (p \in y.mem => c <= y.lo[p] /\ y.hi[p] <= x) /\ w[l] = Append(q, p)
      BY <1>3, <1>4, <1>10, <2>3, <2>6, <2>7, <3>1 DEF x
    <3> HIDE DEF lo, c, q
    <3>4. Numbered(Append(q, p), y, lo, x)
      BY <1>4, <1>13, <3>2, <3>3, NumberedAppend, Zenon DEF x, y
    <3>5. lo <= x /\ x \in Int
      BY <1>4, <3>2, <3>3 DEF x
    <3>6. Numbered(wire'[l], y, lo, x)
      <4>1. Numbered(w[l], y, lo, x) /\ l \in Wire
        BY <3>1, <3>3, <3>4
      <4>2. KeptOn(y, w, wire')
        BY <1>11 DEF y
      <4> QED
        BY <3>2, <3>5, <4>1, <4>2 DEF KeptOn
    <3> QED
      BY <3>1, <3>5, <3>6 DEF lo
  <2>9. ASSUME NEW j \in 1 .. n - 1, NEW lo \in Int, NEW hi \in Int, j # i, lo <= hi,
               Numbered(wire[<<path[j], path[j + 1]>>], y, lo, hi)
        PROVE  Numbered(wire'[<<path[j], path[j + 1]>>], y, lo, hi)
    <3> DEFINE h == <<path[j], path[j + 1]>>
    <3>1. h \in Wire /\ h # l
      BY <2>1, <2>2, <2>9 DEF l
    <3>2. Numbered(w[h], y, lo, hi)
      BY <1>8, <2>9, <3>1, Zenon
    <3> HIDE DEF h
    <3>3. Numbered(wire'[h], y, lo, hi)
      BY <1>11, <2>9, <3>1, <3>2 DEF KeptOn, y
    <3> QED
      BY <3>3 DEF h
  <2>10. Arriving(T, IF i = n THEN x ELSE B[n])
    <3>1. CASE i = n
      <4>1. T = Append(R, x)
        BY <1>1, <1>4, <1>16, <2>5, <3>1, Zenon DEF T, R
      <4>2. x \in Int /\ B[n] < x
        BY <1>4, <2>6, <2>7, <3>1 DEF x
      <4>3. Arriving(Append(R, x), x)
        BY <2>6, <4>2, ArrivingAppend
      <4> QED
        BY <3>1, <4>1, <4>3
    <3>2. CASE i # n
      <4>1. T = R
        BY <1>1, <2>5, <3>2 DEF T, R
      <4> QED
        BY <2>6, <3>2, <4>1
    <3> QED
      BY <3>1, <3>2
  <2>11. Elsewhere(path[i], mmu, oq, mmu', oq') /\ LinedAt(path[i], FlowDst[f], y, At(mmu', oq', path[i]), x, A[i])
    BY <1>7, <2>1, <2>7
  <2>12. FlowOn(f, n, path, mmu', oq', wire', S, T)
    <3>1. x \in Int
      BY <1>4 DEF x
    <3>2. /\ LinedAt(path[i], FlowDst[f], SeqKey(f), At(mmu', oq', path[i]), x, A[i])
          /\ i # n => A[i + 1] <= x /\ Numbered(wire'[<<path[i], path[i + 1]>>], SeqKey(f), A[i + 1], x)
          /\ KeptBeside(i, n, path, SeqKey(f), wire, wire')
      BY <2>8, <2>9, <2>11 DEF y, KeptBeside
    <3> QED
      BY <1>12, <2>10, <2>11, <3>1, <3>2, FlowLeaves, Zenon
  <2> QED
    BY <1>1, <2>12 DEF S, T
<1> QED
  BY <1>15, <1>16

\* No packet goes on: what s holds stays, and the links only lose packets.
LEMMA RestFlows ==
  ASSUME sent \in [Flow -> Nat], FlowsOK(mmu, oq, wire, sent, rcvd), NEW s, NEW k, DOMAIN mmu = Switch, s \in Switch,
         mmu' = [mmu EXCEPT ![s] = k], k.groups = mmu[s].groups, oq' = oq, sent' = sent, rcvd' = rcvd,
         \A f \in Flow : KeptOn(SeqKey(f), wire, wire')
  PROVE  FlowsOK(mmu', oq', wire', sent', rcvd')
<1>1. mmu'[s].groups = mmu[s].groups /\ Elsewhere(s, mmu, oq, mmu', oq')
  BY DEF Elsewhere
<1>2. \A f \in Flow : KeptAt(s, FlowDst[f], SeqKey(f), mmu, oq, mmu', oq')
  BY <1>1, KeptAtSame, Zenon
<1> QED
  BY <1>1, <1>2, FlowsKept, Zenon

LEMMA AckFlows ==
  ASSUME settings \in Configuration, SystemOK(mmu, oq, wire), sent \in [Flow -> Nat], FlowsOK(mmu, oq, wire, sent, rcvd),
         NEW s \in Switch, NEW n, NEW credit, <<n, s>> \in Wire, wire[<<n, s>>] # << >>, AckTaken(s, n, credit)
  PROVE  FlowsOK(mmu', oq', wire', sent', rcvd')
<1> DEFINE l == <<n, s>>
<1>1. l \in Wire /\ wire[l] # << >> /\ wire' = Handled(wire, l) /\ sent' = sent /\ rcvd' = rcvd
  BY DEF AckTaken
<1>2. PICK k, r : /\ RestoredOK(s, mmu[s], credit, k) /\ Moved(s, [m |-> k, q |-> oq], r)
                  /\ mmu' = [mmu EXCEPT ![s] = r.m] /\ oq' = r.q
  BY Zenon DEF AckTaken
<1>3. DOMAIN mmu = Switch /\ wire \in [Wire -> Seq(Frame)] /\ k.groups = mmu[s].groups
  BY <1>2 DEF SystemOK, RestoredOK
<1> HIDE DEF l
<1>4. Elsewhere(s, mmu, oq, mmu', oq')
  BY <1>2, <1>3 DEF Elsewhere, Moved
<1>5. ASSUME NEW f \in Flow
      PROVE  KeptAt(s, FlowDst[f], SeqKey(f), mmu, oq, mmu', oq') /\ KeptOn(SeqKey(f), wire, wire')
  <2> DEFINE y == SeqKey(f)
             d == FlowDst[f]
             st == [m |-> k, q |-> oq]
  <2>1. KeyFor(y, d) /\ d \in Host /\ KeyOK(y)
    BY SeqKeyOK
  <2>2. KeptOn(y, wire, wire')
    <3> HIDE DEF y
    <3> QED
      BY <1>1, <1>3, <2>1, HandledKept
  <2>3. st.m.groups = mmu[s].groups /\ st.q = oq /\ Moved(s, st, r)
    BY <1>2, <1>3
  <2> HIDE DEF y, d, st
  <2>4. KeptAt(s, d, y, mmu, oq, mmu', oq')
    <3>1. \A lo, hi : LinedAt(s, d, y, At(mmu, oq, s), lo, hi) => LinedAt(s, d, y, st, lo, hi)
      BY <2>3 DEF LinedAt, At, VoqAt
    <3>2. \A lo, hi \in Int : LinedAt(s, d, y, st, lo, hi) => LinedAt(s, d, y, r, lo, hi)
      BY <2>1, <2>3 DEF Moved
    <3>3. mmu'[s] = r.m /\ oq' = r.q
      BY <1>2, <1>3
    <3>4. \A lo, hi : LinedAt(s, d, y, r, lo, hi) => LinedAt(s, d, y, At(mmu', oq', s), lo, hi)
      BY <3>3 DEF LinedAt, At
    <3> QED
      BY <3>1, <3>2, <3>4 DEF KeptAt
  <2> QED
    BY <2>2, <2>4 DEF y, d
<1> QED
  BY <1>1, <1>4, <1>5, FlowsKept

LEMMA CreditFlows ==
  ASSUME settings \in Configuration, SystemOK(mmu, oq, wire), sent \in [Flow -> Nat], FlowsOK(mmu, oq, wire, sent, rcvd),
         NEW s \in Switch, CreditsSent(s)
  PROVE  FlowsOK(mmu', oq', wire', sent', rcvd')
<1>1. PICK r : Acked(s, mmu[s], r) /\ mmu' = [mmu EXCEPT ![s] = r.m] /\ wire' = Acking(s, wire, r.acks)
  BY Zenon DEF CreditsSent
<1>2. DOMAIN mmu = Switch /\ wire \in [Wire -> Seq(Frame)] /\ oq' = oq /\ sent' = sent /\ rcvd' = rcvd
  BY DEF SystemOK, CreditsSent
<1> DEFINE a == r.acks
           k == r.m
<1>3. k.groups = mmu[s].groups /\ \A u \in DOMAIN a : a[u] \in Seq(Frame) /\ \A i \in DOMAIN a[u] : a[u][i].kind = "ACK"
  BY <1>1, Zenon DEF Acked, Apart
<1>4. mmu' = [mmu EXCEPT ![s] = k] /\ wire' = Acking(s, wire, a)
  BY <1>1
<1> HIDE DEF a, k
<1>5. \A f \in Flow : KeptOn(SeqKey(f), wire, wire')
  BY <1>2, <1>3, <1>4, SeqKeyOK, AckingKept
<1> QED
  BY <1>2, <1>3, <1>4, <1>5, RestFlows, Zenon

LEMMA SynOutFlows ==
  ASSUME settings \in Configuration, SystemOK(mmu, oq, wire), sent \in [Flow -> Nat], FlowsOK(mmu, oq, wire, sent, rcvd),
         NEW s, NEW l, SynSent(s, l)
  PROVE  FlowsOK(mmu', oq', wire', sent', rcvd')
<1>1. s \in Switch /\ l \in Wire /\ oq' = oq /\ sent' = sent /\ rcvd' = rcvd
  BY DEF SynSent
<1>2. PICK k : mmu' = [mmu EXCEPT ![s] = k] /\ k.groups = mmu[s].groups
  BY Zenon DEF SynSent
<1>3. PICK x : x \in Frame /\ x.kind = "SYN" /\ (wire' = wire \/ wire' = [wire EXCEPT ![l] = Append(wire[l], x)])
  BY DEF SynSent
<1>4. DOMAIN mmu = Switch /\ wire \in [Wire -> Seq(Frame)]
  BY DEF SystemOK
<1>5. ASSUME NEW f \in Flow PROVE KeptOn(SeqKey(f), wire, wire')
  <2> DEFINE y == SeqKey(f)
  <2>1. KeyOK(y) /\ x \notin y.mem
    BY <1>3, SeqKeyOK DEF KeyOK, Packet
  <2> HIDE DEF y
  <2>2. CASE wire' = wire
    BY <2>2 DEF KeptOn, y
  <2>3. CASE wire' = [wire EXCEPT ![l] = Append(wire[l], x)]
    BY <1>1, <1>3, <1>4, <2>1, <2>3, PutKept, Zenon DEF y
  <2> QED
    BY <1>3, <2>2, <2>3
<1> QED
  BY <1>1, <1>2, <1>4, <1>5, RestFlows, Zenon

LEMMA SynInFlows ==
  ASSUME settings \in Configuration, SystemOK(mmu, oq, wire), sent \in [Flow -> Nat], FlowsOK(mmu, oq, wire, sent, rcvd),
         NEW s \in Switch, NEW l \in Wire, wire[l] # << >>, SynTaken(s, l)
  PROVE  FlowsOK(mmu', oq', wire', sent', rcvd')
<1>1. PICK n, a : /\ Apart(mmu[s], n) /\ mmu' = [mmu EXCEPT ![s] = n] /\ wire' = Acking(s, Handled(wire, l), a)
                  /\ \A y \in DOMAIN a : a[y] \in Seq(Frame) /\ \A i \in DOMAIN a[y] : a[y][i].kind = "ACK"
  BY Zenon DEF SynTaken
<1>2. DOMAIN mmu = Switch /\ wire \in [Wire -> Seq(Frame)] /\ oq' = oq /\ sent' = sent /\ rcvd' = rcvd
  BY DEF SystemOK, SynTaken
<1>3. n.groups = mmu[s].groups
  BY <1>1 DEF Apart
<1> DEFINE X == Handled(wire, l)
<1>4. X \in [Wire -> Seq(Frame)]
  BY <1>2, HandledIs, Zenon
<1>5. wire' = Acking(s, X, a)
  BY <1>1
<1>6. \A f \in Flow : KeptOn(SeqKey(f), wire, X)
  BY <1>2, SeqKeyOK, HandledKept
<1> HIDE DEF X
<1>7. \A f \in Flow : KeptOn(SeqKey(f), X, wire')
  BY <1>1, <1>4, <1>5, SeqKeyOK, AckingKept
<1>8. \A f \in Flow : KeptOn(SeqKey(f), wire, wire')
  BY <1>6, <1>7, KeptOnBoth
<1> QED
  BY <1>1, <1>2, <1>3, <1>8, RestFlows, Zenon

LEMMA LostFlows ==
  ASSUME settings \in Configuration, SystemOK(mmu, oq, wire), sent \in [Flow -> Nat], FlowsOK(mmu, oq, wire, sent, rcvd),
         NEW l \in Wire, wire[l] # << >>, mmu' = mmu, oq' = oq, wire' = Handled(wire, l), sent' = sent, rcvd' = rcvd
  PROVE  FlowsOK(mmu', oq', wire', sent', rcvd')
<1>1. wire \in [Wire -> Seq(Frame)]
  BY DEF SystemOK
<1>2. \A f \in Flow : KeptOn(SeqKey(f), wire, wire')
  BY <1>1, SeqKeyOK, HandledKept
<1> DEFINE s == l[2]
<1>3. Elsewhere(s, mmu, oq, mmu', oq')
  BY DEF Elsewhere
<1>4. \A f \in Flow : KeptAt(s, FlowDst[f], SeqKey(f), mmu, oq, mmu', oq')
  BY DEF KeptAt
<1> HIDE DEF s
<1> QED
  BY <1>2, <1>3, <1>4, FlowsKept

LEMMA ReceiveFlows ==
  ASSUME settings \in Configuration, SystemOK(mmu, oq, wire), sent \in [Flow -> Nat], FlowsOK(mmu, oq, wire, sent, rcvd),
         NEW l \in Wire, Receive(l[2], l[1])
  PROVE  FlowsOK(mmu', oq', wire', sent', rcvd') /\ rcvd' = rcvd
<1> DEFINE n == l[1]
           s == l[2]
           x == Head(wire[<<n, s>>])
<1>1. n \in Switch /\ s \in Switch /\ n \in Upstream(s) /\ l = <<n, s>> /\ <<n, s>> \in Wire
  BY Links
<1>2. wire[<<n, s>>] # << >>
  BY DEF Receive
<1>3. \/ x.kind = "DATA" /\ ReceiveData(s, n, x)
      \/ x.kind = "ACK" /\ ReceiveAck(s, n, x.credit)
      \/ x.kind = "SYN" /\ ReceiveSYN(s, n, x)
      \/ /\ mmu' = mmu /\ oq' = oq /\ wire' = [wire EXCEPT ![<<n, s>>] = Tail(@)]
         /\ sent' = sent /\ rcvd' = rcvd
  BY DEF Receive
<1>4. ASSUME mmu' = mmu, oq' = oq, wire' = [wire EXCEPT ![<<n, s>>] = Tail(@)], sent' = sent, rcvd' = rcvd
      PROVE  FlowsOK(mmu', oq', wire', sent', rcvd') /\ rcvd' = rcvd
  <2>1. wire' = Handled(wire, l) /\ wire[l] # << >>
    BY <1>1, <1>2, <1>4, Zenon DEF Handled
  <2> QED
    BY <1>4, <2>1, LostFlows, Zenon
<1> HIDE DEF n, s
<1> DEFINE y == x
<1>5. y = Head(wire[<<n, s>>])
  OBVIOUS
<1> HIDE DEF x, y
<1>6. CASE x.kind = "DATA" /\ ReceiveData(s, n, x)
  <2>1. Arrived(s, n, y)
    BY <1>1, <1>2, <1>5, <1>6, Arrives DEF y
  <2> QED
    BY <1>1, <2>1, DataFlows, Zenon DEF Arrived
<1>7. CASE x.kind = "ACK" /\ ReceiveAck(s, n, x.credit)
  <2>1. AckTaken(s, n, y.credit)
    BY <1>1, <1>2, <1>5, <1>7, AckReceived DEF y
  <2> QED
    BY <1>1, <1>2, <2>1, AckFlows, Zenon DEF AckTaken
<1>8. CASE x.kind = "SYN" /\ ReceiveSYN(s, n, x)
  <2>1. SynTaken(s, <<n, s>>)
    BY <1>1, <1>2, <1>5, <1>8, SynReceived DEF y
  <2> QED
    BY <1>1, <1>2, <2>1, SynInFlows, Zenon DEF SynTaken
<1> QED
  BY <1>3, <1>4, <1>6, <1>7, <1>8

LEMMA FlowsStep ==
  ASSUME settings \in Configuration, SystemOK(mmu, oq, wire), sent \in [Flow -> Nat], DOMAIN rcvd = Flow,
         FlowsOK(mmu, oq, wire, sent, rcvd), Next
  PROVE  FlowsOK(mmu', oq', wire', sent', rcvd') /\ DOMAIN rcvd' = Flow
<1>1. ASSUME NEW f \in Flow, HostSend(f) PROVE FlowsOK(mmu', oq', wire', sent', rcvd') /\ DOMAIN rcvd' = Flow
  <2>1. rcvd' = rcvd
    BY <1>1 DEF HostSend
  <2> QED
    BY <1>1, <2>1, HostFlows
<1>2. ASSUME NEW l \in Link, Transmit(l[1], l[2]) PROVE FlowsOK(mmu', oq', wire', sent', rcvd') /\ DOMAIN rcvd' = Flow
  <2> DEFINE s == l[1]
             t == l[2]
             p == Head(oq[<<s, t>>])
  <2>1. <<s, t>> \in Link /\ Transmit(s, t) /\ p = Head(oq[<<s, t>>])
    BY <1>2, Links
  <2> HIDE DEF s, t, p
  <2>2. Departed(s, t, p)
    BY <2>1, Departs
  <2>3. DOMAIN rcvd' = Flow
    BY <2>2 DEF Departed
  <2> QED
    BY <2>2, <2>3, TransmitFlows
<1>3. ASSUME NEW l \in Wire, Receive(l[2], l[1]) PROVE FlowsOK(mmu', oq', wire', sent', rcvd') /\ DOMAIN rcvd' = Flow
  BY <1>3, ReceiveFlows
<1>4. ASSUME NEW l \in Wire, NEW d \in Host, CreditTimeout(l[2], l[1], d)
      PROVE  FlowsOK(mmu', oq', wire', sent', rcvd') /\ DOMAIN rcvd' = Flow
  <2>1. l[2] \in Switch /\ l[1] \in Upstream(l[2])
    BY Links
  <2>2. CreditsSent(l[2])
    BY <1>4, <2>1, CreditsTimeOut
  <2> QED
    BY <2>1, <2>2, CreditFlows, Zenon DEF CreditsSent
<1>5. ASSUME NEW l \in Wire, SynTimeout(l[1], l[2]) PROVE FlowsOK(mmu', oq', wire', sent', rcvd') /\ DOMAIN rcvd' = Flow
  <2>1. <<l[1], l[2]>> \in Wire
    BY Links
  <2>2. SynSent(l[1], <<l[1], l[2]>>)
    BY <1>5, <2>1, SynsTimeOut
  <2> QED
    BY <2>2, SynOutFlows, Zenon DEF SynSent
<1> QED
  BY <1>1, <1>2, <1>3, <1>4, <1>5 DEF Next

\* The settings do not change what is in line.
LEMMA FlowsPrimed ==
  ASSUME settings' = settings, FlowsOK(mmu', oq', wire', sent', rcvd')
  PROVE  FlowsOK(mmu, oq, wire, sent, rcvd)'
<1>1. Places' = Places
  BY DEF Places, Ids, VoqLimit, DynamicHash
<1>2. \A s, d, k, st, lo, hi : LinedAt(s, d, k, st, lo, hi)' <=> LinedAt(s, d, k, st, lo, hi)
  BY <1>1 DEF LinedAt
<1> QED
  BY <1>2 DEF FlowsOK, FlowOn, FlowLines

-----------------------------------------------------------------------------
(* What is under way on a hop *)

LEMMA HopKept ==
  ASSUME NEW u, NEW s, NEW d, NEW M, NEW Q, NEW W, HopOK(u, s, d, M, Q, W), M[s].rcvData[u][d] \in Int,
         NEW N, NEW P, NEW X, N[s].rcvData[u][d] = M[s].rcvData[u][d],
         PortKept(u, d, M, Q, N, P), LinkKept(<<u, s>>, PsnKey(d), W, X)
  PROVE  HopOK(u, s, d, N, P, X)
<1> DEFINE a == M[s].rcvData[u][d]
           k == PsnKey(d)
<1>1. PICK c \in Int : /\ a <= c /\ PsnPort(u, d, At(M, Q, u), c)
                       /\ Numbered(W[<<u, s>>], k, a, c)
  BY DEF HopOK
<1>2. PsnPort(u, d, At(N, P, u), c)
  BY <1>1 DEF PortKept
<1>3. Numbered(X[<<u, s>>], k, a, c)
  BY <1>1 DEF LinkKept
<1> QED
  BY <1>1, <1>2, <1>3 DEF HopOK

\* What a hop is.
LEMMA HopIs ==
  ASSUME NEW M, NEW Q, NEW W, SystemOK(M, Q, W), NEW u \in Switch, NEW s \in Switch, NEW d \in Host, IsHop(u, s, d)
  PROVE  /\ <<u, s>> \in Wire /\ <<u, s>> \in Link /\ u \in Upstream(s) /\ PortTo(u, d) = <<u, s>>
         /\ M[s].rcvData[u][d] \in Nat /\ M[u].nxtData[d] \in Nat
         /\ Q[<<u, s>>] \in Seq(Packet) /\ W[<<u, s>>] \in Seq(Frame)
<1>1. NextHop[u][d] = s
  BY DEF IsHop
<1>2. <<u, s>> \in Wire /\ <<u, s>> \in Link
  BY <1>1, Links
<1>3. u \in Upstream(s) /\ PortTo(u, d) = <<u, s>>
  BY <1>1, <1>2 DEF Upstream, PortTo
<1>4. M[s] \in MmuType(s) /\ M[u] \in MmuType(u)
  BY DEF SystemOK, StateOK
<1>5. M[s].rcvData[u][d] \in Nat /\ M[u].nxtData[d] \in Nat
  BY <1>3, <1>4 DEF MmuType, Counters
<1> QED
  BY <1>2, <1>3, <1>5 DEF SystemOK

LEMMA PortElsewhere ==
  ASSUME NEW s, NEW M, NEW Q, NEW N, NEW P, Elsewhere(s, M, Q, N, P), NEW u \in Switch, u # s, NEW d \in Host
  PROVE  PortKept(u, d, M, Q, N, P)
<1>1. PortTo(u, d) \in Link /\ PortTo(u, d)[1] = u
  BY PortIn DEF PortTo
<1>2. N[u] = M[u] /\ P[PortTo(u, d)] = Q[PortTo(u, d)]
  BY <1>1 DEF Elsewhere
<1> QED
  BY <1>2 DEF PortKept, PsnPort, At

LEMMA LinkOf ==
  ASSUME NEW k, NEW W, NEW X, KeptOn(k, W, X), NEW l \in Wire
  PROVE  LinkKept(l, k, W, X)
  BY DEF KeptOn, LinkKept

\* No packet goes on and none is received.
LEMMA HopsKept ==
  ASSUME NEW M, NEW Q, NEW W, SystemOK(M, Q, W), HopsOK(M, Q, W), NEW z \in Switch,
         NEW N, NEW P, Elsewhere(z, M, Q, N, P), N[z].rcvData = M[z].rcvData, PortsKept(z, M, Q, N, P),
         NEW X, \A d \in Host : KeptOn(PsnKey(d), W, X)
  PROVE  HopsOK(N, P, X)
<1> SUFFICES ASSUME Absolute, ~ SynTimer, NEW u \in Switch, NEW s \in Switch, NEW d \in Host, IsHop(u, s, d)
             PROVE  HopOK(u, s, d, N, P, X)
  BY DEF HopsOK
<1>1. HopOK(u, s, d, M, Q, W)
  BY DEF HopsOK
<1>2. <<u, s>> \in Wire /\ M[s].rcvData[u][d] \in Int
  BY HopIs
<1>3. N[s].rcvData[u][d] = M[s].rcvData[u][d]
  BY DEF Elsewhere
<1>4. PortKept(u, d, M, Q, N, P)
  <2>1. CASE u = z
    BY <2>1 DEF PortsKept, IsHop
  <2>2. CASE u # z
    BY <2>2, PortElsewhere
  <2> QED
    BY <2>1, <2>2
<1>5. LinkKept(<<u, s>>, PsnKey(d), W, X)
  BY <1>2, LinkOf
<1> QED
  BY <1>1, <1>2, <1>3, <1>4, <1>5, HopKept

LEMMA WorkedPorts ==
  ASSUME NEW s \in Switch, NEW M, NEW Q, NEW st, NEW r, NEW N, NEW P, PortsWorked(s, M, Q, st, r, N, P)
  PROVE  Elsewhere(s, M, Q, N, P) /\ PortsKept(s, M, Q, N, P) /\ N[s].rcvData = st.m.rcvData
<1>1. N[s] = r.m /\ \A t \in Switch : t # s => N[t] = M[t]
  BY DEF PortsWorked
<1> USE DEF PortsWorked
<1>2. Elsewhere(s, M, Q, N, P)
  BY <1>1 DEF Elsewhere, PutInPorts
<1>3. \A d, c : PsnPort(s, d, At(M, Q, s), c) => PsnPort(s, d, st, c)
  BY DEF PsnPort, At
<1>4. \A d, c : PsnPort(s, d, r, c) => PsnPort(s, d, At(N, P, s), c)
  BY <1>1 DEF PsnPort, At
<1>5. PortsKept(s, M, Q, N, P)
  BY <1>3, <1>4, Zenon DEF PortsKept, PortKept, PutInPorts
<1>6. N[s].rcvData = st.m.rcvData
  BY <1>1 DEF Kept, PutInPorts
<1> QED
  BY <1>2, <1>5, <1>6

LEMMA HostHops ==
  ASSUME settings \in Configuration, SystemOK(mmu, oq, wire), sent \in [Flow -> Nat], HopsOK(mmu, oq, wire),
         NEW f \in Flow, HostSend(f)
  PROVE  HopsOK(mmu', oq', wire')
<1> DEFINE s == ToROf(FlowSrc[f])
           k == mmu[s]
           st == [m |-> k, q |-> oq]
           p == HostPacket(f)
<1>1. s = ToROf(FlowSrc[f]) /\ st = [m |-> mmu[s], q |-> oq] /\ st.m = k /\ st.q = oq /\ k.nxtData = mmu[s].nxtData
  OBVIOUS
<1> HIDE DEF st, s, k, p
<1>2. /\ s \in Switch /\ wire' = wire
      /\ \E r : mmu' = [mmu EXCEPT ![s] = r.m] /\ oq' = r.q /\ Joined(s, st, p, r)
  BY <1>1, HostJoins DEF p
<1>3. PICK r : mmu' = [mmu EXCEPT ![s] = r.m] /\ oq' = r.q /\ Joined(s, st, p, r)
  BY <1>2, Zenon
<1>4. PutInPorts(s, st, r)
  BY <1>3 DEF Joined, PutInPorts
<1>5. DOMAIN mmu = Switch
  BY DEF SystemOK
<1>6. Elsewhere(s, mmu, oq, mmu', oq') /\ PortsKept(s, mmu, oq, mmu', oq') /\ mmu'[s].rcvData = st.m.rcvData
  <2>1. st.m.nxtData = mmu[s].nxtData /\ st.q = oq
    BY <1>1
  <2>2. mmu' = [mmu EXCEPT ![s] = r.m] /\ oq' = r.q
    BY <1>3
  <2>3. PortsWorked(s, mmu, oq, st, r, mmu', oq')
    BY <1>4, <1>5, <2>1, <2>2 DEF PortsWorked
  <2>4. s \in Switch
    BY <1>2
  <2> QED
    BY <2>3, <2>4, WorkedPorts
<1>7. \A d \in Host : KeptOn(PsnKey(d), wire, wire')
  BY <1>2 DEF KeptOn
<1> QED
  BY <1>1, <1>2, <1>6, <1>7, HopsKept, Zenon DEF k

LEMMA AckHops ==
  ASSUME settings \in Configuration, SystemOK(mmu, oq, wire), HopsOK(mmu, oq, wire),
         NEW s \in Switch, NEW n, NEW credit, <<n, s>> \in Wire, wire[<<n, s>>] # << >>, AckTaken(s, n, credit)
  PROVE  HopsOK(mmu', oq', wire')
<1>1. PICK k, r : /\ RestoredOK(s, mmu[s], credit, k) /\ Moved(s, [m |-> k, q |-> oq], r)
                  /\ mmu' = [mmu EXCEPT ![s] = r.m] /\ oq' = r.q
  BY Zenon DEF AckTaken
<1> DEFINE st == [m |-> k, q |-> oq]
<1>2. st.m = k /\ st.q = oq /\ Moved(s, st, r)
  BY <1>1
<1>3. wire' = Handled(wire, <<n, s>>) /\ DOMAIN mmu = Switch /\ wire \in [Wire -> Seq(Frame)]
  BY DEF AckTaken, SystemOK
<1> HIDE DEF st
<1>4. k.nxtData = mmu[s].nxtData /\ k.rcvData = mmu[s].rcvData
  BY <1>1 DEF RestoredOK
<1>5. PutInPorts(s, st, r)
  BY <1>2 DEF Moved, PutInPorts
<1>6. Elsewhere(s, mmu, oq, mmu', oq') /\ PortsKept(s, mmu, oq, mmu', oq') /\ mmu'[s].rcvData = st.m.rcvData
  <2>1. st.m.nxtData = mmu[s].nxtData /\ st.q = oq
    BY <1>2, <1>4
  <2>2. mmu' = [mmu EXCEPT ![s] = r.m] /\ oq' = r.q
    BY <1>1
  <2>3. PortsWorked(s, mmu, oq, st, r, mmu', oq')
    BY <1>3, <1>5, <2>1, <2>2 DEF PortsWorked
  <2> QED
    BY <2>3, WorkedPorts
<1>7. \A d \in Host : KeptOn(PsnKey(d), wire, wire')
  BY <1>3, PsnKeyOK, HandledKept
<1> QED
  BY <1>2, <1>4, <1>6, <1>7, HopsKept

\* The counters of s change, but not what it has sent or received.
LEMMA CountersApart ==
  ASSUME NEW M, NEW Q, NEW W, SystemOK(M, Q, W), HopsOK(M, Q, W), NEW s \in Switch, NEW n,
         n.nxtData = M[s].nxtData, n.rcvData = M[s].rcvData, NEW N, N = [M EXCEPT ![s] = n],
         NEW X, \A d \in Host : KeptOn(PsnKey(d), W, X)
  PROVE  HopsOK(N, Q, X)
<1>1. DOMAIN M = Switch
  BY DEF SystemOK
<1>2. N[s] = n /\ \A t \in Switch : t # s => N[t] = M[t]
  BY <1>1
<1>3. Elsewhere(s, M, Q, N, Q)
  BY <1>2 DEF Elsewhere
<1>4. PortsKept(s, M, Q, N, Q)
  BY <1>2 DEF PortsKept, PortKept, PsnPort, At
<1> QED
  BY <1>2, <1>3, <1>4, HopsKept, Zenon

LEMMA CreditHops ==
  ASSUME settings \in Configuration, SystemOK(mmu, oq, wire), HopsOK(mmu, oq, wire), NEW s \in Switch, CreditsSent(s)
  PROVE  HopsOK(mmu', oq', wire')
<1>1. PICK r : Acked(s, mmu[s], r) /\ mmu' = [mmu EXCEPT ![s] = r.m] /\ wire' = Acking(s, wire, r.acks)
  BY Zenon DEF CreditsSent
<1>2. wire \in [Wire -> Seq(Frame)] /\ oq' = oq
  BY DEF SystemOK, CreditsSent
<1> DEFINE a == r.acks
           n == r.m
<1>3. /\ n.nxtData = mmu[s].nxtData /\ n.rcvData = mmu[s].rcvData
      /\ \A u \in DOMAIN a : a[u] \in Seq(Frame) /\ \A i \in DOMAIN a[u] : a[u][i].kind = "ACK"
  BY <1>1, Zenon DEF Acked, Apart
<1>4. mmu' = [mmu EXCEPT ![s] = n] /\ wire' = Acking(s, wire, a)
  BY <1>1
<1> HIDE DEF a, n
<1>5. \A d \in Host : KeptOn(PsnKey(d), wire, wire')
  BY <1>2, <1>3, <1>4, PsnKeyOK, AckingKept
<1>6. HopsOK(mmu', oq, wire')
  BY <1>3, <1>4, <1>5, CountersApart, Zenon
<1> QED
  BY <1>2, <1>6

LEMMA LostHops ==
  ASSUME settings \in Configuration, SystemOK(mmu, oq, wire), HopsOK(mmu, oq, wire),
         NEW l \in Wire, wire[l] # << >>, mmu' = mmu, oq' = oq, wire' = Handled(wire, l)
  PROVE  HopsOK(mmu', oq', wire')
<1>1. wire \in [Wire -> Seq(Frame)] /\ DOMAIN mmu = Switch /\ l[1] \in Switch
  BY Links DEF SystemOK
<1>2. \A d \in Host : KeptOn(PsnKey(d), wire, wire')
  BY <1>1, PsnKeyOK, HandledKept
<1> DEFINE z == l[1]
<1>3. z \in Switch /\ Elsewhere(z, mmu, oq, mmu', oq') /\ PortsKept(z, mmu, oq, mmu', oq') /\ mmu'[z].rcvData = mmu[z].rcvData
  BY <1>1 DEF Elsewhere, PortsKept, PortKept
<1> HIDE DEF z
<1> QED
  BY <1>2, <1>3, HopsKept

\* The first packet for d on a link is received.
LEMMA HopTaken ==
  ASSUME NEW M, NEW Q, NEW W, SystemOK(M, Q, W), NEW u \in Switch, NEW s \in Switch, NEW d \in Host, IsHop(u, s, d),
         HopOK(u, s, d, M, Q, W), W[<<u, s>>] # << >>, NEW p \in Packet, p = Head(W[<<u, s>>]), p.dst = d,
         NEW N, NEW P, PortKept(u, d, M, Q, N, P), NEW X, X[<<u, s>>] = Tail(W[<<u, s>>]),
         N[s].rcvData[u][d] = p.psn
  PROVE  HopOK(u, s, d, N, P, X)
<1> DEFINE q == W[<<u, s>>]
           a == M[s].rcvData[u][d]
           k == PsnKey(d)
<1>1. q \in Seq(Frame) /\ q # << >> /\ p = Head(q) /\ a \in Int
  BY HopIs
<1>2. PICK c \in Int : /\ a <= c /\ PsnPort(u, d, At(M, Q, u), c) /\ Numbered(q, k, a, c)
  BY DEF HopOK
<1>3. KeyOK(k) /\ p \in k.mem /\ k.hi[p] = p.psn
  BY PsnKeyOK
<1> HIDE DEF q, a, k
<1>4. p.psn <= c /\ Numbered(Tail(q), k, p.psn, c)
  BY <1>1, <1>2, <1>3, NumberedTail
<1>5. PsnPort(u, d, At(N, P, u), c)
  BY <1>2 DEF PortKept
<1>6. X[<<u, s>>] = Tail(q)
  BY DEF q
<1> QED
  BY <1>4, <1>5, <1>6, Zenon DEF HopOK, k

\* The new count of what was received is the PSN of the packet.
LEMMA HopNoted ==
  ASSUME NEW M, NEW Q, NEW W, SystemOK(M, Q, W), NEW u \in Switch, NEW s \in Switch, NEW d \in Host, IsHop(u, s, d), Absolute,
         HopOK(u, s, d, M, Q, W), W[<<u, s>>] # << >>, NEW p \in Packet, p = Head(W[<<u, s>>]), p.dst = d,
         NEW n, RcvNoted(s, M[s], u, d, p.psn, n), n.rcvData[u][d] # M[s].rcvData[u][d]
  PROVE  n.rcvData[u][d] = p.psn
<1> DEFINE q == W[<<u, s>>]
           a == M[s].rcvData[u][d]
           b == n.rcvData[u][d]
           x == p.psn
           k == PsnKey(d)
<1>1. q \in Seq(Frame) /\ q # << >> /\ p = Head(q) /\ a \in Int /\ u \in Upstream(s)
  BY HopIs
<1>2. PICK c \in Int : a <= c /\ Numbered(q, k, a, c)
  BY DEF HopOK
<1>3. KeyOK(k) /\ p \in k.mem /\ k.hi[p] = x /\ k.lo[p] = x - p.size
  BY PsnKeyOK
<1>4. x \in Nat /\ p.size \in Nat
  BY DEF Packet, Positive
<1>5. b \in Nat /\ x <= b /\ \A z \in Nat : a <= z /\ x <= z => b <= z
  <2>1. n \in MmuType(s)
    BY DEF RcvNoted
  <2>2. b \in Nat
    BY <1>1, <2>1 DEF MmuType, Counters
  <2> QED
    BY <1>1, <2>2, Zenon DEF RcvNoted
<1> HIDE DEF q, a, b, x, k
<1>6. a <= k.lo[p]
  BY <1>1, <1>2, <1>3, NumberedTail
<1>7. b = x
  BY <1>1, <1>3, <1>4, <1>5, <1>6
<1> QED
  BY <1>7 DEF b, x

LEMMA DataHops ==
  ASSUME settings \in Configuration, SystemOK(mmu, oq, wire), HopsOK(mmu, oq, wire),
         NEW s \in Switch, NEW u, NEW p, Arrived(s, u, p)
  PROVE  HopsOK(mmu', oq', wire')
<1> DEFINE l == <<u, s>>
<1>1. /\ p \in Packet /\ u \in Switch /\ l \in Wire /\ NextHop[u][p.dst] = s
      /\ wire[l] # << >> /\ p = Head(wire[l]) /\ wire' = Handled(wire, l)
  BY DEF Arrived
<1>2. PICK k : /\ RcvNoted(s, mmu[s], u, p.dst, p.psn, k)
               /\ \/ \E q, r : /\ q \in Packet /\ q.flow = p.flow /\ q.dst = p.dst /\ q.seq = p.seq
                               /\ Joined(s, [m |-> k, q |-> oq], q, r)
                               /\ mmu' = [mmu EXCEPT ![s] = r.m] /\ oq' = r.q
                  \/ mmu' = [mmu EXCEPT ![s] = k] /\ oq' = oq
  BY DEF Arrived
<1>3. k.nxtData = mmu[s].nxtData
  BY <1>2 DEF RcvNoted, Apart
<1>4. DOMAIN mmu = Switch /\ wire \in [Wire -> Seq(Frame)]
  BY DEF SystemOK
<1>5. Elsewhere(s, mmu, oq, mmu', oq') /\ PortsKept(s, mmu, oq, mmu', oq') /\ mmu'[s].rcvData = k.rcvData
  <2> DEFINE st == [m |-> k, q |-> oq]
  <2>1. st.m = k /\ st.q = oq /\ st = [m |-> k, q |-> oq]
    OBVIOUS
  <2> HIDE DEF st
  <2>2. ASSUME NEW q, NEW r, Joined(s, st, q, r), mmu' = [mmu EXCEPT ![s] = r.m], oq' = r.q
        PROVE  /\ Elsewhere(s, mmu, oq, mmu', oq') /\ PortsKept(s, mmu, oq, mmu', oq')
               /\ mmu'[s].rcvData = k.rcvData
    <3>1. PutInPorts(s, st, r)
      BY <2>2 DEF Joined, PutInPorts
    <3>2. PortsWorked(s, mmu, oq, st, r, mmu', oq')
      BY <1>3, <1>4, <2>1, <2>2, <3>1 DEF PortsWorked
    <3> QED
      BY <2>1, <3>2, WorkedPorts
  <2>3. CASE mmu' = [mmu EXCEPT ![s] = k] /\ oq' = oq
    <3>1. mmu'[s] = k /\ \A t \in Switch : t # s => mmu'[t] = mmu[t]
      BY <1>4, <2>3
    <3> QED
      BY <1>3, <2>3, <3>1 DEF Elsewhere, PortsKept, PortKept, PsnPort, At
  <2> QED
    BY <1>2, <2>1, <2>2, <2>3
<1> SUFFICES ASSUME Absolute, ~ SynTimer, NEW v \in Switch, NEW t \in Switch, NEW d \in Host, IsHop(v, t, d)
             PROVE  HopOK(v, t, d, mmu', oq', wire')
  BY DEF HopsOK
<1>6. HopOK(v, t, d, mmu, oq, wire)
  BY DEF HopsOK
<1>7. <<v, t>> \in Wire /\ v \in Upstream(t) /\ mmu[t].rcvData[v][d] \in Int
  BY HopIs
<1>8. PortKept(v, d, mmu, oq, mmu', oq')
  <2>1. CASE v = s
    BY <1>5, <2>1 DEF PortsKept, IsHop
  <2>2. CASE v # s
    BY <1>5, <2>2, PortElsewhere
  <2> QED
    BY <2>1, <2>2
<1>9. CASE mmu'[t].rcvData[v][d] = mmu[t].rcvData[v][d]
  <2>1. KeptOn(PsnKey(d), wire, wire')
    <3> HIDE DEF l
    <3> QED
      BY <1>1, <1>4, PsnKeyOK, HandledKept
  <2>2. LinkKept(<<v, t>>, PsnKey(d), wire, wire')
    BY <1>7, <2>1, LinkOf
  <2> QED
    BY <1>6, <1>7, <1>8, <1>9, <2>2, HopKept
<1>10. CASE mmu'[t].rcvData[v][d] # mmu[t].rcvData[v][d]
  <2>1. t = s
    BY <1>5, <1>10 DEF Elsewhere
  <2>2. v = u /\ d = p.dst /\ k.rcvData[v][d] # mmu[s].rcvData[v][d]
    BY <1>2, <1>5, <1>7, <1>10, <2>1 DEF RcvNoted
  <2>3. RcvNoted(s, mmu[s], v, d, p.psn, k) /\ wire[<<v, s>>] # << >> /\ p = Head(wire[<<v, s>>]) /\ p.dst = d
    BY <1>1, <1>2, <2>2
  <2>4. k.rcvData[v][d] = p.psn
    BY <1>1, <1>6, <2>1, <2>2, <2>3, HopNoted
  <2>5. mmu'[s].rcvData[v][d] = p.psn
    BY <1>5, <2>4
  <2>6. wire'[<<v, s>>] = Tail(wire[<<v, s>>])
    BY <1>1, <1>4, <2>2 DEF Handled
  <2> QED
    BY <1>1, <1>6, <1>8, <2>1, <2>3, <2>5, <2>6, HopTaken, Zenon
<1> QED
  BY <1>9, <1>10

\* The first packet of the port of a hop leaves it for the link.
LEMMA HopSends ==
  ASSUME NEW M, NEW Q, NEW W, SystemOK(M, Q, W), NEW u \in Switch, NEW s \in Switch, NEW d \in Host, IsHop(u, s, d),
         HopOK(u, s, d, M, Q, W), Q[<<u, s>>] # << >>, NEW p \in Packet, p = Head(Q[<<u, s>>]),
         NEW N, N[s].rcvData[u][d] = M[s].rcvData[u][d], N[u].nxtData = M[u].nxtData,
         NEW P, P[<<u, s>>] = Tail(Q[<<u, s>>]),
         NEW X, LinkKept(<<u, s>>, PsnKey(d), [W EXCEPT ![<<u, s>>] = Append(W[<<u, s>>], p)], X)
  PROVE  HopOK(u, s, d, N, P, X)
<1> DEFINE q == Q[<<u, s>>]
           w == W[<<u, s>>]
           a == M[s].rcvData[u][d]
           b == M[u].nxtData[d]
           k == PsnKey(d)
<1>1. /\ q \in Seq(Packet) /\ q # << >> /\ p = Head(q) /\ a \in Int /\ b \in Int /\ w \in Seq(Frame)
      /\ PortTo(u, d) = <<u, s>> /\ <<u, s>> \in Wire /\ W \in [Wire -> Seq(Frame)]
  <2>1. /\ <<u, s>> \in Wire /\ PortTo(u, d) = <<u, s>> /\ a \in Nat /\ b \in Nat
        /\ q \in Seq(Packet) /\ w \in Seq(Frame)
    BY HopIs
  <2>2. W \in [Wire -> Seq(Frame)]
    BY DEF SystemOK
  <2> QED
    BY <2>1, <2>2
<1>2. PICK c \in Int : /\ a <= c /\ c <= b /\ Numbered(q, k, c, b) /\ Covers(q, k, c, b) /\ Numbered(w, k, a, c)
  BY <1>1 DEF HopOK, PsnPort, At
<1>3. KeyOK(k) /\ (p \in k.mem <=> p.dst = d) /\ k.hi[p] = p.psn /\ p.psn \in Int
  BY PsnKeyOK DEF Packet
<1>4. [W EXCEPT ![<<u, s>>] = Append(W[<<u, s>>], p)][<<u, s>>] = Append(w, p)
  BY <1>1
<1>5. P[<<u, s>>] = Tail(q) /\ N[s].rcvData[u][d] = a /\ N[u].nxtData[d] = b
  OBVIOUS
<1>6. p \in Frame
  BY PacketsAreFrames
<1> HIDE DEF q, w, a, b, k
<1>7. ASSUME NEW z \in Int, a <= z, z <= b, Numbered(Tail(q), k, z, b), Covers(Tail(q), k, z, b), Numbered(Append(w, p), k, a, z)
      PROVE  HopOK(u, s, d, N, P, X)
  <2>1. PsnPort(u, d, At(N, P, u), z)
    BY <1>1, <1>5, <1>7, Zenon DEF PsnPort, At, k
  <2>2. Numbered(X[<<u, s>>], k, a, z)
    BY <1>1, <1>4, <1>7, Zenon DEF LinkKept, k
  <2> QED
    BY <1>5, <1>7, <2>1, <2>2 DEF HopOK, k
<1>8. CASE p \in k.mem
  <2>1. c <= k.lo[p] /\ k.hi[p] <= b /\ Numbered(Tail(q), k, k.hi[p], b)
    BY <1>1, <1>2, <1>3, <1>8, NumberedTail
  <2>2. Covers(Tail(q), k, k.hi[p], b)
    BY <1>1, <1>2, <1>3, <1>8, CoversTail
  <2>3. k.lo[p] < k.hi[p] /\ k.lo[p] \in Int /\ k.hi[p] \in Int
    BY <1>3, <1>8 DEF KeyOK
  <2>4. a <= k.hi[p] /\ c <= k.hi[p]
    BY <1>1, <1>2, <2>1, <2>3, SMTT(30)
  <2>5. Numbered(Append(w, p), k, a, k.hi[p])
    <3>1. k.hi[p] <= k.hi[p]
      BY <2>3
    <3> QED
      BY <1>1, <1>2, <1>3, <1>6, <2>1, <2>3, <2>4, <3>1, NumberedAppend, Zenon
  <2> QED
    BY <1>7, <2>1, <2>2, <2>3, <2>4, <2>5
<1>9. CASE p \notin k.mem
  <2>1. Numbered(Tail(q), k, c, b)
    BY <1>1, <1>2, <1>3, NumberedTail
  <2>2. Covers(Tail(q), k, c, b)
    BY <1>1, <1>2, <1>3, <1>9, CoversTail
  <2>3. Numbered(Append(w, p), k, a, c)
    <3>1. c <= c /\ a <= c /\ (p \in k.mem => c <= k.lo[p] /\ k.hi[p] <= c)
      BY <1>2, <1>9
    <3> QED
      BY <1>1, <1>2, <1>3, <1>6, <3>1, NumberedAppend
  <2> QED
    BY <1>2, <1>7, <2>1, <2>2, <2>3
<1> QED
  BY <1>8, <1>9

LEMMA TransmitHops ==
  ASSUME settings \in Configuration, SystemOK(mmu, oq, wire), HopsOK(mmu, oq, wire), NEW s, NEW t, NEW p, Departed(s, t, p)
  PROVE  HopsOK(mmu', oq', wire')
<1> DEFINE l == <<s, t>>
           w == IF t \in Host THEN wire ELSE [wire EXCEPT ![l] = Append(wire[l], p)]
<1>1. /\ s \in Switch /\ l \in Link /\ p \in Packet /\ oq[l] # << >> /\ p = Head(oq[l])
      /\ oq' = [oq EXCEPT ![l] = Tail(oq[l])]
  BY DEF Departed
<1>2. PICK r : Acked(s, mmu[s], r) /\ mmu' = [mmu EXCEPT ![s] = r.m] /\ wire' = Acking(s, w, r.acks)
  BY Zenon DEF Departed
<1>3. DOMAIN mmu = Switch /\ wire \in [Wire -> Seq(Frame)] /\ oq \in [Link -> Seq(Packet)]
  BY DEF SystemOK
<1> DEFINE a == r.acks
<1>4. /\ r.m.nxtData = mmu[s].nxtData /\ r.m.rcvData = mmu[s].rcvData /\ wire' = Acking(s, w, a)
      /\ \A u \in DOMAIN a : a[u] \in Seq(Frame) /\ \A i \in DOMAIN a[u] : a[u][i].kind = "ACK"
  BY <1>2, Zenon DEF Acked, Apart
<1>5. mmu'[s] = r.m /\ \A y \in Switch : y # s => mmu'[y] = mmu[y]
  BY <1>1, <1>2, <1>3
<1>6. \A y \in Switch : mmu'[y].rcvData = mmu[y].rcvData /\ mmu'[y].nxtData = mmu[y].nxtData
  BY <1>4, <1>5
<1>7. oq'[l] = Tail(oq[l]) /\ \A k \in Link : k # l => oq'[k] = oq[k]
  BY <1>1, <1>3
<1>8. w \in [Wire -> Seq(Frame)] /\ \A k \in Wire : k # l => w[k] = wire[k]
  <2>1. CASE t \in Host
    BY <1>3, <2>1
  <2>2. CASE t \notin Host
    <3>1. w = [wire EXCEPT ![l] = Append(wire[l], p)] /\ p \in Frame
      BY <1>1, <2>2, PacketsAreFrames
    <3>2. l \in Wire
      BY <1>1, <2>2, Links DEF Wire
    <3> HIDE DEF w, l
    <3>3. Append(wire[l], p) \in Seq(Frame)
      BY <1>3, <3>1, <3>2
    <3> QED
      BY <1>3, <3>1, <3>2, <3>3
  <2> QED
    BY <2>1, <2>2, Zenon
<1> SUFFICES ASSUME Absolute, ~ SynTimer, NEW u \in Switch, NEW y \in Switch, NEW d \in Host, IsHop(u, y, d)
             PROVE  HopOK(u, y, d, mmu', oq', wire')
  BY DEF HopsOK
<1> DEFINE h == <<u, y>>
<1>9. HopOK(u, y, d, mmu, oq, wire)
  BY DEF HopsOK
<1>10. h \in Wire /\ h \in Link /\ PortTo(u, d) = h /\ mmu[y].rcvData[u][d] \in Int
  BY HopIs
<1>11. LinkKept(h, PsnKey(d), w, wire')
  <2> HIDE DEF w, a, h
  <2>1. KeptOn(PsnKey(d), w, wire')
    BY <1>4, <1>8, PsnKeyOK, AckingKept
  <2> QED
    BY <1>10, <2>1, LinkOf
<1>12. mmu'[y].rcvData[u][d] = mmu[y].rcvData[u][d] /\ mmu'[u].nxtData = mmu[u].nxtData
  BY <1>6
<1>13. CASE h # l
  <2>1. w[h] = wire[h] /\ oq'[h] = oq[h]
    BY <1>7, <1>8, <1>10, <1>13
  <2> HIDE DEF w, h, l
  <2>2. LinkKept(h, PsnKey(d), wire, wire')
    BY <1>11, <2>1 DEF LinkKept
  <2>3. PortKept(u, d, mmu, oq, mmu', oq')
    BY <1>10, <1>12, <2>1 DEF PortKept, PsnPort, At
  <2> QED
    BY <1>9, <1>10, <1>12, <2>2, <2>3, HopKept DEF h
<1>14. CASE h = l
  <2>1. u = s /\ y = t /\ t \notin Host
    BY <1>14, FloodgateParameters
  <2>2. w = [wire EXCEPT ![<<u, y>>] = Append(wire[<<u, y>>], p)]
    BY <2>1
  <2>3. LinkKept(<<u, y>>, PsnKey(d), [wire EXCEPT ![<<u, y>>] = Append(wire[<<u, y>>], p)], wire')
    <3> HIDE DEF w
    <3> QED
      BY <1>11, <2>2
  <2>4. oq[<<u, y>>] # << >> /\ p = Head(oq[<<u, y>>]) /\ oq'[<<u, y>>] = Tail(oq[<<u, y>>])
    BY <1>1, <1>7, <2>1
  <2> HIDE DEF w, h, l
  <2> QED
    BY <1>1, <1>9, <1>12, <2>3, <2>4, HopSends, Zenon
<1> QED
  BY <1>13, <1>14

LEMMA ReceiveHops ==
  ASSUME settings \in Configuration, SystemOK(mmu, oq, wire), HopsOK(mmu, oq, wire), NEW l \in Wire, Receive(l[2], l[1])
  PROVE  HopsOK(mmu', oq', wire')
<1> DEFINE n == l[1]
           s == l[2]
           x == Head(wire[<<n, s>>])
<1>1. n \in Switch /\ s \in Switch /\ n \in Upstream(s) /\ l = <<n, s>> /\ <<n, s>> \in Wire
  BY Links
<1>2. wire[<<n, s>>] # << >>
  BY DEF Receive
<1>3. \/ x.kind = "DATA" /\ ReceiveData(s, n, x)
      \/ x.kind = "ACK" /\ ReceiveAck(s, n, x.credit)
      \/ x.kind = "SYN" /\ ReceiveSYN(s, n, x)
      \/ mmu' = mmu /\ oq' = oq /\ wire' = [wire EXCEPT ![<<n, s>>] = Tail(@)]
  BY DEF Receive
<1>4. ASSUME mmu' = mmu, oq' = oq, wire' = [wire EXCEPT ![<<n, s>>] = Tail(@)] PROVE HopsOK(mmu', oq', wire')
  <2>1. wire' = Handled(wire, l) /\ wire[l] # << >>
    BY <1>1, <1>2, <1>4, Zenon DEF Handled
  <2> QED
    BY <1>4, <2>1, LostHops, Zenon
<1> HIDE DEF n, s
<1> DEFINE y == x
<1>5. y = Head(wire[<<n, s>>])
  OBVIOUS
<1> HIDE DEF x, y
<1>6. CASE x.kind = "DATA" /\ ReceiveData(s, n, x)
  <2>1. Arrived(s, n, y)
    BY <1>1, <1>2, <1>5, <1>6, Arrives DEF y
  <2> QED
    BY <1>1, <2>1, DataHops
<1>7. CASE x.kind = "ACK" /\ ReceiveAck(s, n, x.credit)
  <2>1. AckTaken(s, n, y.credit)
    BY <1>1, <1>2, <1>5, <1>7, AckReceived DEF y
  <2> QED
    BY <1>1, <1>2, <2>1, AckHops
<1>8. CASE x.kind = "SYN" /\ ReceiveSYN(s, n, x)
  <2>1. SynTaken(s, <<n, s>>)
    BY <1>1, <1>2, <1>5, <1>8, SynReceived DEF y
  <2> QED
    BY <2>1 DEF SynTaken, HopsOK
<1> QED
  BY <1>3, <1>4, <1>6, <1>7, <1>8

LEMMA HopsStep ==
  ASSUME settings \in Configuration, SystemOK(mmu, oq, wire), sent \in [Flow -> Nat], HopsOK(mmu, oq, wire), Next
  PROVE  HopsOK(mmu', oq', wire')
<1>1. ASSUME NEW f \in Flow, HostSend(f) PROVE HopsOK(mmu', oq', wire')
  BY <1>1, HostHops
<1>2. ASSUME NEW l \in Link, Transmit(l[1], l[2]) PROVE HopsOK(mmu', oq', wire')
  <2> DEFINE s == l[1]
             t == l[2]
             p == Head(oq[<<s, t>>])
  <2>1. <<s, t>> \in Link /\ Transmit(s, t) /\ p = Head(oq[<<s, t>>])
    BY <1>2, Links
  <2> HIDE DEF s, t, p
  <2>2. Departed(s, t, p)
    BY <2>1, Departs
  <2> QED
    BY <2>2, TransmitHops
<1>3. ASSUME NEW l \in Wire, Receive(l[2], l[1]) PROVE HopsOK(mmu', oq', wire')
  BY <1>3, ReceiveHops
<1>4. ASSUME NEW l \in Wire, NEW d \in Host, CreditTimeout(l[2], l[1], d) PROVE HopsOK(mmu', oq', wire')
  <2>1. l[2] \in Switch /\ l[1] \in Upstream(l[2])
    BY Links
  <2>2. CreditsSent(l[2])
    BY <1>4, <2>1, CreditsTimeOut
  <2> QED
    BY <2>1, <2>2, CreditHops
<1>5. ASSUME NEW l \in Wire, SynTimeout(l[1], l[2]) PROVE HopsOK(mmu', oq', wire')
  <2>1. <<l[1], l[2]>> \in Wire
    BY Links
  <2>2. SynSent(l[1], <<l[1], l[2]>>)
    BY <1>5, <2>1, SynsTimeOut
  <2> QED
    BY <2>2 DEF SynSent, HopsOK
<1> QED
  BY <1>1, <1>2, <1>3, <1>4, <1>5 DEF Next

\* Nor do they change what is under way.
LEMMA HopsPrimed ==
  ASSUME settings' = settings, HopsOK(mmu', oq', wire')
  PROVE  HopsOK(mmu, oq, wire)'
<1>1. Absolute' = Absolute /\ SynTimer' = SynTimer
  BY DEF Absolute, SynTimer
<1>2. \A u, s, d : HopOK(u, s, d, mmu, oq, wire)' <=> HopOK(u, s, d, mmu', oq', wire')
  BY DEF HopOK, PsnPort
<1> QED
  BY <1>1, <1>2 DEF HopsOK

\* Before the first packet nothing is under way.
LEMMA EmptyHops ==
  ASSUME settings \in Configuration, Init
  PROVE  HopsOK(mmu, oq, wire)
<1>1. mmu = [s \in Switch |-> EmptyMmu(s)] /\ oq = [l \in Link |-> << >>] /\ wire = [l \in Wire |-> << >>]
  BY DEF Init
<1> SUFFICES ASSUME NEW u \in Switch, NEW s \in Switch, NEW d \in Host, IsHop(u, s, d)
             PROVE  HopOK(u, s, d, mmu, oq, wire)
  BY DEF HopsOK
<1>2. <<u, s>> \in Wire /\ <<u, s>> \in Link /\ u \in Upstream(s) /\ PortTo(u, d) = <<u, s>>
  BY Links, Zenon DEF IsHop, PortTo, Upstream
<1> DEFINE k == PsnKey(d)
           e == << >>
           st == At(mmu, oq, u)
<1>3. wire[<<u, s>>] = e /\ st.q[PortTo(u, d)] = e /\ DOMAIN e = {}
  BY <1>1, <1>2 DEF At
<1>4. st.m.nxtData[d] = 0 /\ mmu[s].rcvData[u][d] = 0
  BY <1>1, <1>2 DEF At, EmptyMmu
<1> HIDE DEF k, e, st
<1>5. Numbered(e, k, 0, 0) /\ Covers(e, k, 0, 0)
  BY <1>3 DEF Numbered, Covers
<1>6. 0 \in Int /\ 0 <= 0 /\ PsnPort(u, d, st, 0)
  BY <1>3, <1>4, <1>5 DEF PsnPort, k
<1> QED
  BY <1>3, <1>4, <1>5, <1>6 DEF HopOK, k, st

\* A packet under way on a hop has a PSN beyond what was received.
LEMMA UnderwayAfter ==
  ASSUME NEW M, NEW Q, NEW W, SystemOK(M, Q, W), NEW u \in Switch, NEW s \in Switch, NEW d \in Host, IsHop(u, s, d),
         HopOK(u, s, d, M, Q, W),
         NEW x \in Range(Q[<<u, s>>]) \cup Range(W[<<u, s>>]), x.kind = "DATA", x.dst = d
  PROVE  x.psn > M[s].rcvData[u][d]
<1> DEFINE k == PsnKey(d)
           r == M[s].rcvData[u][d]
           q == Q[<<u, s>>]
           w == W[<<u, s>>]
<1>1. r \in Nat /\ q \in Seq(Packet) /\ w \in Seq(Frame) /\ PortTo(u, d) = <<u, s>>
  BY HopIs
<1>2. M[u].nxtData[d] \in Nat
  BY HopIs
<1>3. PICK c \in Int : r <= c /\ PsnPort(u, d, At(M, Q, u), c) /\ Numbered(w, k, r, c)
  BY DEF HopOK
<1>4. Numbered(q, k, c, M[u].nxtData[d])
  BY <1>1, <1>3 DEF PsnPort, At
<1>5. (\E i \in DOMAIN q : q[i] = x) \/ (\E i \in DOMAIN w : w[i] = x)
  BY DEF Range
<1> HIDE DEF k, r, q, w
<1>6. x \in Packet
  <2>1. CASE \E i \in DOMAIN q : q[i] = x
    BY <1>1, <2>1
  <2>2. CASE \E i \in DOMAIN w : w[i] = x
    <3>1. x \in Frame
      BY <1>1, <2>2
    <3> QED
      BY <3>1, DataFrame
  <2> QED
    BY <1>5, <2>1, <2>2
<1>7. x \in k.mem /\ k.lo[x] = x.psn - x.size /\ x.psn \in Int /\ x.size \in Nat \ {0}
  BY <1>6 DEF k, PsnKey, Packet, Positive
<1>8. r <= k.lo[x]
  <2>1. CASE \E i \in DOMAIN q : q[i] = x
    BY <1>1, <1>3, <1>4, <1>7, <2>1 DEF Numbered
  <2>2. CASE \E i \in DOMAIN w : w[i] = x
    BY <1>3, <1>7, <2>2 DEF Numbered
  <2> QED
    BY <1>5, <2>1, <2>2
<1>9. x.psn > r
  BY <1>1, <1>7, <1>8
<1> QED
  BY <1>9 DEF r

-----------------------------------------------------------------------------
(* Windows: where the bytes of a window are *)

\* In order within lo and hi they have no more bytes than that.
LEMMA Packed ==
  ASSUME NEW k, KeyOK(k), NEW q \in Seq(Frame), NEW lo \in Int, NEW hi \in Int, lo <= hi, Numbered(q, k, lo, hi),
         NEW d, NEW U, Fits(k, d, U)
  PROVE  Bytes(q, d, U) <= hi - lo
<1> DEFINE n == Weights(q, SizesOf(d, U))
           C == Cells(n)
           T == lo + 1 .. hi
           f == [c \in C |-> k.lo[q[c[1]]] + c[2]]
<1>1. n \in [1 .. Len(q) -> Nat] /\ DOMAIN q = 1 .. Len(q) /\ DOMAIN n = DOMAIN q
  BY SizeType, WeightsType
<1>2. Bytes(q, d, U) = Cardinality(C)
  BY BytesAre DEF CellSum
<1>3. ASSUME NEW c \in C
      PROVE  /\ c[1] \in DOMAIN q /\ c[2] \in Nat /\ 0 < c[2] /\ c = <<c[1], c[2]>>
             /\ q[c[1]] \in k.mem /\ c[2] <= k.hi[q[c[1]]] - k.lo[q[c[1]]]
             /\ k.lo[q[c[1]]] \in Int /\ k.hi[q[c[1]]] \in Int
             /\ lo <= k.lo[q[c[1]]] /\ k.hi[q[c[1]]] <= hi
  <2>1. PICK i \in DOMAIN q : c \in {i} \X (1 .. n[i])
    BY <1>1 DEF Cells
  <2>2. n[i] \in Nat /\ q[i] \in Frame /\ n[i] = SizeOf(q[i], d, U)
    <3>1. q[i] \in Frame /\ n[i] \in Nat
      BY <1>1
    <3>2. n[i] = SizesOf(d, U)[q[i]]
      BY DEF Weights
    <3> QED
      BY <3>1, <3>2 DEF SizesOf
  <2> DEFINE b == n[i]
             x == q[i]
  <2>3. b \in Nat /\ c \in {i} \X (1 .. b)
    BY <2>1, <2>2
  <2> HIDE DEF b
  <2>4. c[1] = i /\ c[2] \in Nat /\ 0 < c[2] /\ c[2] <= b /\ c = <<c[1], c[2]>>
    BY <2>3
  <2>5. IsFor(x, d, U) /\ b = x.size
    BY <2>2, <2>3, <2>4 DEF SizeOf, b
  <2>6. x \in Packet
    BY <2>2, <2>5, DataFrame DEF IsFor
  <2>7. x \in k.mem /\ k.lo[x] = k.hi[x] - x.size
    BY <2>5, <2>6 DEF Fits
  <2>8. k.lo[x] \in Int /\ k.hi[x] \in Int /\ lo <= k.lo[x] /\ k.hi[x] <= hi
    BY <2>7 DEF KeyOK, Numbered
  <2>9. x.size \in Nat
    BY <2>6 DEF Packet, Positive
  <2>10. c[2] <= k.hi[x] - k.lo[x]
    BY <2>4, <2>5, <2>7, <2>8, <2>9
  <2> QED
    BY <2>4, <2>7, <2>8, <2>10
<1> HIDE DEF n, C
<1>4. \A c \in C : f[c] \in T /\ k.lo[q[c[1]]] < f[c] /\ f[c] <= k.hi[q[c[1]]] /\ f[c] = k.lo[q[c[1]]] + c[2]
  <2> SUFFICES ASSUME NEW c \in C
               PROVE  f[c] \in T /\ k.lo[q[c[1]]] < f[c] /\ f[c] <= k.hi[q[c[1]]] /\ f[c] = k.lo[q[c[1]]] + c[2]
    OBVIOUS
  <2> DEFINE a == k.lo[q[c[1]]]
             b == k.hi[q[c[1]]]
             j == c[2]
  <2>1. a \in Int /\ b \in Int /\ j \in Nat /\ 0 < j /\ j <= b - a /\ lo <= a /\ b <= hi
    BY <1>3
  <2>2. f[c] = a + j
    OBVIOUS
  <2> HIDE DEF a, b, j, f
  <2>3. f[c] \in T /\ a < f[c] /\ f[c] <= b
    BY <2>1, <2>2
  <2> QED
    BY <2>2, <2>3 DEF a, b, j
<1>5. DOMAIN f = C
  OBVIOUS
<1>6. \A c, e \in C : c[1] < e[1] => f[c] < f[e]
  <2> SUFFICES ASSUME NEW c \in C, NEW e \in C, c[1] < e[1] PROVE f[c] < f[e]
    OBVIOUS
  <2>1. k.hi[q[c[1]]] <= k.lo[q[e[1]]]
    BY <1>3 DEF Numbered
  <2>2. k.hi[q[c[1]]] \in Int /\ k.lo[q[e[1]]] \in Int /\ f[c] \in Int /\ f[e] \in Int
    BY <1>3, <1>4
  <2>3. f[c] <= k.hi[q[c[1]]] /\ k.lo[q[e[1]]] < f[e]
    BY <1>4
  <2> HIDE DEF f
  <2> QED
    BY <2>1, <2>2, <2>3
<1> HIDE DEF f, T
<1>7. \A c, e \in C : f[c] = f[e] => c = e
  <2> SUFFICES ASSUME NEW c \in C, NEW e \in C, f[c] = f[e] PROVE c = e
    OBVIOUS
  <2>1. f[c] \in Int /\ f[e] \in Int
    BY <1>4 DEF T
  <2>2. c[1] \in Int /\ e[1] \in Int
    BY <1>1, <1>3
  <2>3. c[1] = e[1]
    BY <1>6, <2>1, <2>2
  <2>4. c[2] = e[2]
    BY <1>3, <1>4, <2>3
  <2> QED
    BY <1>3, <2>3, <2>4
<1>8. f \in Injection(C, T)
  <2>1. f \in [C -> T]
    <3>1. f = [c \in C |-> f[c]]
      BY DEF f
    <3> QED
      BY <1>4, <1>5, <3>1
  <2> QED
    BY <1>7, <2>1, Zenon DEF Injection, IsInjective
<1>9. IsFiniteSet(T) /\ Cardinality(T) = hi - lo
  <2> DEFINE a == lo + 1
  <2>1. a \in Int /\ T = a .. hi /\ (a > hi => hi - lo = 0) /\ hi - a + 1 = hi - lo
    BY DEF T
  <2> HIDE DEF a
  <2>2. IsFiniteSet(a .. hi) /\ Cardinality(a .. hi) = IF a > hi THEN 0 ELSE hi - a + 1
    BY <2>1, FS_Interval
  <2> QED
    BY <2>1, <2>2
<1>10. Cardinality(C) <= Cardinality(T)
  BY <1>8, <1>9, FS_Injection, Zenon
<1> QED
  BY <1>2, <1>9, <1>10

LEMMA WaitingPacked ==
  ASSUME settings \in Configuration, NEW s, NEW m \in MmuType(s), Placed(s, m), NEW k, KeyOK(k),
         NEW lo \in Int, NEW hi \in Int, lo <= hi, \A v \in Places : Numbered(VoqAt(m, v), k, lo, hi),
         NEW d, NEW U, Fits(k, d, U)
  PROVE  WaitingBytes(m, d, U) <= hi - lo
<1>1. CASE \A v \in Places : \A i \in DOMAIN VoqAt(m, v) : ~ IsFor(VoqAt(m, v)[i], d, U)
  <2>1. WaitingBytes(m, d, U) = 0
    BY <1>1, WaitingSome
  <2> QED
    BY <2>1
<1>2. ASSUME NEW v \in Places, NEW i \in DOMAIN VoqAt(m, v), IsFor(VoqAt(m, v)[i], d, U)
      PROVE  WaitingBytes(m, d, U) <= hi - lo
  <2> DEFINE n == WaitingAt(m, d, U)
             b == Bytes(VoqAt(m, v), d, U)
  <2>1. n \in [Places -> Nat] /\ n[v] = b /\ WaitingBytes(m, d, U) = CellSum(n) /\ CellSum(n) \in Nat
    BY WaitingIs, Zenon DEF WaitingAt
  <2>2. b <= hi - lo
    BY VoqsAre, Packed
  <2>3. ASSUME NEW w \in Places, w # v PROVE n[w] = 0
    <3>1. ASSUME NEW j \in DOMAIN VoqAt(m, w) PROVE ~ IsFor(VoqAt(m, w)[j], d, U)
      <4>1. VoqAt(m, w)[j].dst # VoqAt(m, v)[i].dst
        BY <2>3, OneVOQ
      <4> QED
        BY <1>2, <4>1 DEF IsFor
    <3> QED
      BY <3>1, VoqsAre, BytesNone DEF WaitingAt
  <2> HIDE DEF n, b
  <2> DEFINE z == [n EXCEPT ![v] = 0]
  <2>4. z \in [Places -> Nat] /\ \A w \in Places : z[w] = 0
    BY <2>1, <2>3
  <2>5. CellSum(z) = CellSum(n) + (0 - n[v])
    BY <2>1, PlacesFinite, CellsChange
  <2> HIDE DEF z
  <2>6. CellSum(z) = 0
    BY <2>4, CellsNone
  <2>7. n[v] \in Nat
    BY <2>1
  <2> QED
    BY <2>1, <2>2, <2>5, <2>6, <2>7
<1> QED
  BY <1>1, <1>2

LEMMA HeldPacked ==
  ASSUME settings \in Configuration, NEW s \in Switch, NEW st \in AtWork(s), Placed(s, st.m), NEW d \in Host, NEW k, KeyOK(k),
         NEW lo \in Int, NEW hi \in Int, LinedAt(s, d, k, st, lo, hi), NEW U, Fits(k, d, U)
  PROVE  Total(s, st, d, U) <= hi - lo /\ Total(s, st, d, U) \in Nat
<1> DEFINE q == st.q[PortTo(s, d)]
           m == st.m
<1>1. m \in MmuType(s) /\ q \in Seq(Frame)
  <2>1. PortTo(s, d) \in Link
    BY PortIn DEF PortTo
  <2> QED
    BY <2>1, PacketsAreFrames DEF AtWork
<1>2. PICK c \in Int : /\ lo <= c /\ c <= hi /\ Numbered(q, k, lo, c)
                       /\ \A v \in Places : Numbered(VoqAt(m, v), k, c, hi)
  BY DEF LinedAt
<1> HIDE DEF q, m
<1>3. Bytes(q, d, U) <= c - lo /\ Bytes(q, d, U) \in Nat
  BY <1>1, <1>2, Packed, BytesAre
<1>4. WaitingBytes(m, d, U) \in Nat
  BY <1>1, WaitingIs
<1>5. WaitingBytes(m, d, U) <= hi - c
  <2>1. Placed(s, m)
    BY DEF m
  <2> QED
    BY <1>1, <1>2, <2>1, WaitingPacked
<1>6. Total(s, st, d, U) = WaitingBytes(m, d, U) + Bytes(q, d, U)
  BY DEF Total, q, m
<1> QED
  BY <1>2, <1>3, <1>4, <1>5, <1>6

LEMMA InKeyOK ==
  ASSUME NEW u, NEW d
  PROVE  /\ KeyFor(InKey(u, d), d) /\ KeyOK(InKey(u, d)) /\ Fits(InKey(u, d), d, {u})
         /\ \A x \in Packet : /\ x \in InKey(u, d).mem <=> x.dst = d /\ x.in = u
                              /\ InKey(u, d).lo[x] = x.ipsn - x.size /\ InKey(u, d).hi[x] = x.ipsn
                              /\ x.ipsn \in Nat /\ x.size \in Nat /\ 0 < x.size
<1> DEFINE k == InKey(u, d)
<1>1. \A x \in Packet : x.ipsn \in Nat /\ x.size \in Nat /\ 0 < x.size
  BY DEF Packet, Positive
<1>2. \A x \in Packet : (x \in k.mem <=> x.dst = d /\ x.in = u) /\ k.lo[x] = x.ipsn - x.size /\ k.hi[x] = x.ipsn
  BY DEF InKey
<1>3. \A x \in k.mem : x \in Packet
  BY DEF InKey
<1> HIDE DEF k
<1>4. KeyOK(k)
  BY <1>1, <1>2, <1>3 DEF KeyOK
<1>5. KeyFor(k, d)
  BY <1>2, <1>3, <1>4 DEF KeyFor, Same
<1>6. Fits(k, d, {u})
  BY <1>2 DEF Fits, IsFor
<1> QED
  BY <1>1, <1>2, <1>4, <1>5, <1>6 DEF k

LEMMA PsnFits ==
  ASSUME NEW d
  PROVE  Fits(PsnKey(d), d, Node)
  BY PsnKeyOK DEF Fits, IsFor

LEMMA CreditType ==
  ASSUME NEW d
  PROVE  CreditIn(d) \in [Frame -> Nat]
<1>1. ASSUME NEW x \in Frame PROVE Credited(x, d) \in Nat
  <2>1. CASE x.kind = "ACK"
    <3>1. x.credit \in Partial(Host, Nat)
      BY <2>1, DataFrame
    <3>2. d \in DOMAIN x.credit => x.credit[d] \in Nat
      BY <3>1, PartialIs
    <3> QED
      BY <3>2 DEF Credited
  <2>2. CASE x.kind # "ACK"
    BY <2>2 DEF Credited
  <2> QED
    BY <2>1, <2>2
<1> QED
  BY <1>1 DEF CreditIn

\* A frame that is no credit for d comes or goes.
LEMMA PaidTail ==
  ASSUME NEW q \in Seq(Frame), q # << >>, NEW d, NEW c, NEW z, Paid(q, d, c, z), Head(q).kind # "ACK"
  PROVE  Paid(Tail(q), d, c, z)
<1> DEFINE w == CreditIn(d)
<1>1. w \in [Frame -> Nat] /\ Head(q) \in Frame /\ w[Head(q)] = 0
  BY CreditType DEF CreditIn, Credited
<1>2. Tail(q) \in Seq(Frame)
  OBVIOUS
<1>3. CASE Absolute
  <2>1. ASSUME NEW i \in DOMAIN q, q[i].kind = "ACK" PROVE \E j \in DOMAIN Tail(q) : Tail(q)[j] = q[i]
    <3>1. i # 1
      BY <2>1
    <3>2. i - 1 \in DOMAIN Tail(q) /\ Tail(q)[i - 1] = q[i]
      BY <3>1
    <3> QED
      BY <3>2
  <2> QED
    BY <1>3, <2>1 DEF Paid
<1>4. CASE ~ Absolute
  <2> HIDE DEF w
  <2>1. CellSum(Weights(q, w)) = CellSum(Weights(Tail(q), w)) + w[Head(q)]
    BY <1>1, SumTail
  <2>2. CellSum(Weights(Tail(q), w)) \in Nat
    BY <1>1, <1>2, WeightsType
  <2> QED
    BY <1>1, <1>4, <2>1, <2>2 DEF Paid, w
<1> QED
  BY <1>3, <1>4

LEMMA PaidPut ==
  ASSUME NEW q \in Seq(Frame), NEW x \in Frame, NEW d, NEW c, NEW z, Paid(q, d, c, z), x.kind # "ACK"
  PROVE  Paid(Append(q, x), d, c, z)
<1> DEFINE w == CreditIn(d)
<1>1. w \in [Frame -> Nat] /\ w[x] = 0
  BY CreditType DEF CreditIn, Credited
<1>2. CASE Absolute
  <2>1. ASSUME NEW i \in DOMAIN q PROVE i \in DOMAIN Append(q, x) /\ Append(q, x)[i] = q[i]
    OBVIOUS
  <2> QED
    BY <1>2, <2>1 DEF Paid
<1>3. CASE ~ Absolute
  <2> HIDE DEF w
  <2>1. CellSum(Weights(Append(q, x), w)) = CellSum(Weights(q, w)) + w[x]
    BY <1>1, SumAppend
  <2>2. CellSum(Weights(q, w)) \in Nat
    BY <1>1, WeightsType
  <2> QED
    BY <1>1, <1>3, <2>1, <2>2 DEF Paid, w
<1> QED
  BY <1>2, <1>3

\* A credit is put on the link.
LEMMA PaidBack ==
  ASSUME NEW q \in Seq(Frame), NEW x \in Frame, x.kind = "ACK", NEW d, NEW c \in Nat, NEW z, Paid(q, d, c, z),
         NEW y, y = IF d \notin DOMAIN x.credit THEN z ELSE IF Absolute THEN x.credit[d] ELSE z + x.credit[d]
  PROVE  Paid(Append(q, x), d, c, y)
<1> DEFINE w == CreditIn(d)
<1>1. w \in [Frame -> Nat] /\ w[x] = IF d \in DOMAIN x.credit THEN x.credit[d] ELSE 0
  BY CreditType DEF CreditIn, Credited
<1>2. CASE Absolute
  <2>1. ASSUME NEW i \in DOMAIN q PROVE i \in DOMAIN Append(q, x) /\ Append(q, x)[i] = q[i]
    OBVIOUS
  <2>2. Len(q) + 1 \in DOMAIN Append(q, x) /\ Append(q, x)[Len(q) + 1] = x
    OBVIOUS
  <2>3. CASE d \in DOMAIN x.credit
    BY <1>2, <2>2, <2>3 DEF Paid
  <2>4. CASE d \notin DOMAIN x.credit
    BY <1>2, <2>1, <2>4 DEF Paid
  <2> QED
    BY <2>3, <2>4
<1>3. CASE ~ Absolute
  <2>1. w[x] \in Nat
    BY <1>1
  <2>2. y = z + w[x]
    <3>1. CASE d \in DOMAIN x.credit
      BY <1>1, <1>3, <3>1
    <3>2. CASE d \notin DOMAIN x.credit
      <4>1. z \in Nat
        BY <1>1, <1>3, WeightsType DEF Paid
      <4> QED
        BY <1>1, <3>2, <4>1
    <3> QED
      BY <3>1, <3>2
  <2> HIDE DEF w
  <2>3. CellSum(Weights(Append(q, x), w)) = CellSum(Weights(q, w)) + w[x]
    BY <1>1, SumAppend
  <2>4. CellSum(Weights(q, w)) \in Nat
    BY <1>1, WeightsType
  <2>5. z = c + CellSum(Weights(q, w))
    BY <1>3 DEF Paid, w
  <2>6. y = c + CellSum(Weights(Append(q, x), w))
    BY <2>1, <2>2, <2>3, <2>4, <2>5
  <2> QED
    BY <1>3, <2>6 DEF Paid, w
<1> QED
  BY <1>2, <1>3

\* A credit is taken from the link: b is what the switch has then.
LEMMA PaidIn ==
  ASSUME NEW q \in Seq(Frame), q # << >>, NEW x, x = Head(q), x.kind = "ACK", NEW d, NEW c \in Nat, NEW z \in Nat, Paid(q, d, c, z),
         Absolute => c <= z, d \in DOMAIN x.credit /\ Absolute => x.credit[d] <= z,
         NEW b \in Nat, d \notin DOMAIN x.credit => b = c,
         d \in DOMAIN x.credit => /\ Absolute => c <= b /\ x.credit[d] <= b /\ \A e \in Nat : c <= e /\ x.credit[d] <= e => b <= e
                                  /\ ~ Absolute => b = c + x.credit[d]
  PROVE  Paid(Tail(q), d, b, z)
<1> DEFINE w == CreditIn(d)
<1>1. w \in [Frame -> Nat] /\ x \in Frame /\ w[x] = IF d \in DOMAIN x.credit THEN x.credit[d] ELSE 0
  BY CreditType DEF CreditIn, Credited
<1>2. Tail(q) \in Seq(Frame)
  OBVIOUS
<1>3. CASE Absolute
  <2>1. ASSUME NEW i \in DOMAIN q, i # 1 PROVE \E j \in DOMAIN Tail(q) : Tail(q)[j] = q[i]
    <3>1. i - 1 \in DOMAIN Tail(q) /\ Tail(q)[i - 1] = q[i]
      BY <2>1
    <3> QED
      BY <3>1
  <2>2. b = c \/ (d \in DOMAIN x.credit /\ b <= z /\ c <= b /\ x.credit[d] <= b)
    BY <1>3
  <2>3. CASE z = c
    BY <1>3, <2>2, <2>3 DEF Paid
  <2>4. CASE z # c
    <3>1. PICK i \in DOMAIN q : q[i].kind = "ACK" /\ d \in DOMAIN q[i].credit /\ q[i].credit[d] = z
      BY <1>3, <2>4 DEF Paid
    <3>2. CASE i = 1
      <4>1. q[i] = x
        BY <3>2
      <4>2. b = z
        BY <1>3, <3>1, <4>1
      <4> QED
        BY <1>3, <4>2 DEF Paid
    <3>3. CASE i # 1
      BY <1>3, <2>1, <3>1, <3>3 DEF Paid
    <3> QED
      BY <3>2, <3>3
  <2> QED
    BY <2>3, <2>4
<1>4. CASE ~ Absolute
  <2>1. w[x] \in Nat /\ b = c + w[x]
    BY <1>1, <1>4
  <2> HIDE DEF w
  <2>2. CellSum(Weights(q, w)) = CellSum(Weights(Tail(q), w)) + w[x]
    BY <1>1, SumTail
  <2>3. CellSum(Weights(Tail(q), w)) \in Nat
    BY <1>1, <1>2, WeightsType
  <2>4. z = c + CellSum(Weights(q, w))
    BY <1>4 DEF Paid, w
  <2>5. z = b + CellSum(Weights(Tail(q), w))
    BY <2>1, <2>2, <2>3, <2>4
  <2> QED
    BY <1>4, <2>5 DEF Paid, w
<1> QED
  BY <1>3, <1>4

\* The counters of a hop, and what a hop depends on.
LEMMA BackLink ==
  ASSUME NEW M, NEW Q, NEW W, SystemOK(M, Q, W), NEW u \in Switch, NEW s \in Switch, NEW d \in Host, IsHop(u, s, d)
  PROVE  /\ <<s, u>> \in Wire /\ W[<<s, u>>] \in Seq(Frame) /\ M[u].rcvAck[d] \in Nat
         /\ M[s].lstAck[u][d] \in Nat /\ M[s].nxtAck[u][d] \in Nat /\ M[s].rcvData[u][d] \in Nat
         /\ Absolute => M[u].rcvAck[d] <= M[s].lstAck[u][d]
<1>1. <<u, s>> \in Wire /\ u \in Upstream(s) /\ NextHop[u][d] = s
  BY HopIs DEF IsHop
<1>2. M[s] \in MmuType(s) /\ M[u] \in MmuType(u) /\ Pair(<<u, s>>, M[u], M[s])
  <2>1. Pair(<<u, s>>, M[<<u, s>>[1]], M[<<u, s>>[2]])
    BY <1>1 DEF SystemOK
  <2> QED
    BY <2>1 DEF SystemOK, StateOK
<1>3. M[u].rcvAck[d] \in Nat
  BY <1>2 DEF MmuType, Counters
<1>4. M[s].lstAck[u][d] \in Nat /\ M[s].nxtAck[u][d] \in Nat /\ M[s].rcvData[u][d] \in Nat
  BY <1>1, <1>2, CountersOf
<1>5. <<s, u>> \in Link
  BY <1>1 DEF Link, Routed
<1>6. <<s, u>> \in Wire
  BY <1>5 DEF Wire
<1>7. Absolute => M[u].rcvAck[d] <= M[s].lstAck[u][d]
  BY <1>1, <1>2 DEF Pair
<1> QED
  BY <1>3, <1>4, <1>6, <1>7 DEF SystemOK

LEMMA HeldType ==
  ASSUME settings \in Configuration, NEW M, NEW Q, NEW W, SystemOK(M, Q, W), NEW s \in Switch
  PROVE  /\ At(M, Q, s) \in AtWork(s) /\ Placed(s, M[s])
         /\ \A d \in Host : \A u : HeldBytes(s, u, d, M, Q) \in Nat
         /\ \A d \in Host : SentBytes(s, d, M, Q) \in Int
<1>1. M[s] \in MmuType(s) /\ Q \in [Link -> Seq(Packet)] /\ Placed(s, M[s])
  BY DEF SystemOK, StateOK, VoqsGood, VoqsOK
<1>2. At(M, Q, s) \in AtWork(s) /\ At(M, Q, s).m = M[s] /\ At(M, Q, s).q = Q
  BY <1>1 DEF At, AtWork
<1>3. ASSUME NEW d \in Host, NEW U
      PROVE  Total(s, At(M, Q, s), d, U) \in Nat /\ Bytes(Q[PortTo(s, d)], d, U) \in Nat
  <2>1. Q[PortTo(s, d)] \in Seq(Frame)
    <3>1. PortTo(s, d) \in Link
      BY PortIn DEF PortTo
    <3> QED
      BY <1>1, <3>1, PacketsAreFrames
  <2>2. Bytes(Q[PortTo(s, d)], d, U) \in Nat /\ WaitingBytes(M[s], d, U) \in Nat
    BY <1>1, <2>1, BytesAre, WaitingIs
  <2> QED
    BY <1>2, <2>2 DEF Total
<1>4. ASSUME NEW d \in Host PROVE SentBytes(s, d, M, Q) \in Int
  <2>1. M[s].nxtData[d] \in Nat
    BY <1>1 DEF MmuType, Counters
  <2>2. Bytes(Q[PortTo(s, d)], d, Node) \in Nat
    BY <1>3
  <2> QED
    BY <2>1, <2>2 DEF SentBytes
<1> QED
  BY <1>1, <1>2, <1>3, <1>4 DEF HeldBytes

LEMMA SideElsewhere ==
  ASSUME NEW z, NEW M, NEW Q, NEW N, NEW P, Elsewhere(z, M, Q, N, P), NEW u \in Switch, u # z, NEW d \in Host
  PROVE  SideSame(u, d, M, Q, N, P)
<1>1. PortTo(u, d) \in Link /\ PortTo(u, d)[1] = u
  BY PortIn DEF PortTo
<1>2. N[u] = M[u] /\ P[PortTo(u, d)] = Q[PortTo(u, d)]
  BY <1>1 DEF Elsewhere
<1> QED
  BY <1>2 DEF SideSame, SentBytes

LEMMA StoreElsewhere ==
  ASSUME NEW z, NEW M, NEW Q, NEW N, NEW P, Elsewhere(z, M, Q, N, P), NEW s \in Switch, s # z, NEW u, NEW d \in Host
  PROVE  StoreSame(s, u, d, M, Q, N, P) /\ NotedSame(s, u, d, M, N)
<1>1. PortTo(s, d) \in Link /\ PortTo(s, d)[1] = s
  BY PortIn DEF PortTo
<1>2. N[s] = M[s] /\ P[PortTo(s, d)] = Q[PortTo(s, d)]
  BY <1>1 DEF Elsewhere
<1>3. HeldBytes(s, u, d, N, P) = HeldBytes(s, u, d, M, Q)
  BY <1>2 DEF HeldBytes, Total, At
<1>4. KeptAt(s, d, InKey(u, d), M, Q, N, P)
  BY LinedElsewhere DEF KeptAt
<1> QED
  BY <1>2, <1>3, <1>4 DEF StoreSame, NotedSame

LEMMA HopBytesKept ==
  ASSUME NEW M, NEW Q, NEW W, SystemOK(M, Q, W), NEW u \in Switch, NEW s \in Switch, NEW d \in Host, IsHop(u, s, d),
         HopBytes(u, s, d, M, Q, W), NEW N, NEW P, NEW X,
         SideSame(u, d, M, Q, N, P), StoreSame(s, u, d, M, Q, N, P), NotedSame(s, u, d, M, N),
         Bytes(X[<<u, s>>], d, Node) = Bytes(W[<<u, s>>], d, Node)
  PROVE  HopBytes(u, s, d, N, P, X)
<1>1. M[s].nxtAck[u][d] \in Nat /\ M[s].rcvData[u][d] \in Nat
  BY BackLink
<1>2. /\ SentBytes(u, d, N, P) = SentBytes(u, d, M, Q) /\ HeldBytes(s, u, d, N, P) = HeldBytes(s, u, d, M, Q)
      /\ N[s].nxtAck[u][d] = M[s].nxtAck[u][d] /\ N[s].rcvData[u][d] = M[s].rcvData[u][d]
  BY DEF SideSame, StoreSame, NotedSame
<1>3. LinedAt(s, d, InKey(u, d), At(M, Q, s), M[s].nxtAck[u][d], M[s].rcvData[u][d])
        => LinedAt(s, d, InKey(u, d), At(N, P, s), M[s].nxtAck[u][d], M[s].rcvData[u][d])
  BY <1>1 DEF StoreSame, KeptAt
<1> QED
  BY <1>2, <1>3 DEF HopBytes

LEMMA HopStays ==
  ASSUME NEW M, NEW Q, NEW W, SystemOK(M, Q, W), NEW z \in Switch, NEW N, NEW P, StoresKept(z, M, Q, N, P),
         NEW u \in Switch, NEW s \in Switch, NEW d \in Host, IsHop(u, s, d), HopBytes(u, s, d, M, Q, W),
         s = z => NotedSame(s, u, d, M, N),
         NEW X, Bytes(X[<<u, s>>], d, Node) = Bytes(W[<<u, s>>], d, Node)
  PROVE  HopBytes(u, s, d, N, P, X)
<1>1. SideSame(u, d, M, Q, N, P)
  <2>1. CASE u = z
    BY <2>1 DEF StoresKept, IsHop
  <2>2. CASE u # z
    BY <2>2, SideElsewhere DEF StoresKept
  <2> QED
    BY <2>1, <2>2
<1>2. StoreSame(s, u, d, M, Q, N, P) /\ NotedSame(s, u, d, M, N)
  <2>1. CASE s = z
    <3>1. u \in Upstream(s)
      BY HopIs
    <3> QED
      BY <2>1, <3>1 DEF StoresKept
  <2>2. CASE s # z
    BY <2>2, StoreElsewhere DEF StoresKept
  <2> QED
    BY <2>1, <2>2
<1> QED
  BY <1>1, <1>2, HopBytesKept

LEMMA SameStore ==
  ASSUME NEW M, NEW Q, NEW s, NEW st, Shows(s, st, M, Q), NEW d
  PROVE  /\ \A u : Total(s, st, d, {u}) = HeldBytes(s, u, d, M, Q)
         /\ st.m.nxtData[d] - Bytes(st.q[PortTo(s, d)], d, Node) = SentBytes(s, d, M, Q)
         /\ \A k, lo, hi : LinedAt(s, d, k, st, lo, hi) <=> LinedAt(s, d, k, At(M, Q, s), lo, hi)
<1>1. At(M, Q, s).m = M[s] /\ At(M, Q, s).q = Q
  BY DEF At
<1> USE DEF Shows
<1>2. Voqs(st.m) = Voqs(M[s]) /\ \A v : Voq(st.m, v) = Voq(M[s], v) /\ VoqAt(st.m, v) = VoqAt(M[s], v)
  BY DEF Voqs, Voq, VoqAt
<1>3. \A u : Total(s, st, d, {u}) = HeldBytes(s, u, d, M, Q)
  BY <1>1, <1>2 DEF Total, HeldBytes, WaitingBytes
<1>4. \A k, lo, hi : LinedAt(s, d, k, st, lo, hi) <=> LinedAt(s, d, k, At(M, Q, s), lo, hi)
  BY <1>1, <1>2 DEF LinedAt
<1> QED
  BY <1>3, <1>4 DEF SentBytes

LEMMA SameHeld ==
  ASSUME NEW M, NEW Q, NEW s, NEW st, Shows(s, st, M, Q), NEW d, NEW u
  PROVE  Total(s, st, d, {u}) = HeldBytes(s, u, d, M, Q)
<1>1. At(M, Q, s).m = M[s] /\ At(M, Q, s).q = Q
  BY DEF At
<1>2. Voqs(st.m) = Voqs(M[s]) /\ \A v : Voq(st.m, v) = Voq(M[s], v)
  BY DEF Voqs, Voq, Shows
<1> QED
  BY <1>1, <1>2 DEF Shows, Total, HeldBytes, WaitingBytes

LEMMA SameSent ==
  ASSUME NEW M, NEW Q, NEW s, NEW st, Shows(s, st, M, Q), NEW d
  PROVE  st.m.nxtData[d] - Bytes(st.q[PortTo(s, d)], d, Node) = SentBytes(s, d, M, Q)
BY SameStore

LEMMA SameLined ==
  ASSUME NEW M, NEW Q, NEW s, NEW st, Shows(s, st, M, Q), NEW d, NEW k, NEW lo, NEW hi
  PROVE  LinedAt(s, d, k, st, lo, hi) <=> LinedAt(s, d, k, At(M, Q, s), lo, hi)
BY SameStore

\* Packets that waited go on: a switch still holds what it held.
LEMMA MoveStores ==
  ASSUME settings \in Configuration, NEW M, NEW Q, NEW W, SystemOK(M, Q, W), NEW s \in Switch,
         NEW st, Shows(s, st, M, Q), NEW r, Moved(s, st, r), NEW N, NEW P, Becomes(s, M, r, N, P)
  PROVE  StoresKept(s, M, Q, N, P) /\ N[s] = r.m
<1>0. N = [M EXCEPT ![s] = r.m] /\ P = r.q
  BY DEF Becomes
<1>1. DOMAIN M = Switch /\ N = [M EXCEPT ![s] = r.m] /\ P = r.q
  BY <1>0 DEF SystemOK
<1>2. N[s] = r.m /\ Shows(s, r, N, P)
  BY <1>1 DEF Shows
<1>3. Elsewhere(s, M, Q, N, P)
  <2>1. \A t \in Switch : t # s => N[t] = M[t]
    BY <1>1
  <2>2. \A l \in Link : l[1] # s => P[l] = Q[l]
    BY <1>0 DEF Moved, Shows
  <2> QED
    BY <2>1, <2>2, Zenon DEF Elsewhere
<1>4. ASSUME NEW d \in Host PROVE SideSame(s, d, M, Q, N, P)
  <2>1. st.m.nxtData[d] - Bytes(st.q[PortTo(s, d)], d, Node) = SentBytes(s, d, M, Q)
    BY SameSent
  <2>2. r.m.nxtData[d] - Bytes(r.q[PortTo(s, d)], d, Node) = SentBytes(s, d, N, P)
    BY <1>2, SameSent
  <2> QED
    BY <2>1, <2>2 DEF SideSame, Moved
<1>5. ASSUME NEW u \in Upstream(s), NEW d \in Host PROVE StoreSame(s, u, d, M, Q, N, P)
  <2>0. Total(s, st, d, {u}) = HeldBytes(s, u, d, M, Q)
    BY SameHeld
  <2>1. Total(s, r, d, {u}) = HeldBytes(s, u, d, N, P)
    BY <1>2, SameHeld
  <2>2. HeldBytes(s, u, d, N, P) = HeldBytes(s, u, d, M, Q)
    BY <2>0, <2>1 DEF Moved
  <2> DEFINE k == InKey(u, d)
  <2>3. KeyFor(k, d)
    BY InKeyOK
  <2> HIDE DEF k
  <2>4. ASSUME NEW lo \in Int, NEW hi \in Int, LinedAt(s, d, k, At(M, Q, s), lo, hi) PROVE LinedAt(s, d, k, At(N, P, s), lo, hi)
    <3>1. LinedAt(s, d, k, st, lo, hi)
      BY <2>4, SameLined
    <3>2. LinedAt(s, d, k, r, lo, hi)
      BY <2>3, <3>1 DEF Moved
    <3> QED
      BY <1>2, <3>2, SameLined
  <2> QED
    BY <2>2, <2>4 DEF StoreSame, KeptAt, k
<1> QED
  BY <1>2, <1>3, <1>4, <1>5 DEF StoresKept

LEMMA JoinStores ==
  ASSUME settings \in Configuration, NEW M, NEW Q, NEW W, SystemOK(M, Q, W), NEW s \in Switch,
         NEW st, Shows(s, st, M, Q),
         NEW q \in Packet, NEW r, Joined(s, st, q, r), NEW N, NEW P, Becomes(s, M, r, N, P)
  PROVE  Entered(s, q, M, Q, N, P) /\ N[s] = r.m
<1>0. N = [M EXCEPT ![s] = r.m] /\ P = r.q
  BY DEF Becomes
<1>1. DOMAIN M = Switch /\ N = [M EXCEPT ![s] = r.m] /\ P = r.q
  BY <1>0 DEF SystemOK
<1>2. N[s] = r.m /\ Shows(s, r, N, P)
  BY <1>1 DEF Shows
<1>3. Elsewhere(s, M, Q, N, P)
  <2>1. \A t \in Switch : t # s => N[t] = M[t]
    BY <1>1
  <2>2. \A l \in Link : l[1] # s => P[l] = Q[l]
    BY <1>0 DEF Joined, Shows
  <2> QED
    BY <2>1, <2>2, Zenon DEF Elsewhere
<1>4. ASSUME NEW d \in Host, ~ ShouldIgnore(s, d) PROVE SideSame(s, d, M, Q, N, P)
  <2>1. st.m.nxtData[d] - Bytes(st.q[PortTo(s, d)], d, Node) = SentBytes(s, d, M, Q)
    BY SameSent
  <2>2. r.m.nxtData[d] - Bytes(r.q[PortTo(s, d)], d, Node) = SentBytes(s, d, N, P)
    BY <1>2, SameSent
  <2> QED
    BY <1>4, <2>1, <2>2 DEF SideSame, Joined
<1>5. ASSUME NEW u \in Upstream(s), NEW d \in Host
      PROVE  IF q.dst = d /\ q.in = u
             THEN /\ HeldBytes(s, u, d, N, P) = HeldBytes(s, u, d, M, Q) + q.size
                  /\ \A lo, c \in Int : LinedAt(s, d, InKey(u, d), At(M, Q, s), lo, c) /\ c <= q.ipsn - q.size
                                          => LinedAt(s, d, InKey(u, d), At(N, P, s), lo, q.ipsn)
             ELSE StoreSame(s, u, d, M, Q, N, P)
  <2> DEFINE k == InKey(u, d)
             b == SizeOf(q, d, {u})
  <2>1. /\ KeyFor(k, d) /\ (q \in k.mem <=> q.dst = d /\ q.in = u) /\ k.lo[q] = q.ipsn - q.size /\ k.hi[q] = q.ipsn
        /\ q.ipsn \in Nat /\ q.size \in Nat /\ 0 < q.size
    <3>1. KeyFor(k, d)
      BY InKeyOK, Zenon
    <3>2. /\ q \in k.mem <=> q.dst = d /\ q.in = u
          /\ k.lo[q] = q.ipsn - q.size /\ k.hi[q] = q.ipsn
      BY DEF InKey
    <3>3. q.ipsn \in Nat /\ q.size \in Nat /\ 0 < q.size
      BY InKeyOK
    <3> QED
      BY <3>1, <3>2, <3>3
  <2>2. b = IF q.dst = d /\ q.in = u THEN q.size ELSE 0
    BY DEF SizeOf, IsFor, Packet
  <2>0. Total(s, st, d, {u}) = HeldBytes(s, u, d, M, Q)
    BY SameHeld
  <2>3. Total(s, r, d, {u}) = HeldBytes(s, u, d, N, P)
    BY <1>2, SameHeld
  <2>4. HeldBytes(s, u, d, N, P) = HeldBytes(s, u, d, M, Q) + b /\ HeldBytes(s, u, d, M, Q) \in Nat
    BY <2>0, <2>3, HeldType DEF Joined
  <2> HIDE DEF k, b
  <2>5. ASSUME NEW lo \in Int, NEW c \in Int, NEW hi \in Int, LinedAt(s, d, k, At(M, Q, s), lo, c), c <= hi,
               q \in k.mem => c <= k.lo[q] /\ k.hi[q] <= hi
        PROVE  LinedAt(s, d, k, At(N, P, s), lo, hi)
    <3>1. LinedAt(s, d, k, st, lo, c)
      BY <2>5, SameLined
    <3>2. LinedAt(s, d, k, r, lo, hi)
      BY <2>1, <2>5, <3>1 DEF Joined
    <3> QED
      BY <1>2, <3>2, SameLined
  <2>6. CASE q.dst = d /\ q.in = u
    <3>1. ASSUME NEW lo \in Int, NEW c \in Int, LinedAt(s, d, k, At(M, Q, s), lo, c), c <= q.ipsn - q.size
          PROVE  LinedAt(s, d, k, At(N, P, s), lo, q.ipsn)
      <4>1. c <= q.ipsn /\ q.ipsn \in Int
        BY <2>1, <3>1
      <4>2. c <= k.lo[q] /\ k.hi[q] <= q.ipsn
        BY <2>1, <3>1
      <4> QED
        BY <2>5, <3>1, <4>1, <4>2
    <3> QED
      BY <2>2, <2>4, <2>6, <3>1 DEF k
  <2>7. CASE ~ (q.dst = d /\ q.in = u)
    <3>1. \A lo, hi \in Int : LinedAt(s, d, k, At(M, Q, s), lo, hi) => LinedAt(s, d, k, At(N, P, s), lo, hi)
      <4> SUFFICES ASSUME NEW lo \in Int, NEW hi \in Int, LinedAt(s, d, k, At(M, Q, s), lo, hi)
                   PROVE  LinedAt(s, d, k, At(N, P, s), lo, hi)
        OBVIOUS
      <4>1. hi <= hi /\ q \notin k.mem
        BY <2>1, <2>7
      <4> QED
        BY <2>5, <4>1
    <3>2. HeldBytes(s, u, d, N, P) = HeldBytes(s, u, d, M, Q)
      BY <2>2, <2>4, <2>7
    <3> QED
      BY <2>7, <3>1, <3>2 DEF StoreSame, KeptAt, k
  <2> QED
    BY <2>6, <2>7
<1> QED
  BY <1>2, <1>3, <1>4, <1>5 DEF Entered

\* In absolute mode the PSN a packet carries is what the next hop has received
\* plus the packet.
LEMMA NextPsn ==
  ASSUME settings \in Configuration, NEW M, NEW Q, NEW W, SystemOK(M, Q, W), NEW u \in Switch, NEW s \in Switch, NEW d \in Host,
         IsHop(u, s, d), Absolute, HopOK(u, s, d, M, Q, W), HopBytes(u, s, d, M, Q, W),
         W[<<u, s>>] # << >>, NEW p \in Packet, p = Head(W[<<u, s>>]), p.dst = d
  PROVE  p.psn = M[s].rcvData[u][d] + p.size
<1> DEFINE q == Q[<<u, s>>]
           w == W[<<u, s>>]
           a == M[s].rcvData[u][d]
           b == M[u].nxtData[d]
           h == HeldBytes(s, u, d, M, Q)
           z == M[s].nxtAck[u][d]
           k == PsnKey(d)
           x == p.psn
           y == p.size
<1>1. /\ q \in Seq(Frame) /\ w \in Seq(Frame) /\ a \in Nat /\ b \in Nat /\ PortTo(u, d) = <<u, s>>
  BY HopIs, PacketsAreFrames
<1>2. h \in Nat /\ z \in Nat
  BY BackLink, HeldType
<1>3. b - Bytes(q, d, Node) = z + h + Bytes(w, d, Node) /\ a = z + h
  BY <1>1 DEF HopBytes, SentBytes
<1>4. PICK c \in Int : /\ a <= c /\ c <= b /\ Numbered(q, k, c, b) /\ Numbered(w, k, a, c)
  BY <1>1 DEF HopOK, PsnPort, At
<1>5. KeyOK(k) /\ p \in k.mem /\ k.hi[p] = x /\ k.lo[p] = x - y
  BY PsnKeyOK
<1>6. x \in Nat /\ y \in Nat /\ 0 < y /\ SizeOf(p, d, Node) = y
  BY NodeSize DEF Packet, Positive
<1>7. Fits(k, d, Node)
  BY PsnFits
<1>8. w # << >> /\ p = Head(w) /\ Tail(w) \in Seq(Frame)
  BY <1>1
<1> HIDE DEF q, w, a, b, h, z, k, x, y
<1>9. a <= x - y /\ x <= c /\ Numbered(Tail(w), k, x, c)
  <2>1. a \in Int
    BY <1>1
  <2>2. /\ Numbered(Tail(w), k, a, c)
        /\ Head(w) \in k.mem => /\ a <= k.lo[Head(w)] /\ k.hi[Head(w)] <= c
                                /\ Numbered(Tail(w), k, k.hi[Head(w)], c)
    BY <1>1, <1>4, <1>5, <1>8, <2>1, NumberedTail, Zenon
  <2> QED
    BY <1>5, <1>8, <2>2, Zenon
<1>10. Bytes(Tail(w), d, Node) <= c - x /\ Bytes(Tail(w), d, Node) \in Nat
  <2>1. x \in Int /\ x <= c
    BY <1>6, <1>9
  <2>2. Bytes(Tail(w), d, Node) <= c - x
    BY <1>5, <1>7, <1>8, <1>9, <2>1, Packed
  <2> QED
    BY <1>8, <2>2, BytesAre
<1>11. Bytes(q, d, Node) <= b - c /\ Bytes(q, d, Node) \in Nat
  BY <1>1, <1>4, <1>5, <1>7, Packed, BytesAre
<1>12. Bytes(w, d, Node) = Bytes(Tail(w), d, Node) + y
  BY <1>1, <1>6, <1>8, BytesTail
<1>13. x = a + y
  BY <1>1, <1>2, <1>3, <1>4, <1>6, <1>9, <1>10, <1>11, <1>12
<1> QED
  BY <1>13 DEF a, x, y

LEMMA Unholds ==
  ASSUME settings \in Configuration, NEW M, NEW Q, NEW W, SystemOK(M, Q, W), NEW s \in Switch, NEW p \in Packet,
         NEW l, l = PortTo(s, p.dst), Q[l] # << >>, p = Head(Q[l]),
         NEW N, N[s].groups = M[s].groups, NEW P, P = [Q EXCEPT ![l] = Tail(Q[l])], NEW u, NEW d \in Host
  PROVE  Unheld(s, u, d, p, M, Q, N, P)
<1>1. l \in Link /\ p.dst \in Host /\ Q \in [Link -> Seq(Packet)] /\ PortTo(s, d) \in Link /\ M[s] \in MmuType(s)
  BY PortIn DEF Packet, SystemOK, StateOK
<1> DEFINE m == M[s]
           n == N[s]
           g == PortTo(s, d)
<1>2. WaitingBytes(n, d, {u}) = WaitingBytes(m, d, {u}) /\ WaitingBytes(m, d, {u}) \in Nat
  <2>1. Voqs(n) = Voqs(m) /\ \A v : Voq(n, v) = Voq(m, v)
    BY DEF Voqs, Voq
  <2>2. WaitingBytes(n, d, {u}) = WaitingBytes(m, d, {u})
    BY <2>1 DEF WaitingBytes
  <2>3. m \in MmuType(s)
    BY <1>1
  <2> HIDE DEF m, n
  <2>4. WaitingBytes(m, d, {u}) \in Nat
    BY <2>3, WaitingIs
  <2> QED
    BY <2>2, <2>4
<1>3. Bytes(Q[g], d, {u}) = Bytes(P[g], d, {u}) + SizeOf(p, d, {u}) /\ Bytes(P[g], d, {u}) \in Nat /\ SizeOf(p, d, {u}) \in Nat
  <2>1. Q[g] \in Seq(Frame) /\ P[g] \in Seq(Frame)
    <3>1. P[g] = IF g = l THEN Tail(Q[g]) ELSE Q[g]
      BY <1>1
    <3>2. Q[g] \in Seq(Packet) /\ (g = l => Q[g] # << >>)
      BY <1>1
    <3> DEFINE y == Q[g]
    <3>3. y \in Seq(Packet) /\ (g = l => y # << >>) /\ P[g] = IF g = l THEN Tail(y) ELSE y
      BY <3>1, <3>2
    <3> HIDE DEF g, y
    <3>4. g = l => Tail(y) \in Seq(Packet)
      BY <3>3, TailLeft
    <3>5. P[g] \in Seq(Packet)
      BY <3>3, <3>4, Zenon
    <3> QED
      BY <3>3, <3>5, PacketsAreFrames DEF y
  <2>2. SizeOf(p, d, {u}) \in Nat
    BY DEF SizeOf, Packet, Positive
  <2>3. CASE g = l
    <3>1. P[g] = Tail(Q[g]) /\ p = Head(Q[g]) /\ Q[g] # << >>
      BY <1>1, <2>3
    <3> HIDE DEF g
    <3>2. Bytes(P[g], d, {u}) \in Nat
      BY <2>1, BytesAre
    <3>3. Bytes(Q[g], d, {u}) = Bytes(Tail(Q[g]), d, {u}) + SizeOf(p, d, {u})
      BY <2>1, <3>1, BytesTail
    <3> QED
      BY <2>2, <3>1, <3>2, <3>3
  <2>4. CASE g # l
    <3>1. P[g] = Q[g]
      BY <1>1, <2>4
    <3>2. SizeOf(p, d, {u}) = 0
      BY <2>4 DEF SizeOf, IsFor
    <3>3. Bytes(P[g], d, {u}) \in Nat
      BY <2>1, BytesAre
    <3> QED
      BY <3>1, <3>2, <3>3
  <2> QED
    BY <2>3, <2>4
<1>4. HeldBytes(s, u, d, M, Q) = HeldBytes(s, u, d, N, P) + SizeOf(p, d, {u})
  <2>1. HeldBytes(s, u, d, M, Q) = WaitingBytes(m, d, {u}) + Bytes(Q[g], d, {u})
    BY DEF HeldBytes, Total, At
  <2>2. HeldBytes(s, u, d, N, P) = WaitingBytes(n, d, {u}) + Bytes(P[g], d, {u})
    BY DEF HeldBytes, Total, At
  <2> QED
    BY <1>2, <1>3, <2>1, <2>2
<1>5. ASSUME NEW lo \in Int, NEW hi \in Int, LinedAt(s, d, InKey(u, d), At(M, Q, s), lo, hi)
      PROVE  LinedAfter(s, l, p, d, InKey(u, d), lo, hi, N, P)
  <2> DEFINE k == InKey(u, d)
  <2>1. KeyOK(k) /\ LinedAt(s, d, k, At(M, Q, s), lo, hi)
    BY <1>5, InKeyOK
  <2> HIDE DEF k
  <2>2. LinedAfter(s, l, p, d, k, lo, hi, N, P)
    BY <1>1, <2>1, LinedTail
  <2> QED
    BY <2>2 DEF k
<1> QED
  BY <1>4, <1>5 DEF Unheld

\* In absolute mode the next packet that came from u has the PSN up to which s
\* has passed on, plus the packet.
LEMMA NextIn ==
  ASSUME settings \in Configuration, Absolute, NEW M, NEW Q, NEW W, SystemOK(M, Q, W),
         NEW u \in Switch, NEW s \in Switch, NEW d \in Host, IsHop(u, s, d), HopBytes(u, s, d, M, Q, W),
         NEW N, NEW P, NEW X, SystemOK(N, P, X), NEW p \in Packet, p.dst = d, p.in = u, Unheld(s, u, d, p, M, Q, N, P)
  PROVE  /\ p.ipsn = M[s].nxtAck[u][d] + p.size
         /\ LinedAt(s, d, InKey(u, d), At(N, P, s), p.ipsn, M[s].rcvData[u][d])
<1> DEFINE k == InKey(u, d)
           a == M[s].nxtAck[u][d]
           b == M[s].rcvData[u][d]
           h == HeldBytes(s, u, d, M, Q)
           e == HeldBytes(s, u, d, N, P)
           x == p.ipsn
           y == p.size
<1>1. a \in Nat /\ b \in Nat /\ h \in Nat /\ e \in Nat
  BY BackLink, HeldType
<1>2. b = a + h /\ LinedAt(s, d, k, At(M, Q, s), a, b)
  BY DEF HopBytes
<1>3. KeyOK(k) /\ Fits(k, d, {u})
  BY InKeyOK
<1>4. x \in Nat /\ y \in Nat /\ 0 < y /\ p \in k.mem /\ k.lo[p] = x - y /\ k.hi[p] = x
  BY DEF InKey, Packet, Positive
<1>5. h = e + y
  BY DEF Unheld, SizeOf, IsFor, Packet
<1>6. LinedAfter(s, PortTo(s, d), p, d, k, a, b, N, P)
  BY <1>1, <1>2 DEF Unheld
<1>7. At(N, P, s) \in AtWork(s) /\ Placed(s, At(N, P, s).m) /\ e = Total(s, At(N, P, s), d, {u})
  BY HeldType DEF At, HeldBytes
<1> HIDE DEF k, a, b, h, e, x, y
<1>8. a <= x - y /\ LinedAt(s, d, k, At(N, P, s), x, b)
  BY <1>4, <1>6 DEF LinedAfter
<1>9. e <= b - x
  <2>1. x \in Int /\ b \in Int
    BY <1>1, <1>4
  <2> QED
    BY <1>3, <1>7, <1>8, <2>1, HeldPacked
<1>10. x = a + y
  BY <1>1, <1>2, <1>4, <1>5, <1>8, <1>9
<1> QED
  BY <1>8, <1>10 DEF a, b, x, y, k

LEMMA BackWire ==
  ASSUME NEW u \in Switch, NEW s \in Switch, NEW d \in Host, IsHop(u, s, d)
  PROVE  <<s, u>> \in Wire
<1>1. NextHop[u][d] = s
  BY DEF IsHop
<1>2. <<s, u>> \in Link
  BY <1>1 DEF Link, Routed
<1> QED
  BY <1>2 DEF Wire

LEMMA BalanceKept ==
  ASSUME NEW M, NEW Q, NEW W, SystemOK(M, Q, W), BalanceOK(M, Q, W), NEW z \in Switch, NEW N, NEW P, StoresKept(z, M, Q, N, P),
         N[z].nxtAck = M[z].nxtAck, N[z].rcvData = M[z].rcvData, NEW X, SameBytes(W, X), StillPaid(M, W, N, X)
  PROVE  BalanceOK(N, P, X)
<1> SUFFICES ASSUME ~ SynTimer, NEW u \in Switch, NEW s \in Switch, NEW d \in Host, IsHop(u, s, d)
             PROVE  HopBytes(u, s, d, N, P, X) /\ HopPaid(u, s, d, N, X)
  BY DEF BalanceOK
<1>1. HopBytes(u, s, d, M, Q, W) /\ HopPaid(u, s, d, M, W)
  BY DEF BalanceOK
<1>2. s = z => NotedSame(s, u, d, M, N)
  BY DEF NotedSame
<1>3. Bytes(X[<<u, s>>], d, Node) = Bytes(W[<<u, s>>], d, Node)
  BY HopIs DEF SameBytes
<1>4. HopBytes(u, s, d, N, P, X)
  BY <1>1, <1>2, <1>3, HopStays
<1> QED
  BY <1>1, <1>4 DEF StillPaid

LEMMA NothingPaid ==
  ASSUME NEW M, NEW N, CountersPaid(M, N), NEW W
  PROVE  StillPaid(M, W, N, W)
BY DEF CountersPaid, StillPaid, HopPaid

LEMMA DataPaid ==
  ASSUME NEW M, NEW N, CountersPaid(M, N), NEW W \in [Wire -> Seq(Frame)], NEW l \in Wire, W[l] # << >>, Head(W[l]).kind # "ACK"
  PROVE  StillPaid(M, W, N, Handled(W, l))
<1> SUFFICES ASSUME NEW u \in Switch, NEW s \in Switch, NEW d \in Host, IsHop(u, s, d), HopPaid(u, s, d, M, W)
             PROVE  HopPaid(u, s, d, N, Handled(W, l))
  BY DEF StillPaid
<1> DEFINE h == <<s, u>>
           c == M[u].rcvAck[d]
           z == M[s].lstAck[u][d]
<1>1. Paid(W[h], d, c, z) /\ N[u].rcvAck[d] = c /\ N[s].lstAck[u][d] = z
  BY DEF HopPaid, CountersPaid
<1> HIDE DEF h, c, z
<1>2. Paid(Handled(W, l)[h], d, c, z)
  <2>1. CASE h = l
    <3>1. Handled(W, l)[h] = Tail(W[l]) /\ W[l] \in Seq(Frame)
      BY <2>1 DEF Handled
    <3> DEFINE q == W[l]
    <3>2. q \in Seq(Frame) /\ q # << >> /\ Head(q).kind # "ACK" /\ Paid(q, d, c, z)
      BY <1>1, <2>1, <3>1
    <3> HIDE DEF q
    <3>3. Paid(Tail(q), d, c, z)
      BY <3>2, PaidTail
    <3> QED
      BY <3>1, <3>3 DEF q
  <2>2. CASE h # l
    <3>0. h \in Wire
      BY BackWire DEF h
    <3>1. Handled(W, l)[h] = W[h]
      BY <2>2, <3>0, Zenon DEF Handled
    <3> QED
      BY <1>1, <3>1
  <2> QED
    BY <2>1, <2>2
<1> QED
  BY <1>1, <1>2 DEF HopPaid, h

LEMMA PutPaid ==
  ASSUME NEW M, NEW W \in [Wire -> Seq(Frame)], NEW l \in Wire, NEW x \in Frame, x.kind # "ACK"
  PROVE  StillPaid(M, W, M, [W EXCEPT ![l] = Append(W[l], x)])
<1> DEFINE X == [W EXCEPT ![l] = Append(W[l], x)]
<1>1. X[l] = Append(W[l], x) /\ \A h \in Wire : h # l => X[h] = W[h]
  <2>1. X[l] = Append(W[l], x)
    BY Zenon
  <2>2. ASSUME NEW h \in Wire, h # l PROVE X[h] = W[h]
    BY <2>2, Zenon
  <2> QED
    BY <2>1, <2>2
<1> HIDE DEF X
<1>2. ASSUME NEW d, NEW c, NEW z, Paid(W[l], d, c, z) PROVE Paid(X[l], d, c, z)
  <2> DEFINE q == W[l]
  <2>1. q \in Seq(Frame) /\ Paid(q, d, c, z) /\ X[l] = Append(q, x)
    BY <1>1, <1>2
  <2> HIDE DEF q
  <2>2. Paid(Append(q, x), d, c, z)
    BY <2>1, PaidPut
  <2> QED
    BY <2>1, <2>2
<1> SUFFICES ASSUME NEW u \in Switch, NEW s \in Switch, NEW d \in Host, IsHop(u, s, d), HopPaid(u, s, d, M, W)
             PROVE  HopPaid(u, s, d, M, X)
  BY DEF StillPaid, X
<1> DEFINE h == <<s, u>>
<1>3. Paid(W[h], d, M[u].rcvAck[d], M[s].lstAck[u][d]) /\ h \in Wire
  BY BackWire DEF HopPaid
<1> HIDE DEF h
<1>4. Paid(X[h], d, M[u].rcvAck[d], M[s].lstAck[u][d])
  BY <1>1, <1>2, <1>3, Zenon
<1> QED
  BY <1>4 DEF HopPaid, h

\* Frames without data carry no bytes.
LEMMA NoBytes ==
  ASSUME NEW x, x.kind # "DATA", NEW d, NEW U
  PROVE  SizeOf(x, d, U) = 0
BY DEF SizeOf, IsFor

LEMMA HandledBytes ==
  ASSUME NEW W \in [Wire -> Seq(Frame)], NEW l \in Wire, W[l] # << >>, Head(W[l]).kind # "DATA"
  PROVE  SameBytes(W, Handled(W, l))
<1> SUFFICES ASSUME NEW h \in Wire, NEW d \in Host PROVE Bytes(Handled(W, l)[h], d, Node) = Bytes(W[h], d, Node)
  BY DEF SameBytes
<1>1. CASE h # l
  <2>1. Handled(W, l)[h] = W[h]
    BY <1>1, Zenon DEF Handled
  <2> QED
    BY <2>1
<1>2. CASE h = l
  <2> DEFINE q == W[l]
  <2>1. Handled(W, l)[h] = Tail(q)
    BY <1>2 DEF Handled
  <2>2. q \in Seq(Frame) /\ q # << >> /\ SizeOf(Head(q), d, Node) = 0
    BY NoBytes
  <2> HIDE DEF q
  <2>3. Bytes(q, d, Node) = Bytes(Tail(q), d, Node) + SizeOf(Head(q), d, Node)
    BY <2>2, BytesTail
  <2>4. Tail(q) \in Seq(Frame)
    BY <2>2
  <2>5. Bytes(Tail(q), d, Node) \in Nat
    BY <2>4, BytesAre
  <2> QED
    BY <1>2, <2>1, <2>2, <2>3, <2>5 DEF q
<1> QED
  BY <1>1, <1>2

\* What credits sent back do to a link.
LEMMA AckingOne ==
  ASSUME NEW s, NEW m, NEW r, Acked(s, m, r), Repays(s, m, r), NEW w \in [Wire -> Seq(Frame)], NEW l \in Wire
  PROVE  \/ /\ Acking(s, w, r.acks)[l] = w[l]
            /\ l[1] = s /\ l[2] \in Upstream(s) => \A d \in Host : r.m.lstAck[l[2]][d] = m.lstAck[l[2]][d]
         \/ /\ l[1] = s /\ l[2] \in Upstream(s)
            /\ \E x : Acking(s, w, r.acks)[l] = Append(w[l], x) /\ Repaid(l[2], m, r.m, x)
<1> DEFINE a == r.acks
           u == l[2]
           q == w[l]
<1>1. DOMAIN a \subseteq Upstream(s)
  BY DEF Acked
<1>2. Acking(s, w, a)[l] = IF l[1] = s /\ u \in DOMAIN a THEN q \o a[u] ELSE q
  BY DEF Acking
<1>3. q \in Seq(Frame)
  OBVIOUS
<1>4. u \in Upstream(s) => \/ (u \in DOMAIN a => a[u] = << >>) /\ \A d \in Host : r.m.lstAck[u][d] = m.lstAck[u][d]
                           \/ u \in DOMAIN a /\ \E x : a[u] = <<x>> /\ Repaid(u, m, r.m, x)
  BY Zenon DEF Repays
<1> HIDE DEF a, u, q
<1>5. CASE ~ (l[1] = s /\ u \in Upstream(s))
  BY <1>1, <1>2, <1>5 DEF a, u, q
<1>6. CASE l[1] = s /\ u \in Upstream(s) /\ (u \in DOMAIN a => a[u] = << >>) /\ \A d \in Host : r.m.lstAck[u][d] = m.lstAck[u][d]
  <2>1. Acking(s, w, a)[l] = q
    BY <1>2, <1>3, <1>6
  <2> QED
    BY <1>6, <2>1 DEF a, u, q
<1>7. ASSUME l[1] = s, u \in Upstream(s), u \in DOMAIN a, NEW x, a[u] = <<x>>, Repaid(u, m, r.m, x)
      PROVE  l[1] = s /\ u \in Upstream(s) /\ \E y : Acking(s, w, a)[l] = Append(q, y) /\ Repaid(u, m, r.m, y)
  <2>1. x \in Frame
    BY <1>7 DEF Repaid
  <2>2. q \o <<x>> = Append(q, x)
    BY <1>3, <2>1
  <2>3. Acking(s, w, a)[l] = Append(q, x)
    BY <1>2, <1>7, <2>2
  <2> QED
    BY <1>7, <2>3
<1> QED
  BY <1>4, <1>5, <1>6, <1>7 DEF a, u, q

LEMMA AckingBytes ==
  ASSUME NEW s, NEW m, NEW r, Acked(s, m, r), Repays(s, m, r), NEW w \in [Wire -> Seq(Frame)]
  PROVE  SameBytes(w, Acking(s, w, r.acks))
<1> SUFFICES ASSUME NEW l \in Wire, NEW d \in Host PROVE Bytes(Acking(s, w, r.acks)[l], d, Node) = Bytes(w[l], d, Node)
  BY DEF SameBytes
<1>1. CASE Acking(s, w, r.acks)[l] = w[l]
  BY <1>1
<1>2. ASSUME NEW x, Acking(s, w, r.acks)[l] = Append(w[l], x), Repaid(l[2], m, r.m, x)
      PROVE  Bytes(Acking(s, w, r.acks)[l], d, Node) = Bytes(w[l], d, Node)
  <2> DEFINE q == w[l]
  <2>1. q \in Seq(Frame) /\ x \in Frame /\ SizeOf(x, d, Node) = 0
    BY <1>2, NoBytes DEF Repaid
  <2> HIDE DEF q
  <2>2. Bytes(Append(q, x), d, Node) = Bytes(q, d, Node) + SizeOf(x, d, Node) /\ Bytes(q, d, Node) \in Nat
    BY <2>1, BytesAppend, BytesAre
  <2> QED
    BY <1>2, <2>1, <2>2 DEF q
<1> QED
  BY <1>1, <1>2, AckingOne

LEMMA CreditsPaid ==
  ASSUME NEW M, NEW Q, NEW W, SystemOK(M, Q, W), NEW s \in Switch, NEW r, Acked(s, M[s], r), Repays(s, M[s], r),
         NEW N, N = [M EXCEPT ![s] = r.m], NEW w \in [Wire -> Seq(Frame)]
  PROVE  StillPaid(M, w, N, Acking(s, w, r.acks))
<1> SUFFICES ASSUME NEW u \in Switch, NEW t \in Switch, NEW d \in Host, IsHop(u, t, d), HopPaid(u, t, d, M, w)
             PROVE  HopPaid(u, t, d, N, Acking(s, w, r.acks))
  BY DEF StillPaid
<1> DEFINE h == <<t, u>>
           m == M[s]
           X == Acking(s, w, r.acks)
<1>1. DOMAIN M = Switch /\ h \in Wire /\ u \in Upstream(t) /\ M[u].rcvAck[d] \in Nat /\ h[1] = t /\ h[2] = u
  BY BackLink, HopIs DEF SystemOK
<1>2. N[s] = r.m /\ r.m.rcvAck = m.rcvAck /\ \A y \in Switch : y # s => N[y] = M[y]
  BY <1>1 DEF Acked, Apart
<1>3. N[u].rcvAck = M[u].rcvAck
  BY <1>2
<1>4. Paid(w[h], d, M[u].rcvAck[d], M[t].lstAck[u][d])
  BY DEF HopPaid
<1>5. \/ /\ X[h] = w[h]
         /\ h[1] = s /\ h[2] \in Upstream(s) => \A e \in Host : r.m.lstAck[h[2]][e] = m.lstAck[h[2]][e]
      \/ /\ h[1] = s /\ h[2] \in Upstream(s)
         /\ \E x : X[h] = Append(w[h], x) /\ Repaid(h[2], m, r.m, x)
  <2> HIDE DEF h, m
  <2>1. Acked(s, m, r) /\ Repays(s, m, r) /\ h \in Wire
    BY <1>1 DEF m
  <2> QED
    BY <2>1, AckingOne
<1> HIDE DEF h, m, X
<1>6. CASE X[h] = w[h] /\ (h[1] = s /\ h[2] \in Upstream(s) => \A e \in Host : r.m.lstAck[h[2]][e] = m.lstAck[h[2]][e])
  <2>1. N[t].lstAck[u][d] = M[t].lstAck[u][d]
    <3>1. CASE t = s
      BY <1>1, <1>2, <1>6, <3>1, Zenon DEF m
    <3>2. CASE t # s
      BY <1>2, <3>2
    <3> QED
      BY <3>1, <3>2
  <2> QED
    BY <1>3, <1>4, <1>6, <2>1 DEF HopPaid, h, X
<1>7. ASSUME h[1] = s, NEW x, X[h] = Append(w[h], x), Repaid(h[2], m, r.m, x)
      PROVE  Paid(X[h], d, N[u].rcvAck[d], N[t].lstAck[u][d])
  <2> DEFINE q == w[h]
             c == M[u].rcvAck[d]
             z == M[t].lstAck[u][d]
             y == N[t].lstAck[u][d]
  <2>1. t = s
    BY <1>1, <1>7
  <2>2. N[t] = r.m /\ M[t] = m
    BY <1>2, <2>1 DEF m
  <2>3. q \in Seq(Frame) /\ x \in Frame /\ x.kind = "ACK" /\ c \in Nat /\ Paid(q, d, c, z)
    BY <1>1, <1>4, <1>7 DEF Repaid
  <2>4. y = IF d \notin DOMAIN x.credit THEN z ELSE IF Absolute THEN x.credit[d] ELSE z + x.credit[d]
    BY <1>1, <1>7, <2>2 DEF Repaid
  <2>5. N[u].rcvAck[d] = c /\ X[h] = Append(q, x)
    BY <1>3, <1>7
  <2> HIDE DEF q, c, z, y
  <2>6. Paid(Append(q, x), d, c, y)
    BY <2>3, <2>4, PaidBack
  <2> QED
    BY <2>5, <2>6 DEF y
<1>8. CASE h[1] = s /\ h[2] \in Upstream(s) /\ \E x : X[h] = Append(w[h], x) /\ Repaid(h[2], m, r.m, x)
  BY <1>7, <1>8 DEF HopPaid, h, X
<1> QED
  BY <1>5, <1>6, <1>8

\* A switch z whose counters change, but not what it holds or has sent.
LEMMA QuietStores ==
  ASSUME NEW M, NEW Q, DOMAIN M = Switch, NEW z \in Switch, NEW n, n.groups = M[z].groups, n.nxtData = M[z].nxtData,
         NEW N, N = [M EXCEPT ![z] = n]
  PROVE  StoresKept(z, M, Q, N, Q) /\ N[z] = n
<1>1. N[z] = n /\ \A t \in Switch : t # z => N[t] = M[t]
  OBVIOUS
<1> DEFINE st == At(N, Q, z)
<1>2. st.m = n /\ st.q = Q /\ Shows(z, st, M, Q)
  BY <1>1 DEF At, Shows
<1>3. Elsewhere(z, M, Q, N, Q)
  BY <1>1 DEF Elsewhere
<1>4. ASSUME NEW d \in Host PROVE SideSame(z, d, M, Q, N, Q)
  BY <1>1 DEF SideSame, SentBytes
<1>5. ASSUME NEW u \in Upstream(z), NEW d \in Host PROVE StoreSame(z, u, d, M, Q, N, Q)
  <2>1. HeldBytes(z, u, d, N, Q) = Total(z, st, d, {u})
    BY DEF HeldBytes
  <2>2. KeptAt(z, d, InKey(u, d), M, Q, N, Q)
    BY <1>1, KeptAtSame
  <2> HIDE DEF st
  <2>3. Total(z, st, d, {u}) = HeldBytes(z, u, d, M, Q)
    BY <1>2, SameHeld
  <2> QED
    BY <2>1, <2>2, <2>3 DEF StoreSame
<1> QED
  BY <1>1, <1>3, <1>4, <1>5 DEF StoresKept

LEMMA CreditBalance ==
  ASSUME settings \in Configuration, SystemOK(mmu, oq, wire), BalanceOK(mmu, oq, wire), NEW s \in Switch, CreditsSent(s)
  PROVE  BalanceOK(mmu', oq', wire')
<1>1. PICK r : /\ Acked(s, mmu[s], r) /\ Repays(s, mmu[s], r) /\ r.m.nxtAck = mmu[s].nxtAck
               /\ mmu' = [mmu EXCEPT ![s] = r.m] /\ wire' = Acking(s, wire, r.acks)
  BY DEF CreditsSent
<1>2. oq' = oq /\ DOMAIN mmu = Switch /\ wire \in [Wire -> Seq(Frame)]
  BY DEF CreditsSent, SystemOK
<1>3. r.m.groups = mmu[s].groups /\ r.m.nxtData = mmu[s].nxtData /\ r.m.rcvData = mmu[s].rcvData
  BY <1>1 DEF Acked, Apart
<1>4. StoresKept(s, mmu, oq, mmu', oq') /\ mmu'[s] = r.m
  <2> DEFINE n == r.m
             N == mmu'
  <2>1. n.groups = mmu[s].groups /\ n.nxtData = mmu[s].nxtData /\ N = [mmu EXCEPT ![s] = n]
    BY <1>1, <1>3
  <2> HIDE DEF n, N
  <2>2. StoresKept(s, mmu, oq, N, oq) /\ N[s] = n
    BY <1>2, <2>1, QuietStores
  <2> QED
    BY <1>2, <2>2 DEF n, N
<1>5. SameBytes(wire, wire')
  BY <1>1, <1>2, AckingBytes
<1>6. StillPaid(mmu, wire, mmu', wire')
  BY <1>1, <1>2, CreditsPaid
<1> QED
  BY <1>1, <1>3, <1>4, <1>5, <1>6, BalanceKept

LEMMA HostBalance ==
  ASSUME settings \in Configuration, SystemOK(mmu, oq, wire), sent \in [Flow -> Nat], BalanceOK(mmu, oq, wire),
         NEW f \in Flow, HostSend(f)
  PROVE  BalanceOK(mmu', oq', wire')
<1> DEFINE s == ToROf(FlowSrc[f])
           st == [m |-> mmu[s], q |-> oq]
           p == HostPacket(f)
<1>1. /\ s \in Switch /\ p \in Packet /\ wire' = wire
      /\ \E r : mmu' = [mmu EXCEPT ![s] = r.m] /\ oq' = r.q /\ Joined(s, st, p, r)
  BY HostJoins
<1>2. PICK r : mmu' = [mmu EXCEPT ![s] = r.m] /\ oq' = r.q /\ Joined(s, st, p, r)
  BY <1>1
<1>3. p.in \in Host
  BY FloodgateParameters DEF HostPacket
<1>4. Shows(s, st, mmu, oq) /\ st.m = mmu[s]
  BY DEF Shows
<1> HIDE DEF s, st, p
<1>5. Entered(s, p, mmu, oq, mmu', oq') /\ mmu'[s] = r.m
  <2> DEFINE N == mmu'
             P == oq'
  <2>1. Becomes(s, mmu, r, N, P)
    BY <1>2 DEF Becomes
  <2> HIDE DEF N, P
  <2>3. s \in Switch /\ p \in Packet /\ Joined(s, st, p, r) /\ Shows(s, st, mmu, oq)
    BY <1>1, <1>2, <1>4
  <2>2. Entered(s, p, mmu, oq, N, P) /\ N[s] = r.m
    BY <2>1, <2>3, JoinStores
  <2> QED
    BY <2>2 DEF N, P
<1>6. StoresKept(s, mmu, oq, mmu', oq')
  <2>1. \A u \in Upstream(s) : u # p.in
    <3>1. \A u \in Upstream(s) : u \in Switch
      BY <1>1, Links, Zenon
    <3> QED
      BY <1>3, <3>1, FloodgateParameters
  <2> QED
    BY <1>5, <2>1 DEF Entered, StoresKept
<1>7. Kept(mmu[s], r.m)
  BY <1>2, <1>4 DEF Joined
<1>8. SameBytes(wire, wire')
  BY <1>1 DEF SameBytes
<1>9. StillPaid(mmu, wire, mmu', wire')
  <2>1. CountersPaid(mmu, mmu')
    <3>1. \A t \in Switch : t # s => mmu'[t] = mmu[t]
      BY <1>5 DEF Entered, Elsewhere
    <3> QED
      BY <1>5, <1>7, <3>1 DEF CountersPaid, Kept
  <2>2. StillPaid(mmu, wire, mmu', wire)
    BY <2>1, NothingPaid
  <2> QED
    BY <1>1, <2>2
<1>10. mmu'[s].nxtAck = mmu[s].nxtAck /\ mmu'[s].rcvData = mmu[s].rcvData
  BY <1>5, <1>7 DEF Kept
<1> QED
  BY <1>1, <1>6, <1>8, <1>9, <1>10, BalanceKept

\* A switch ACK x from n is taken by z, whose counters become k first.
LEMMA AckPaid ==
  ASSUME settings \in Configuration, NEW M, NEW Q, NEW W, SystemOK(M, Q, W), NEW n \in Switch, NEW z \in Switch, <<n, z>> \in Wire,
         W[<<n, z>>] # << >>, NEW x, x = Head(W[<<n, z>>]), x.kind = "ACK", Gives(n, z, M[n], x.credit),
         NEW k, RestoredOK(z, M[z], x.credit, k),
         NEW N, \A t \in Switch : N[t].lstAck = M[t].lstAck, N[z].rcvAck = k.rcvAck, \A t \in Switch : t # z => N[t] = M[t]
  PROVE  StillPaid(M, W, N, Handled(W, <<n, z>>))
<1> SUFFICES ASSUME NEW u \in Switch, NEW t \in Switch, NEW d \in Host, IsHop(u, t, d), HopPaid(u, t, d, M, W)
             PROVE  HopPaid(u, t, d, N, Handled(W, <<n, z>>))
  BY DEF StillPaid
<1> DEFINE h == <<t, u>>
           l == <<n, z>>
           c == M[u].rcvAck[d]
           b == N[u].rcvAck[d]
           y == M[t].lstAck[u][d]
           X == Handled(W, l)
<1>1. /\ h \in Wire /\ W[h] \in Seq(Frame) /\ c \in Nat /\ y \in Nat /\ (Absolute => c <= y)
      /\ NextHop[u][d] = t /\ W \in [Wire -> Seq(Frame)] /\ l \in Wire
  BY BackLink DEF IsHop, SystemOK
<1>2. Paid(W[h], d, c, y) /\ N[t].lstAck[u][d] = y
  BY DEF HopPaid
<1>3. h # l => X[h] = W[h]
  <2> HIDE DEF h, l
  <2> QED
    BY <1>1, Zenon DEF Handled
<1>4. h = l => X[h] = Tail(W[h])
  <2> HIDE DEF h, l
  <2> QED
    BY <1>1, Zenon DEF Handled
<1>5. ASSUME b = c, h # l PROVE Paid(X[h], d, b, y)
  BY <1>2, <1>3, <1>5
<1>6. CASE h # l
  <2>1. CASE u = z
    <3>1. t # n
      BY <1>6, <2>1
    <3>2. d \notin DOMAIN x.credit
      BY <1>1, <2>1, <3>1 DEF Gives
    <3>3. b = c
      BY <2>1, <3>2 DEF RestoredOK
    <3> QED
      BY <1>2, <1>5, <1>6, <3>3 DEF HopPaid
  <2>2. CASE u # z
    <3>1. b = c
      BY <2>2
    <3> QED
      BY <1>2, <1>5, <1>6, <3>1 DEF HopPaid
  <2> QED
    BY <2>1, <2>2
<1>7. CASE h = l
  <2> DEFINE q == W[h]
             r == x.credit
  <2>1. u = z /\ t = n /\ q \in Seq(Frame) /\ q # << >> /\ x = Head(q) /\ X[h] = Tail(q) /\ x \in Frame
    <3>1. u = z /\ t = n
      BY <1>7
    <3>2. q = W[<<n, z>>]
      BY <1>7
    <3>3. X[h] = Tail(q)
      BY <1>4, <1>7
    <3>4. q \in Seq(Frame) /\ q # << >> /\ x = Head(q)
      BY <1>1, <3>2
    <3> HIDE DEF q, h, X
    <3>5. x \in Frame
      BY <3>4, TailLeft
    <3> QED
      BY <3>1, <3>3, <3>4, <3>5
  <2>2. /\ d \notin DOMAIN r => b = c
        /\ d \in DOMAIN r /\ ~ Absolute => b = c + r[d]
        /\ d \in DOMAIN r /\ Absolute => /\ c <= b /\ r[d] <= b
                                         /\ b = c \/ \A e \in Nat : c <= e /\ r[d] <= e => b <= e
    <3> DEFINE e == k.rcvAck[d]
               g == M[z].rcvAck[d]
    <3>1. b = e /\ c = g
      BY <2>1
    <3>2. d \notin DOMAIN r => e = g
      BY DEF RestoredOK
    <3>3. d \in DOMAIN r /\ ~ Absolute => e = g + r[d]
      BY DEF RestoredOK
    <3>4. d \in DOMAIN r /\ Absolute => g <= e /\ r[d] <= e
      <4>1. \A j \in DOMAIN x.credit : Absolute => M[z].rcvAck[j] <= k.rcvAck[j] /\ x.credit[j] <= k.rcvAck[j]
        BY DEF RestoredOK
      <4> QED
        BY <4>1
    <3>5. d \in DOMAIN r /\ Absolute => e = g \/ \A j \in Nat : g <= j /\ r[d] <= j => e <= j
      BY DEF RestoredOK
    <3> HIDE DEF b, c, e, g, r
    <3> QED
      BY <3>1, <3>2, <3>3, <3>4, <3>5, Zenon
  <2>3. d \in DOMAIN r /\ Absolute => r[d] <= y
    BY <2>1 DEF Gives
  <2>4. b \in Nat
    <3>1. k \in MmuType(z)
      BY DEF RestoredOK
    <3>2. k.rcvAck[d] \in Nat
      BY <3>1 DEF MmuType, Counters
    <3> QED
      BY <2>1, <3>2
  <2>5. Paid(q, d, c, y) /\ x.kind = "ACK"
    BY <1>2
  <2> HIDE DEF q, c, b, y
  <2>6. d \notin DOMAIN x.credit => b = c
    BY <2>2
  <2>7. d \in DOMAIN x.credit => /\ Absolute => c <= b /\ x.credit[d] <= b /\ \A e \in Nat : c <= e /\ x.credit[d] <= e => b <= e
                                 /\ ~ Absolute => b = c + x.credit[d]
    BY <2>2
  <2>8. d \in DOMAIN x.credit /\ Absolute => x.credit[d] <= y
    BY <2>3
  <2> HIDE DEF r
  <2>9. Paid(Tail(q), d, b, y)
    BY <1>1, <2>1, <2>4, <2>5, <2>6, <2>7, <2>8, PaidIn
  <2> QED
    BY <1>2, <2>1, <2>9 DEF HopPaid, b, y, q
<1> QED
  BY <1>6, <1>7

LEMMA AckBalance ==
  ASSUME settings \in Configuration, SystemOK(mmu, oq, wire), BalanceOK(mmu, oq, wire),
         NEW s \in Switch, NEW n \in Switch, <<n, s>> \in Wire, wire[<<n, s>>] # << >>,
         NEW x, x = Head(wire[<<n, s>>]), x.kind = "ACK", AckTaken(s, n, x.credit)
  PROVE  BalanceOK(mmu', oq', wire')
<1> DEFINE credit == x.credit
           l == <<n, s>>
<1>1. wire' = Handled(wire, l) /\ Gives(n, s, mmu[n], credit)
  BY DEF AckTaken
<1>2. PICK k, r : /\ RestoredOK(s, mmu[s], credit, k) /\ Moved(s, [m |-> k, q |-> oq], r)
                  /\ mmu' = [mmu EXCEPT ![s] = r.m] /\ oq' = r.q
  BY DEF AckTaken
<1> DEFINE st == [m |-> k, q |-> oq]
<1>3. st.m = k /\ Shows(s, st, mmu, oq) /\ Moved(s, st, r)
  BY <1>2 DEF Shows, RestoredOK
<1> HIDE DEF st
<1>4. StoresKept(s, mmu, oq, mmu', oq') /\ mmu'[s] = r.m
  <2> DEFINE N == mmu'
             P == oq'
  <2>1. Becomes(s, mmu, r, N, P)
    BY <1>2 DEF Becomes
  <2> HIDE DEF N, P
  <2>2. StoresKept(s, mmu, oq, N, P) /\ N[s] = r.m
    BY <1>3, <2>1, MoveStores
  <2> QED
    BY <2>2 DEF N, P
<1>5. Kept(k, r.m)
  BY <1>3 DEF Moved
<1>6. /\ mmu'[s].rcvAck = k.rcvAck /\ mmu'[s].lstAck = mmu[s].lstAck
      /\ mmu'[s].nxtAck = mmu[s].nxtAck /\ mmu'[s].rcvData = mmu[s].rcvData
  BY <1>2, <1>4, <1>5 DEF Kept, RestoredOK
<1>7. \A t \in Switch : t # s => mmu'[t] = mmu[t]
  BY <1>4 DEF StoresKept, Elsewhere
<1>8. wire \in [Wire -> Seq(Frame)]
  BY DEF SystemOK
<1>9. SameBytes(wire, wire')
  <2> HIDE DEF l
  <2>1. l \in Wire /\ wire[l] # << >> /\ Head(wire[l]).kind # "DATA"
    BY DEF l
  <2>2. SameBytes(wire, Handled(wire, l))
    BY <1>8, <2>1, HandledBytes
  <2> QED
    BY <1>1, <2>2
<1>10. StillPaid(mmu, wire, mmu', wire')
  <2> DEFINE N == mmu'
  <2>1. N[s].rcvAck = k.rcvAck /\ (\A t \in Switch : N[t].lstAck = mmu[t].lstAck) /\ \A t \in Switch : t # s => N[t] = mmu[t]
    BY <1>6, <1>7
  <2> HIDE DEF N
  <2>2. RestoredOK(s, mmu[s], x.credit, k) /\ Gives(n, s, mmu[n], x.credit)
    BY <1>1, <1>2
  <2>3. StillPaid(mmu, wire, N, Handled(wire, <<n, s>>))
    BY <2>1, <2>2, AckPaid
  <2> QED
    BY <1>1, <2>3 DEF N
<1> QED
  BY <1>4, <1>6, <1>9, <1>10, BalanceKept

\* The next packet of a hop comes to s, and is held there.
LEMMA HopEnters ==
  ASSUME settings \in Configuration, NEW M, NEW Q, NEW W, SystemOK(M, Q, W), NEW u \in Switch, NEW s \in Switch, NEW d \in Host,
         IsHop(u, s, d), HopBytes(u, s, d, M, Q, W), Absolute => HopOK(u, s, d, M, Q, W),
         W[<<u, s>>] # << >>, NEW p \in Packet, p = Head(W[<<u, s>>]), p.dst = d,
         NEW q \in Packet, q.dst = d, q.in = u, q.size = p.size, q.ipsn = p.psn,
         NEW N, NEW P, Entered(s, q, M, Q, N, P), SideSame(u, d, M, Q, N, P),
         NEW k, RcvNoted(s, M[s], u, d, p.psn, k), N[s].rcvData = k.rcvData, N[s].nxtAck = M[s].nxtAck,
         NEW X, X[<<u, s>>] = Tail(W[<<u, s>>])
  PROVE  HopBytes(u, s, d, N, P, X)
<1> DEFINE w == W[<<u, s>>]
           a == M[s].nxtAck[u][d]
           b == M[s].rcvData[u][d]
           h == HeldBytes(s, u, d, M, Q)
           e == HeldBytes(s, u, d, N, P)
           z == InKey(u, d)
           y == p.size
           x == p.psn
<1>1. u \in Upstream(s) /\ w \in Seq(Frame) /\ w # << >> /\ p = Head(w)
  BY HopIs
<1>2. a \in Nat /\ b \in Nat /\ h \in Nat /\ y \in Nat /\ 0 < y /\ x \in Nat
  <2>1. a \in Nat /\ b \in Nat
    BY BackLink
  <2>2. h \in Nat
    BY HeldType
  <2>3. y \in Nat /\ 0 < y /\ x \in Nat
    BY DEF Packet, Positive
  <2> QED
    BY <2>1, <2>2, <2>3
<1>3. e = h + y
  BY <1>1 DEF Entered
<1>4. \A lo, c \in Int : LinedAt(s, d, z, At(M, Q, s), lo, c) /\ c <= x - y => LinedAt(s, d, z, At(N, P, s), lo, x)
  BY <1>1 DEF Entered
<1>5. SentBytes(u, d, N, P) = SentBytes(u, d, M, Q)
  BY DEF SideSame
<1>6. SentBytes(u, d, M, Q) = a + h + Bytes(w, d, Node)
  BY DEF HopBytes
<1>7. Absolute => b = a + h /\ LinedAt(s, d, z, At(M, Q, s), a, b)
  BY DEF HopBytes
<1>8. Absolute => x = b + y /\ k.rcvData[u][d] = x
  <2> SUFFICES ASSUME Absolute PROVE x = b + y /\ k.rcvData[u][d] = x
    OBVIOUS
  <2>1. x = b + y
    BY NextPsn
  <2>2. x <= k.rcvData[u][d]
    BY DEF RcvNoted
  <2>3. k.rcvData[u][d] # b
    <3> HIDE DEF x, b, y
    <3> QED
      BY <1>2, <2>1, <2>2
  <2>4. k.rcvData[u][d] = x
    BY <2>3, HopNoted
  <2> QED
    BY <2>1, <2>4
<1>9. Bytes(w, d, Node) = Bytes(Tail(w), d, Node) + y /\ Bytes(Tail(w), d, Node) \in Nat
  <2>1. SizeOf(p, d, Node) = y /\ Tail(w) \in Seq(Frame)
    BY <1>1, NodeSize
  <2> HIDE DEF w, y
  <2>2. Bytes(w, d, Node) = Bytes(Tail(w), d, Node) + y
    BY <1>1, <2>1, BytesTail
  <2> QED
    BY <2>1, <2>2, BytesAre
<1>10. N[s].nxtAck[u][d] = a /\ N[s].rcvData[u][d] = k.rcvData[u][d] /\ X[<<u, s>>] = Tail(w)
  OBVIOUS
<1> HIDE DEF w, a, b, h, e, z, y, x
<1>11. SentBytes(u, d, N, P) = a + e + Bytes(Tail(w), d, Node)
  BY <1>2, <1>3, <1>5, <1>6, <1>9
<1>12. ASSUME Absolute PROVE x = a + e /\ LinedAt(s, d, z, At(N, P, s), a, x)
  <2>1. x = a + e
    BY <1>2, <1>3, <1>7, <1>8, <1>12
  <2>2. b <= x - y
    BY <1>2, <1>8, <1>12
  <2> QED
    BY <1>2, <1>4, <1>7, <1>12, <2>1, <2>2
<1> QED
  BY <1>8, <1>10, <1>11, <1>12 DEF HopBytes, e, z

LEMMA DataBalance ==
  ASSUME settings \in Configuration, SystemOK(mmu, oq, wire), HopsOK(mmu, oq, wire), BalanceOK(mmu, oq, wire),
         NEW s \in Switch, NEW u, NEW p, Arrived(s, u, p), losses \in Nat, losses' = losses
  PROVE  BalanceOK(mmu', oq', wire')
<1> DEFINE l == <<u, s>>
<1>1. /\ p \in Packet /\ u \in Switch /\ l \in Wire /\ NextHop[u][p.dst] = s
      /\ wire[l] # << >> /\ p = Head(wire[l]) /\ wire' = Handled(wire, l)
  BY DEF Arrived
<1>2. PICK k, q, r : /\ RcvNoted(s, mmu[s], u, p.dst, p.psn, k)
                     /\ q \in Packet /\ q.dst = p.dst /\ q.in = u /\ q.size = p.size /\ q.ipsn = p.psn
                     /\ Joined(s, [m |-> k, q |-> oq], q, r)
                     /\ mmu' = [mmu EXCEPT ![s] = r.m] /\ oq' = r.q
  <2>1. losses' # losses + 1
    OBVIOUS
  <2>2. PICK k : /\ RcvNoted(s, mmu[s], u, p.dst, p.psn, k)
                 /\ \E q, r : /\ q \in Packet /\ q.flow = p.flow /\ q.dst = p.dst /\ q.seq = p.seq
                              /\ q.in = u /\ q.size = p.size /\ q.ipsn = p.psn
                              /\ Joined(s, [m |-> k, q |-> oq], q, r)
                              /\ mmu' = [mmu EXCEPT ![s] = r.m] /\ oq' = r.q
    BY <2>1 DEF Arrived
  <2>3. PICK q, r : /\ q \in Packet /\ q.dst = p.dst /\ q.in = u /\ q.size = p.size /\ q.ipsn = p.psn
                    /\ Joined(s, [m |-> k, q |-> oq], q, r)
                    /\ mmu' = [mmu EXCEPT ![s] = r.m] /\ oq' = r.q
    BY <2>2
  <2> QED
    BY <2>2, <2>3
<1> DEFINE st == [m |-> k, q |-> oq]
<1>3. st.m = k /\ Shows(s, st, mmu, oq) /\ Joined(s, st, q, r) /\ q \in Packet
  BY <1>2 DEF Shows, RcvNoted, Apart
<1> HIDE DEF st
<1>4. Entered(s, q, mmu, oq, mmu', oq') /\ mmu'[s] = r.m
  <2> DEFINE N == mmu'
             P == oq'
  <2>1. Becomes(s, mmu, r, N, P)
    BY <1>2 DEF Becomes
  <2> HIDE DEF N, P
  <2>2. Entered(s, q, mmu, oq, N, P) /\ N[s] = r.m
    BY <1>3, <2>1, JoinStores
  <2> QED
    BY <2>2 DEF N, P
<1>5. Kept(k, r.m)
  BY <1>3 DEF Joined
<1>6. /\ mmu'[s].rcvAck = mmu[s].rcvAck /\ mmu'[s].lstAck = mmu[s].lstAck
      /\ mmu'[s].nxtAck = mmu[s].nxtAck /\ mmu'[s].rcvData = k.rcvData
  BY <1>2, <1>4, <1>5 DEF Kept, RcvNoted, Apart
<1>7. Elsewhere(s, mmu, oq, mmu', oq') /\ \A t \in Switch : t # s => mmu'[t] = mmu[t]
  BY <1>4 DEF Entered, Elsewhere
<1>8. wire \in [Wire -> Seq(Frame)]
  BY DEF SystemOK
<1>9. StillPaid(mmu, wire, mmu', wire')
  <2> DEFINE N == mmu'
  <2>1. CountersPaid(mmu, N)
    BY <1>6, <1>7 DEF CountersPaid
  <2>2. Head(wire[l]).kind # "ACK"
    BY <1>1 DEF Packet
  <2> HIDE DEF N, l
  <2>3. StillPaid(mmu, wire, N, Handled(wire, l))
    BY <1>1, <1>8, <2>1, <2>2, DataPaid
  <2> QED
    BY <1>1, <2>3 DEF N
<1> SUFFICES ASSUME ~ SynTimer, NEW v \in Switch, NEW t \in Switch, NEW d \in Host, IsHop(v, t, d)
             PROVE  HopBytes(v, t, d, mmu', oq', wire') /\ HopPaid(v, t, d, mmu', wire')
  BY DEF BalanceOK
<1>10. HopBytes(v, t, d, mmu, oq, wire) /\ HopPaid(v, t, d, mmu, wire)
  BY DEF BalanceOK
<1>11. HopPaid(v, t, d, mmu', wire')
  BY <1>9, <1>10 DEF StillPaid
<1>12. SideSame(v, d, mmu, oq, mmu', oq')
  <2>1. CASE v = s
    BY <1>4, <2>1 DEF Entered, IsHop
  <2>2. CASE v # s
    BY <1>7, <2>2, SideElsewhere
  <2> QED
    BY <2>1, <2>2
<1>13. <<v, t>> \in Wire /\ v \in Upstream(t)
  BY HopIs
<1>14. CASE v = u /\ t = s /\ d = p.dst
  <2> DEFINE N == mmu'
             P == oq'
             X == wire'
  <2>1. X[<<v, t>>] = Tail(wire[<<v, t>>])
    BY <1>1, <1>8, <1>14, Zenon DEF Handled
  <2>2. Absolute => HopOK(v, t, d, mmu, oq, wire)
    BY DEF HopsOK
  <2>3. /\ wire[<<v, t>>] # << >> /\ p \in Packet /\ p = Head(wire[<<v, t>>]) /\ p.dst = d
        /\ q \in Packet /\ q.dst = d /\ q.in = v /\ q.size = p.size /\ q.ipsn = p.psn
    BY <1>1, <1>2, <1>14
  <2>4. /\ Entered(t, q, mmu, oq, N, P) /\ SideSame(v, d, mmu, oq, N, P)
        /\ RcvNoted(t, mmu[t], v, d, p.psn, k) /\ N[t].rcvData = k.rcvData /\ N[t].nxtAck = mmu[t].nxtAck
    BY <1>2, <1>4, <1>6, <1>12, <1>14
  <2> HIDE DEF N, P, X
  <2>5. HopBytes(v, t, d, N, P, X)
    BY <1>10, <2>1, <2>2, <2>3, <2>4, HopEnters
  <2> QED
    BY <1>11, <2>5 DEF N, P, X
<1>15. CASE ~ (v = u /\ t = s /\ d = p.dst)
  <2>1. StoreSame(t, v, d, mmu, oq, mmu', oq') /\ NotedSame(t, v, d, mmu, mmu')
    <3>1. CASE t = s
      <4>1. StoreSame(s, v, d, mmu, oq, mmu', oq')
        <5>1. ~ (q.dst = d /\ q.in = v)
          BY <1>2, <1>15, <3>1
        <5> QED
          BY <1>4, <1>13, <3>1, <5>1 DEF Entered
      <4>2. k.rcvData[v][d] = mmu[s].rcvData[v][d]
        BY <1>2, <1>13, <1>15, <3>1 DEF RcvNoted
      <4> QED
        BY <1>6, <3>1, <4>1, <4>2 DEF NotedSame
    <3>2. CASE t # s
      BY <1>7, <3>2, StoreElsewhere
    <3> QED
      BY <3>1, <3>2
  <2>2. Bytes(wire'[<<v, t>>], d, Node) = Bytes(wire[<<v, t>>], d, Node)
    <3> DEFINE h == <<v, t>>
    <3>1. CASE h # l
      <4>1. wire'[h] = wire[h]
        <5> HIDE DEF h, l
        <5> QED
          BY <1>1, <1>8, <1>13, <3>1, Zenon DEF Handled, h
      <4> QED
        BY <4>1
    <3>2. CASE h = l
      <4> DEFINE y == wire[l]
      <4>1. d # p.dst
        BY <1>15, <3>2
      <4>2. y \in Seq(Frame) /\ y # << >> /\ p = Head(y) /\ SizeOf(p, d, Node) = 0 /\ Tail(y) \in Seq(Frame)
        BY <1>1, <1>8, <4>1, NodeSize
      <4>3. wire'[h] = Tail(y)
        BY <1>1, <1>8, <3>2, Zenon DEF Handled
      <4> HIDE DEF y, h, l
      <4>4. Bytes(y, d, Node) = Bytes(Tail(y), d, Node) + SizeOf(p, d, Node) /\ Bytes(Tail(y), d, Node) \in Nat
        BY <4>2, BytesTail, BytesAre
      <4> QED
        BY <3>2, <4>2, <4>3, <4>4 DEF y, h
    <3> QED
      BY <3>1, <3>2
  <2> DEFINE N == mmu'
             P == oq'
             X == wire'
  <2>3. /\ SideSame(v, d, mmu, oq, N, P) /\ StoreSame(t, v, d, mmu, oq, N, P) /\ NotedSame(t, v, d, mmu, N)
        /\ Bytes(X[<<v, t>>], d, Node) = Bytes(wire[<<v, t>>], d, Node)
    BY <1>12, <2>1, <2>2
  <2> HIDE DEF N, P, X
  <2>4. HopBytes(v, t, d, N, P, X)
    BY <1>10, <2>3, HopBytesKept
  <2> QED
    BY <1>11, <2>4 DEF N, P, X
<1> QED
  BY <1>14, <1>15

LEMMA LeavesSide ==
  ASSUME NEW M, NEW Q, NEW W, SystemOK(M, Q, W), NEW s \in Switch, NEW t, NEW l \in Link, l = <<s, t>>, NEW p \in Packet,
         NEW P, NEW w, Leaves(l, t, p, Q, W, P, w), NEW N, SentSame(M, N), NEW X, SameBytes(w, X), NEW u \in Switch, NEW y \in Switch, NEW d \in Host, IsHop(u, y, d)
  PROVE  SentBytes(u, d, N, P) - Bytes(X[<<u, y>>], d, Node) = SentBytes(u, d, M, Q) - Bytes(W[<<u, y>>], d, Node)
<1> DEFINE h == <<u, y>>
           a == M[u].nxtData[d]
<1>0. /\ Q[l] # << >> /\ p = Head(Q[l]) /\ P = [Q EXCEPT ![l] = Tail(Q[l])]
      /\ w = IF t \in Host THEN W ELSE [W EXCEPT ![l] = Append(W[l], p)]
      /\ \A x \in Switch : N[x].nxtData = M[x].nxtData
  BY DEF Leaves, SentSame
<1>1. /\ h \in Wire /\ h \in Link /\ PortTo(u, d) = h /\ a \in Nat /\ Q[h] \in Seq(Packet) /\ W[h] \in Seq(Frame)
      /\ Q \in [Link -> Seq(Packet)] /\ W \in [Wire -> Seq(Frame)]
  <2>1. /\ h \in Wire /\ h \in Link /\ PortTo(u, d) = h /\ a \in Nat /\ Q[h] \in Seq(Packet) /\ W[h] \in Seq(Frame)
    BY HopIs
  <2>2. Q \in [Link -> Seq(Packet)] /\ W \in [Wire -> Seq(Frame)]
    BY DEF SystemOK
  <2> QED
    BY <2>1, <2>2
<1>2. /\ SentBytes(u, d, N, P) = a - Bytes(P[h], d, Node) /\ SentBytes(u, d, M, Q) = a - Bytes(Q[h], d, Node)
      /\ Bytes(X[h], d, Node) = Bytes(w[h], d, Node)
  <2>1. P[h] = IF h = l THEN Tail(Q[h]) ELSE Q[h]
    <3> HIDE DEF h
    <3> QED
      BY <1>0, <1>1
  <2> QED
    BY <1>0, <1>1 DEF SentBytes, SameBytes
<1>3. CASE h # l
  <2>1. P[h] = Q[h] /\ w[h] = W[h]
    <3> HIDE DEF h
    <3>1. P[h] = Q[h]
      BY <1>0, <1>1, <1>3, Zenon
    <3>2. CASE t \in Host
      BY <1>0, <3>1, <3>2
    <3>3. CASE t \notin Host
      <4>1. w = [W EXCEPT ![l] = Append(W[l], p)]
        BY <1>0, <3>3
      <4>2. w[h] = W[h]
        BY <1>1, <1>3, <4>1, Zenon
      <4> QED
        BY <3>1, <4>2
    <3> QED
      BY <3>2, <3>3
  <2> QED
    BY <1>2, <2>1
<1>4. CASE h = l
  <2> DEFINE q == Q[h]
             z == W[h]
  <2>1. t \notin Host
    BY <1>4, FloodgateParameters
  <2>2. w = [W EXCEPT ![l] = Append(W[l], p)]
    BY <1>0, <2>1
  <2>3. w[h] = Append(z, p)
    <3> HIDE DEF h
    <3> QED
      BY <1>1, <1>4, <2>2, Zenon
  <2>4. P[h] = Tail(q)
    <3> HIDE DEF h
    <3> QED
      BY <1>0, <1>1, <1>4, Zenon
  <2>5. q \in Seq(Frame) /\ q # << >> /\ p = Head(q) /\ z \in Seq(Frame) /\ p \in Frame
    BY <1>0, <1>1, <1>4, PacketsAreFrames
  <2> HIDE DEF q, z, h
  <2>6. Bytes(q, d, Node) = Bytes(Tail(q), d, Node) + SizeOf(p, d, Node)
    BY <2>5, BytesTail
  <2>7. Bytes(Append(z, p), d, Node) = Bytes(z, d, Node) + SizeOf(p, d, Node)
    BY <2>5, BytesAppend
  <2>8. Bytes(z, d, Node) \in Nat /\ Bytes(Tail(q), d, Node) \in Nat /\ SizeOf(p, d, Node) \in Nat
    <3>1. Tail(q) \in Seq(Frame)
      BY <2>5
    <3>2. Bytes(z, d, Node) \in Nat /\ Bytes(Tail(q), d, Node) \in Nat
      BY <2>5, <3>1, BytesAre
    <3>3. p.size \in Nat
      BY DEF Packet, Positive
    <3>4. SizeOf(p, d, Node) \in Nat
      BY <3>3 DEF SizeOf
    <3> QED
      BY <3>2, <3>4
  <2>9. a \in Nat
    BY <1>1
  <2> HIDE DEF a
  <2>10. SentBytes(u, d, N, P) = a - Bytes(Tail(q), d, Node) /\ SentBytes(u, d, M, Q) = a - Bytes(q, d, Node)
         /\ Bytes(X[h], d, Node) = Bytes(Append(z, p), d, Node)
    BY <1>2, <2>3, <2>4 DEF q
  <2>11. SentBytes(u, d, N, P) - Bytes(X[h], d, Node) = SentBytes(u, d, M, Q) - Bytes(z, d, Node)
    BY <2>6, <2>7, <2>8, <2>9, <2>10
  <2> QED
    BY <2>11 DEF h, z
<1> QED
  BY <1>3, <1>4

LEMMA LeavesStore ==
  ASSUME settings \in Configuration, NEW M, NEW Q, NEW W, SystemOK(M, Q, W), NEW N, NEW P, NEW X, SystemOK(N, P, X),
         NEW u \in Switch, NEW s \in Switch, NEW d \in Host, IsHop(u, s, d), HopBytes(u, s, d, M, Q, W),
         NEW p \in Packet, Unheld(s, u, d, p, M, Q, N, P), NEW r, Notified(s, M[s], p, r), N[s] = r.m,
         r.m.rcvData = M[s].rcvData
  PROVE  StoreCounted(s, u, d, M, Q, N, P)
<1> DEFINE a == M[s].nxtAck[u][d]
           b == M[s].rcvData[u][d]
           h == HeldBytes(s, u, d, M, Q)
           e == HeldBytes(s, u, d, N, P)
           k == InKey(u, d)
           y == p.size
           x == p.ipsn
           n == N[s].nxtAck[u][d]
<1>1. a \in Nat /\ b \in Nat /\ u \in Upstream(s)
  BY BackLink, HopIs
<1>2. h \in Nat /\ e \in Nat
  BY HeldType
<1>3. y \in Nat /\ 0 < y /\ x \in Nat
  BY DEF Packet, Positive
<1>4. N[s].rcvData[u][d] = b
  OBVIOUS
<1>5. h = e + SizeOf(p, d, {u})
  BY DEF Unheld
<1>6. Absolute => LinedAt(s, d, k, At(M, Q, s), a, b)
  BY DEF HopBytes
<1>7. n = IF u # p.in \/ d # p.dst THEN a ELSE IF Absolute THEN Max({a, x}) ELSE a + y
  BY <1>1 DEF Notified
<1>8. CASE u = p.in /\ d = p.dst
  <2>1. SizeOf(p, d, {u}) = y
    BY <1>8 DEF SizeOf, IsFor, Packet
  <2>2. CASE Absolute
    <3>1. x = a + y /\ LinedAt(s, d, k, At(N, P, s), x, b)
      BY <1>8, <2>2, NextIn
    <3> HIDE DEF a, b, h, e, k, y, x, n
    <3>2. n = Max({a, x})
      BY <1>7, <1>8, <2>2
    <3>3. a <= x /\ x <= x /\ x \in Nat
      BY <1>1, <1>3, <3>1
    <3>4. Max({a, x}) \in Nat /\ x <= Max({a, x}) /\ Max({a, x}) <= x
      BY <1>1, <3>3, MaxIs
    <3>5. n = x
      BY <3>2, <3>3, <3>4
    <3>6. n + e = a + h
      BY <1>1, <1>2, <1>3, <1>5, <2>1, <3>1, <3>5
    <3> QED
      BY <1>4, <3>1, <3>5, <3>6 DEF StoreCounted, a, b, h, e, k, n
  <2>3. CASE ~ Absolute
    <3> HIDE DEF a, b, h, e, k, y, x, n
    <3>1. n = a + y
      BY <1>7, <1>8, <2>3
    <3>2. n + e = a + h
      BY <1>1, <1>2, <1>3, <1>5, <2>1, <3>1
    <3> QED
      BY <1>4, <2>3, <3>2 DEF StoreCounted, a, b, h, e, n
  <2> QED
    BY <2>2, <2>3
<1>9. CASE ~ (u = p.in /\ d = p.dst)
  <2>1. SizeOf(p, d, {u}) = 0
    BY <1>9 DEF SizeOf, IsFor
  <2>2. Absolute => LinedAt(s, d, k, At(N, P, s), a, b)
    <3>1. p \notin k.mem
      BY <1>9 DEF InKey
    <3>2. LinedAt(s, d, k, At(M, Q, s), a, b) => LinedAfter(s, PortTo(s, p.dst), p, d, k, a, b, N, P)
      BY <1>1 DEF Unheld
    <3> QED
      BY <1>6, <3>1, <3>2 DEF LinedAfter
  <2> HIDE DEF a, b, h, e, k, y, x, n
  <2>3. n = a /\ n + e = a + h
    BY <1>1, <1>2, <1>5, <1>7, <1>9, <2>1
  <2> QED
    BY <1>4, <2>2, <2>3 DEF StoreCounted, a, b, h, e, k, n
<1> QED
  BY <1>8, <1>9

LEMMA HopShares ==
  ASSUME settings \in Configuration, NEW M, NEW Q, NEW W, SystemOK(M, Q, W), NEW N, NEW P, NEW X, SystemOK(N, P, X),
         NEW u \in Switch, NEW s \in Switch, NEW d \in Host, IsHop(u, s, d), HopBytes(u, s, d, M, Q, W),
         SentBytes(u, d, N, P) - Bytes(X[<<u, s>>], d, Node) = SentBytes(u, d, M, Q) - Bytes(W[<<u, s>>], d, Node),
         StoreCounted(s, u, d, M, Q, N, P)
  PROVE  HopBytes(u, s, d, N, P, X)
<1> DEFINE a == M[s].nxtAck[u][d]
           b == M[s].rcvData[u][d]
           h == HeldBytes(s, u, d, M, Q)
           e == HeldBytes(s, u, d, N, P)
           n == N[s].nxtAck[u][d]
           f == SentBytes(u, d, M, Q)
           g == SentBytes(u, d, N, P)
           w == Bytes(W[<<u, s>>], d, Node)
           x == Bytes(X[<<u, s>>], d, Node)
<1>1. a \in Nat /\ n \in Nat
  BY BackLink
<1>2. h \in Nat /\ e \in Nat /\ f \in Int /\ g \in Int
  BY HeldType
<1>3. w \in Nat /\ x \in Nat
  <2>1. W[<<u, s>>] \in Seq(Frame) /\ X[<<u, s>>] \in Seq(Frame)
    BY HopIs
  <2> QED
    BY <2>1, BytesAre
<1>4. g - x = f - w /\ n + e = a + h /\ f = a + h + w /\ (Absolute => b = a + h)
  BY DEF HopBytes, StoreCounted
<1>5. N[s].rcvData[u][d] = b
  BY DEF StoreCounted
<1>6. Absolute => LinedAt(s, d, InKey(u, d), At(N, P, s), n, N[s].rcvData[u][d])
  BY DEF StoreCounted
<1> HIDE DEF a, b, h, e, n, f, g, w, x
<1>7. g = n + e + x /\ (Absolute => b = n + e)
  BY <1>1, <1>2, <1>3, <1>4
<1> QED
  BY <1>5, <1>6, <1>7 DEF HopBytes, e, n, g, x

LEMMA TransmitBalance ==
  ASSUME settings \in Configuration, SystemOK(mmu, oq, wire), SystemOK(mmu', oq', wire'), BalanceOK(mmu, oq, wire),
         NEW s, NEW t, NEW p, Departed(s, t, p)
  PROVE  BalanceOK(mmu', oq', wire')
<1> DEFINE l == <<s, t>>
           w == IF t \in Host THEN wire ELSE [wire EXCEPT ![l] = Append(wire[l], p)]
<1>1. /\ s \in Switch /\ l \in Link /\ p \in Packet /\ oq[l] # << >> /\ p = Head(oq[l])
      /\ oq' = [oq EXCEPT ![l] = Tail(oq[l])] /\ l = PortTo(s, p.dst) /\ Here(s, mmu[s], p)
  BY DEF Departed, Queued, Out, PortTo
<1>2. PICK r : /\ Acked(s, mmu[s], r) /\ mmu' = [mmu EXCEPT ![s] = r.m] /\ r = NotifyDequeue(s, mmu[s], p)
               /\ wire' = Acking(s, w, r.acks)
  BY Zenon DEF Departed
<1>3. DOMAIN mmu = Switch /\ wire \in [Wire -> Seq(Frame)] /\ oq \in [Link -> Seq(Packet)] /\ mmu[s] \in MmuType(s) /\ Owes(s, mmu[s])
  BY <1>1 DEF SystemOK, StateOK
<1>4. Notified(s, mmu[s], p, r)
  <2> DEFINE m == mmu[s]
  <2>1. m \in MmuType(s) /\ Owes(s, m) /\ Here(s, m, p) /\ r = NotifyDequeue(s, m, p) /\ p \in Packet
    BY <1>1, <1>2, <1>3
  <2> HIDE DEF m
  <2>2. Notified(s, m, p, r)
    BY <2>1, NotifyIs, SMTT(30)
  <2> QED
    BY <2>2 DEF m
<1>5. /\ r.m.groups = mmu[s].groups /\ r.m.nxtData = mmu[s].nxtData /\ r.m.rcvData = mmu[s].rcvData
      /\ mmu'[s] = r.m /\ \A y \in Switch : y # s => mmu'[y] = mmu[y]
  BY <1>1, <1>2, <1>3 DEF Acked, Apart
<1>6. w \in [Wire -> Seq(Frame)] /\ StillPaid(mmu, wire, mmu, w)
  <2>1. CASE t \in Host
    BY <1>3, <2>1 DEF StillPaid
  <2>2. CASE t \notin Host
    <3>1. w = [wire EXCEPT ![l] = Append(wire[l], p)] /\ p \in Frame /\ p.kind # "ACK"
      BY <1>1, <2>2, PacketsAreFrames DEF Packet
    <3>2. l \in Wire
      BY <1>1, <2>2, Links DEF Wire
    <3> HIDE DEF w, l
    <3>3. Append(wire[l], p) \in Seq(Frame)
      BY <1>3, <3>1, <3>2
    <3>4. StillPaid(mmu, wire, mmu, [wire EXCEPT ![l] = Append(wire[l], p)])
      BY <1>3, <3>1, <3>2, PutPaid
    <3>5. w \in [Wire -> Seq(Frame)]
      BY <1>3, <3>1, <3>2, <3>3
    <3> QED
      BY <3>1, <3>4, <3>5
  <2> QED
    BY <2>1, <2>2, Zenon
<1> HIDE DEF w
<1>7. SameBytes(w, wire') /\ StillPaid(mmu, wire, mmu', wire')
  <2> DEFINE N == mmu'
  <2>1. N = [mmu EXCEPT ![s] = r.m] /\ Repays(s, mmu[s], r)
    BY <1>2, <1>4 DEF Notified
  <2> HIDE DEF N
  <2>2. SameBytes(w, Acking(s, w, r.acks))
    BY <1>2, <1>6, <2>1, AckingBytes
  <2>3. StillPaid(mmu, w, N, Acking(s, w, r.acks))
    BY <1>1, <1>2, <1>6, <2>1, CreditsPaid
  <2>4. StillPaid(mmu, wire, N, Acking(s, w, r.acks))
    BY <1>6, <2>3 DEF StillPaid
  <2> QED
    BY <1>2, <2>2, <2>4 DEF N
<1> SUFFICES ASSUME ~ SynTimer, NEW u \in Switch, NEW y \in Switch, NEW d \in Host, IsHop(u, y, d)
             PROVE  HopBytes(u, y, d, mmu', oq', wire') /\ HopPaid(u, y, d, mmu', wire')
  BY DEF BalanceOK
<1>8. HopBytes(u, y, d, mmu, oq, wire) /\ HopPaid(u, y, d, mmu, wire)
  BY DEF BalanceOK
<1>9. HopPaid(u, y, d, mmu', wire')
  BY <1>7, <1>8 DEF StillPaid
<1> DEFINE N == mmu'
           P == oq'
           X == wire'
<1>10. /\ (\A x \in Switch : N[x].nxtData = mmu[x].nxtData) /\ P = [oq EXCEPT ![l] = Tail(oq[l])] /\ SameBytes(w, X)
       /\ SystemOK(N, P, X) /\ N[s] = r.m /\ r.m.rcvData = mmu[s].rcvData /\ N[s].groups = mmu[s].groups
       /\ \A z \in Switch : z # s => N[z] = mmu[z]
  BY <1>1, <1>5, <1>7
<1> HIDE DEF N, P, X
<1>11. SentBytes(u, d, N, P) - Bytes(X[<<u, y>>], d, Node) = SentBytes(u, d, mmu, oq) - Bytes(wire[<<u, y>>], d, Node)
  <2> DEFINE k == l
  <2>1. k \in Link /\ k = <<s, t>> /\ Leaves(k, t, p, oq, wire, P, w)
    BY <1>1, <1>10, SMTT(30) DEF w, Leaves
  <2> HIDE DEF k, w, l
  <2>2. /\ SystemOK(mmu, oq, wire) /\ s \in Switch /\ p \in Packet /\ SameBytes(w, X)
        /\ SentSame(mmu, N)
    BY <1>1, <1>10 DEF SentSame
  <2> QED
    BY <2>1, <2>2, LeavesSide
<1>12. StoreCounted(y, u, d, mmu, oq, N, P)
  <2>1. CASE y = s
    <3> DEFINE k == l
    <3>1. k = PortTo(s, p.dst) /\ oq[k] # << >> /\ p = Head(oq[k]) /\ P = [oq EXCEPT ![k] = Tail(oq[k])] /\ N[s].groups = mmu[s].groups
      BY <1>1, <1>10
    <3> HIDE DEF k
    <3>2. Unheld(s, u, d, p, mmu, oq, N, P)
      BY <1>1, <3>1, Unholds
    <3>3. StoreCounted(s, u, d, mmu, oq, N, P)
      BY <1>1, <1>4, <1>8, <1>10, <2>1, <3>2, LeavesStore
    <3> QED
      BY <2>1, <3>3
  <2>2. CASE y # s
    <3>1. Elsewhere(s, mmu, oq, N, P)
      <4>1. \A h \in Link : h[1] # s => P[h] = oq[h]
        <5> SUFFICES ASSUME NEW h \in Link, h[1] # s PROVE P[h] = oq[h]
          OBVIOUS
        <5>1. h # l
          OBVIOUS
        <5> HIDE DEF l
        <5> QED
          BY <1>3, <1>10, <5>1, Zenon
      <4> QED
        BY <1>10, <4>1 DEF Elsewhere
    <3>2. StoreSame(y, u, d, mmu, oq, N, P) /\ NotedSame(y, u, d, mmu, N)
      BY <2>2, <3>1, StoreElsewhere
    <3>3. mmu[y].nxtAck[u][d] \in Nat /\ mmu[y].rcvData[u][d] \in Nat
      BY BackLink
    <3> QED
      BY <1>8, <3>2, <3>3 DEF StoreCounted, StoreSame, NotedSame, KeptAt, HopBytes
  <2> QED
    BY <2>1, <2>2
<1>13. HopBytes(u, y, d, N, P, X)
  BY <1>8, <1>10, <1>11, <1>12, HopShares
<1> QED
  BY <1>9, <1>13 DEF N, P, X

LEMMA ReceiveBalance ==
  ASSUME settings \in Configuration, SystemOK(mmu, oq, wire), HopsOK(mmu, oq, wire), BalanceOK(mmu, oq, wire),
         NEW l \in Wire, Receive(l[2], l[1]), losses \in Nat, losses' = losses
  PROVE  BalanceOK(mmu', oq', wire')
<1> DEFINE n == l[1]
           s == l[2]
           x == Head(wire[<<n, s>>])
<1>1. n \in Switch /\ s \in Switch /\ n \in Upstream(s) /\ l = <<n, s>> /\ <<n, s>> \in Wire
  BY Links
<1>2. wire[<<n, s>>] # << >>
  BY DEF Receive
<1>3. losses' # losses + 1
  OBVIOUS
<1>4. \/ x.kind = "DATA" /\ ReceiveData(s, n, x)
      \/ x.kind = "ACK" /\ ReceiveAck(s, n, x.credit)
      \/ x.kind = "SYN" /\ ReceiveSYN(s, n, x)
  BY <1>3 DEF Receive
<1> HIDE DEF n, s
<1> DEFINE y == x
<1>5. y = Head(wire[<<n, s>>])
  OBVIOUS
<1> HIDE DEF x, y
<1>6. CASE x.kind = "DATA" /\ ReceiveData(s, n, x)
  <2>1. Arrived(s, n, y)
    BY <1>1, <1>2, <1>5, <1>6, Arrives DEF y
  <2> QED
    BY <1>1, <2>1, DataBalance
<1>7. CASE x.kind = "ACK" /\ ReceiveAck(s, n, x.credit)
  <2>1. AckTaken(s, n, y.credit) /\ y.kind = "ACK"
    BY <1>1, <1>2, <1>5, <1>7, AckReceived DEF y
  <2> QED
    BY <1>1, <1>2, <1>5, <2>1, AckBalance
<1>8. CASE x.kind = "SYN" /\ ReceiveSYN(s, n, x)
  <2>1. SynTaken(s, <<n, s>>)
    BY <1>1, <1>2, <1>5, <1>8, SynReceived DEF y
  <2> QED
    BY <2>1 DEF SynTaken, BalanceOK
<1> QED
  BY <1>4, <1>6, <1>7, <1>8

\* As long as nothing is lost the windows balance.
LEMMA BalanceStep ==
  ASSUME settings \in Configuration, SystemOK(mmu, oq, wire), sent \in [Flow -> Nat], HopsOK(mmu, oq, wire),
         BalanceOK(mmu, oq, wire), losses \in Nat, losses' = losses, Next
  PROVE  BalanceOK(mmu', oq', wire')
<1>1. ASSUME NEW f \in Flow, HostSend(f) PROVE BalanceOK(mmu', oq', wire')
  BY <1>1, HostBalance
<1>2. ASSUME NEW l \in Link, Transmit(l[1], l[2]) PROVE BalanceOK(mmu', oq', wire')
  <2> DEFINE s == l[1]
             t == l[2]
             p == Head(oq[<<s, t>>])
  <2>1. <<s, t>> \in Link /\ Transmit(s, t) /\ p = Head(oq[<<s, t>>])
    BY <1>2, Links
  <2> HIDE DEF s, t, p
  <2>2. Departed(s, t, p)
    BY <2>1, Departs
  <2>3. SystemOK(mmu', oq', wire')
    BY <2>1, Transmits
  <2> QED
    BY <2>2, <2>3, TransmitBalance
<1>3. ASSUME NEW l \in Wire, Receive(l[2], l[1]) PROVE BalanceOK(mmu', oq', wire')
  BY <1>3, ReceiveBalance
<1>4. ASSUME NEW l \in Wire, NEW d \in Host, CreditTimeout(l[2], l[1], d) PROVE BalanceOK(mmu', oq', wire')
  <2>1. l[2] \in Switch /\ l[1] \in Upstream(l[2])
    BY Links
  <2>2. CreditsSent(l[2])
    BY <1>4, <2>1, CreditsTimeOut
  <2> QED
    BY <2>1, <2>2, CreditBalance
<1>5. ASSUME NEW l \in Wire, SynTimeout(l[1], l[2]) PROVE BalanceOK(mmu', oq', wire')
  <2>1. <<l[1], l[2]>> \in Wire
    BY Links
  <2>2. SynSent(l[1], <<l[1], l[2]>>)
    BY <1>5, <2>1, SynsTimeOut
  <2> QED
    BY <2>2 DEF SynSent, BalanceOK
<1> QED
  BY <1>1, <1>2, <1>3, <1>4, <1>5 DEF Next

LEMMA BalancePrimed ==
  ASSUME settings' = settings, BalanceOK(mmu', oq', wire')
  PROVE  BalanceOK(mmu, oq, wire)'
<1>1. Absolute' = Absolute /\ SynTimer' = SynTimer
  BY DEF Absolute, SynTimer
<1>2. Places' = Places
  BY DEF Places, Ids, VoqLimit, DynamicHash
<1>3. \A s, d, k, st, lo, hi : LinedAt(s, d, k, st, lo, hi)' <=> LinedAt(s, d, k, st, lo, hi)
  BY <1>2 DEF LinedAt
<1>4. \A u, s, d : HopBytes(u, s, d, mmu, oq, wire)' <=> HopBytes(u, s, d, mmu', oq', wire')
  BY <1>1, <1>3 DEF HopBytes, SentBytes, HeldBytes
<1>5. \A u, s, d : HopPaid(u, s, d, mmu, wire)' <=> HopPaid(u, s, d, mmu', wire')
  BY <1>1 DEF HopPaid, Paid
<1> QED
  BY <1>1, <1>4, <1>5 DEF BalanceOK
-----------------------------------------------------------------------------
(* The invariant *)

LEMMA Received ==
  ASSUME settings \in Configuration, SystemOK(mmu, oq, wire), NEW l \in Wire, Receive(l[2], l[1])
  PROVE  SystemOK(mmu', oq', wire')
<1> DEFINE n == l[1]
           s == l[2]
           x == Head(wire[<<n, s>>])
<1>1. n \in Switch /\ s \in Switch /\ n \in Upstream(s) /\ l = <<n, s>>
  BY Links
<1>2. wire[<<n, s>>] # << >>
  BY DEF Receive
<1>3. \/ x.kind = "DATA" /\ ReceiveData(s, n, x)
      \/ x.kind = "ACK" /\ ReceiveAck(s, n, x.credit)
      \/ x.kind = "SYN" /\ ReceiveSYN(s, n, x)
      \/ mmu' = mmu /\ oq' = oq /\ wire' = [wire EXCEPT ![<<n, s>>] = Tail(@)]
  BY DEF Receive
<1>4. ASSUME mmu' = mmu, oq' = oq, wire' = [wire EXCEPT ![<<n, s>>] = Tail(@)] PROVE SystemOK(mmu', oq', wire')
  <2>1. wire' = Handled(wire, l) /\ wire[l] # << >>
    BY <1>1, <1>2, <1>4, Zenon DEF Handled
  <2> QED
    BY <1>4, <2>1, FrameLost, Zenon
<1> HIDE DEF n, s
<1>5. <<n, s>> \in Wire
  BY <1>1
<1> DEFINE y == x
<1>6. y = Head(wire[<<n, s>>])
  OBVIOUS
<1> HIDE DEF x, y
<1>7. CASE x.kind = "DATA" /\ ReceiveData(s, n, x)
  BY <1>1, <1>2, <1>6, <1>7, DataReceived DEF y
<1>8. CASE x.kind = "ACK" /\ ReceiveAck(s, n, x.credit)
  BY <1>1, <1>2, <1>5, <1>6, <1>8, AckReceived DEF y
<1>9. CASE x.kind = "SYN" /\ ReceiveSYN(s, n, x)
  BY <1>1, <1>2, <1>6, <1>9, SynReceived DEF y
<1> QED
  BY <1>3, <1>4, <1>7, <1>8, <1>9

LEMMA SystemStep ==
  ASSUME settings \in Configuration, SystemOK(mmu, oq, wire), sent \in [Flow -> Nat], Next
  PROVE  SystemOK(mmu', oq', wire') /\ settings' = settings
<1>1. ASSUME NEW f \in Flow, HostSend(f) PROVE SystemOK(mmu', oq', wire')
  BY <1>1, HostSends
<1>2. ASSUME NEW l \in Link, Transmit(l[1], l[2]) PROVE SystemOK(mmu', oq', wire')
  <2>1. <<l[1], l[2]>> \in Link
    BY Links
  <2> QED
    BY <1>2, <2>1, Transmits
<1>3. ASSUME NEW l \in Wire, Receive(l[2], l[1]) PROVE SystemOK(mmu', oq', wire')
  BY <1>3, Received
<1>4. ASSUME NEW l \in Wire, NEW d \in Host, CreditTimeout(l[2], l[1], d) PROVE SystemOK(mmu', oq', wire')
  <2>1. l[2] \in Switch /\ l[1] \in Upstream(l[2])
    BY Links
  <2> QED
    BY <1>4, <2>1, CreditsTimeOut
<1>5. ASSUME NEW l \in Wire, SynTimeout(l[1], l[2]) PROVE SystemOK(mmu', oq', wire')
  <2>1. <<l[1], l[2]>> \in Wire
    BY Links
  <2> QED
    BY <1>5, <2>1, SynsTimeOut
<1> QED
  BY <1>1, <1>2, <1>3, <1>4, <1>5 DEF Next

\* The settings do not change, so that a state of the system that is well by
\* the settings of before is well.
LEMMA SettingsKept ==
  ASSUME settings' = settings, SystemOK(mmu', oq', wire')
  PROVE  SystemOK(mmu, oq, wire)'
<1>1. /\ VoqLimit' = VoqLimit /\ Window' = Window /\ Absolute' = Absolute /\ Mode' = Mode
      /\ SynTimer' = SynTimer /\ DynamicHash' = DynamicHash
  BY DEF VoqLimit, Window, Absolute, Mode, SynTimer, DynamicHash
<1>2. Ids' = Ids /\ Places' = Places
  BY <1>1 DEF Ids, Places
<1>3. \A s : MmuType(s)' = MmuType(s)
  BY <1>2 DEF MmuType, GroupType
<1>4. \A g, d : VG!FindVOQId(g, d)' = VG!FindVOQId(g, d)
  BY <1>1 DEF VG!FindVOQId
<1>5. \A s, m, d : Bound(s, m, d)' = Bound(s, m, d)
  BY <1>4 DEF Bound
<1>6. \A s, m : VoqsOK(s, m)' <=> VoqsOK(s, m)
  BY <1>1, <1>2, <1>5 DEF VoqsOK, Placed, Counted, Needed
<1>7. \A s, m, p : Here(s, m, p)' <=> Here(s, m, p)
  BY <1>1 DEF Here
<1>8. \A s, m : Waits(s, m)' <=> Waits(s, m)
  BY <1>2, <1>7 DEF Waits
<1>9. \A s, m : VoqsGood(s, m)' <=> VoqsGood(s, m)
  BY <1>6, <1>8 DEF VoqsGood
<1>10. \A m : Lacks(m)' <=> Lacks(m)
  BY <1>1, <1>2 DEF Lacks, CheckDstWin
<1>11. \A s, m : Owes(s, m)' <=> Owes(s, m)
  BY <1>1 DEF Owes
<1>12. \A s, m : StateOK(s, m)' <=> StateOK(s, m)
  BY <1>3, <1>9, <1>10, <1>11 DEF StateOK
<1>13. \A l, m, p : Queued(l, m, p)' <=> Queued(l, m, p)
  BY <1>1, <1>7 DEF Queued, Out
<1>14. \A l, m, x : Carried(l, m, x)' <=> Carried(l, m, x)
  BY <1>1 DEF Carried, Out, Gives
<1>15. \A l, a, b : Pair(l, a, b)' <=> Pair(l, a, b)
  BY <1>1 DEF Pair
<1> QED
  BY <1>12, <1>13, <1>14, <1>15 DEF SystemOK

\* What has arrived of a flow was sent, and is in order.
LEMMA FlowArrives ==
  ASSUME NEW M, NEW Q, NEW W, NEW S \in [Flow -> Nat], NEW R, FlowsOK(M, Q, W, S, R), NEW f \in Flow
  PROVE  \E b : b \in Int /\ Arriving(R[f], b) /\ b <= S[f]
<1>1. PICK n, path : RouteOf(f, n, path)
  BY FlowsRouted DEF RouteOf
<1>2. PICK A, B : FlowLines(f, n, path, A, B, M, Q, W, S[f], R[f])
  BY <1>1 DEF FlowsOK, FlowOn
<1>3. n \in 1 .. n
  BY <1>1, RouteIs
<1>4. /\ A[n] \in Int /\ B[n] \in Int /\ A[n] <= S[f] /\ Arriving(R[f], B[n])
      /\ LinedAt(path[n], FlowDst[f], SeqKey(f), At(M, Q, path[n]), B[n], A[n])
  BY <1>2, <1>3 DEF FlowLines
<1>5. B[n] <= A[n]
  BY <1>4, LineBounds
<1> QED
  BY <1>4, <1>5

\* The balance of a hop, as its two switches keep it.
LEMMA HopBalances ==
  ASSUME SystemOK(mmu, oq, wire), NEW u \in Switch, NEW s \in Switch, NEW d \in Host, IsHop(u, s, d),
         settings \in Configuration, HopBytes(u, s, d, mmu, oq, wire)
  PROVE  mmu[u].nxtData[d] = mmu[s].nxtAck[u][d] + Held(s, u, d) + OnLink(u, s, d)
<1> DEFINE a == mmu[s].nxtAck[u][d]
           b == mmu[u].nxtData[d]
           h == HeldBytes(s, u, d, mmu, oq)
           x == Bytes(oq[<<u, s>>], d, Node)
           y == Bytes(wire[<<u, s>>], d, Node)
<1>1. /\ <<u, s>> \in Wire /\ <<u, s>> \in Link /\ PortTo(u, d) = <<u, s>> /\ b \in Nat
      /\ oq[<<u, s>>] \in Seq(Packet) /\ wire[<<u, s>>] \in Seq(Frame)
  BY HopIs
<1>2. a \in Nat
  BY BackLink
<1>3. x \in Nat /\ y \in Nat
  BY <1>1, PacketsAreFrames, BytesAre
<1>4. h = Held(s, u, d)
  BY DEF HeldBytes, Held, Total, At, PortTo
<1>5. b - x = a + h + y
  BY <1>1 DEF HopBytes, SentBytes
<1>6. h \in Int
  BY HeldType
<1> HIDE DEF a, b, h, x, y
<1>7. b = a + h + (x + y)
  BY <1>1, <1>2, <1>3, <1>5, <1>6
<1> QED
  BY <1>4, <1>7 DEF OnLink, a, b, x, y

LEMMA PaidBalances ==
  ASSUME SystemOK(mmu, oq, wire), NEW u \in Switch, NEW s \in Switch, NEW d \in Host, IsHop(u, s, d),
         HopPaid(u, s, d, mmu, wire)
  PROVE  LET w == wire[<<s, u>>]
         IN mmu[s].lstAck[u][d] =
              IF Absolute THEN Max({mmu[u].rcvAck[d]} \cup {Credited(x, d) : x \in Range(w)})
              ELSE mmu[u].rcvAck[d] + CellSum([i \in DOMAIN w |-> Credited(w[i], d)])
<1> DEFINE l == <<s, u>>
           w == wire[l]
           c == mmu[u].rcvAck[d]
           z == mmu[s].lstAck[u][d]
           C == {Credited(x, d) : x \in Range(w)}
<1>1. /\ l \in Wire /\ w \in Seq(Frame) /\ c \in Nat /\ z \in Nat /\ (Absolute => c <= z)
      /\ Paid(w, d, c, z)
  BY BackLink DEF HopPaid
<1>2. ASSUME NEW x \in Range(w) PROVE x \in Frame /\ Credited(x, d) \in Nat /\ (Absolute => Credited(x, d) <= z)
  <2>1. PICK i \in DOMAIN w : x = w[i]
    BY DEF Range
  <2>2. x \in Frame
    BY <1>1, <2>1
  <2>3. Credited(x, d) \in Nat
    BY <2>2, CreditType DEF CreditIn
  <2>4. Carried(l, mmu[s], x)
    <3>1. Carried(l, mmu[l[1]], w[i])
      BY <1>1, <2>1 DEF SystemOK
    <3> QED
      BY <2>1, <3>1
  <2>5. ASSUME Absolute PROVE Credited(x, d) <= z
    <3>1. CASE x.kind = "ACK" /\ d \in DOMAIN x.credit
      BY <2>4, <2>5, <3>1 DEF Credited, Carried, Gives
    <3>2. CASE ~ (x.kind = "ACK" /\ d \in DOMAIN x.credit)
      BY <1>1, <3>2 DEF Credited
    <3> QED
      BY <3>1, <3>2
  <2> QED
    BY <2>2, <2>3, <2>5
<1>3. CASE Absolute
  <2>1. z \in {c} \cup C
    <3>1. CASE z = c
      BY <3>1
    <3>2. CASE z # c
      <4>1. PICK i \in DOMAIN w : w[i].kind = "ACK" /\ d \in DOMAIN w[i].credit /\ w[i].credit[d] = z
        BY <1>1, <1>3, <3>2 DEF Paid
      <4>2. w[i] \in Range(w) /\ Credited(w[i], d) = z
        BY <4>1 DEF Range, Credited
      <4> QED
        BY <4>2
    <3> QED
      BY <3>1, <3>2
  <2>2. \A y \in {c} \cup C : y \in Nat /\ y <= z
    BY <1>1, <1>2, <1>3
  <2> DEFINE S == {c} \cup C
  <2> HIDE DEF S, z
  <2>3. Max(S) = z
    <3>1. z \in S /\ z \in Nat /\ \A y \in S : y \in Nat /\ y <= z
      BY <1>1, <2>1, <2>2 DEF S
    <3>2. z \in S /\ \A y \in S : z >= y
      BY <3>1
    <3>3. \A x \in S : (\A y \in S : x >= y) => x = z
      BY <3>1
    <3> QED
      BY <3>2, <3>3 DEF Max
  <2> QED
    BY <1>3, <2>3 DEF S, z
<1>4. CASE ~ Absolute
  <2>1. Weights(w, CreditIn(d)) = [i \in DOMAIN w |-> Credited(w[i], d)]
    <3>1. \A i \in DOMAIN w : CreditIn(d)[w[i]] = Credited(w[i], d)
      BY <1>1 DEF CreditIn
    <3> QED
      BY <3>1, Zenon DEF Weights
  <2> QED
    BY <1>1, <1>4, <2>1 DEF Paid
<1> QED
  BY <1>3, <1>4

\* A switch before the first packet.
LEMMA EmptyOK ==
  ASSUME settings \in Configuration, NEW s \in Switch
  PROVE  StateOK(s, EmptyMmu(s))
<1> DEFINE m == EmptyMmu(s)
           Zero == [d \in Host |-> 0]
           U == [u \in Upstream(s) |-> Zero]
           F == [d \in Host |-> FALSE]
           G == [g \in {0, 1} |-> VG!EmptyGroup]
<1>1. m = [nxtData |-> Zero, rcvAck |-> Zero, fresh |-> F, buffering |-> Zero,
           groups |-> G, rcvData |-> U, nxtAck |-> U, lstAck |-> U]
  BY DEF EmptyMmu
<1>2. Zero \in Counters /\ F \in [Host -> BOOLEAN]
  BY DEF Counters
<1>3. VG!EmptyGroup \in GroupType /\ DOMAIN VG!EmptyGroup.VOQs = {} /\ DOMAIN VG!EmptyGroup.dst2voq = {}
  <2> DEFINE e == << >>
  <2>1. DOMAIN e = {} /\ \A S : e \in [{} -> S]
    OBVIOUS
  <2>2. VG!EmptyGroup = [VOQs |-> e, dst2voq |-> e]
    BY DEF VG!EmptyGroup
  <2> HIDE DEF e
  <2>3. e \in Partial(Ids, Seq(Packet)) /\ e \in Partial(Host, Ids)
    BY <2>1, PartialIs, Zenon
  <2> QED
    BY <2>1, <2>2, <2>3 DEF GroupType
<1> HIDE DEF Zero, F
<1>4. U \in [Upstream(s) -> Counters] /\ \A u \in Upstream(s) : U[u] = Zero
  BY <1>2
<1>5. G \in [{0, 1} -> GroupType] /\ \A g \in {0, 1} : G[g] = VG!EmptyGroup
  BY <1>3
<1> HIDE DEF U, G
<1>6. /\ m \in MmuType(s) /\ m.groups = G /\ m.nxtData = Zero /\ m.rcvAck = Zero /\ m.buffering = Zero
      /\ m.rcvData = U /\ m.nxtAck = U /\ m.lstAck = U
  BY <1>1, <1>2, <1>4, <1>5 DEF MmuType
<1> HIDE DEF m
<1>7. \A d \in Host : Zero[d] = 0
  BY DEF Zero
<1>8. \A v \in Places : VoqAt(m, v) = << >> /\ HeadOf(m, v) = {}
  BY <1>3, <1>5, <1>6 DEF VoqAt, InVOQ, HeadOf, Places
<1>9. VoqsGood(s, m)
  <2>1. \A v \in Places : DOMAIN VoqAt(m, v) = {}
    BY <1>8
  <2>2. Counted(m)
    <3>1. \A d \in Host : WaitingBytes(m, d, Node) = 0
      BY <1>6, <2>1, WaitingSome
    <3> QED
      BY <1>6, <1>7, <3>1 DEF Counted
  <2>3. Needed(s, m)
    BY <1>3, <1>5, <1>6 DEF Needed
  <2> QED
    BY <2>1, <2>2, <2>3 DEF VoqsGood, VoqsOK, Placed, Waits
<1>10. Lacks(m)
  BY <1>8 DEF Lacks
<1>11. Owes(s, m)
  BY <1>4, <1>6, <1>7 DEF Owes
<1> QED
  BY <1>6, <1>9, <1>10, <1>11 DEF StateOK, m

\* Before the first packet every line is empty.
LEMMA EmptyFlows ==
  ASSUME settings \in Configuration, Init
  PROVE  FlowsOK(mmu, oq, wire, sent, rcvd) /\ DOMAIN rcvd = Flow
<1>1. /\ mmu = [s \in Switch |-> EmptyMmu(s)] /\ oq = [l \in Link |-> << >>] /\ wire = [l \in Wire |-> << >>]
      /\ sent = [f \in Flow |-> 0] /\ rcvd = [f \in Flow |-> << >>]
  BY DEF Init
<1> SUFFICES ASSUME NEW f \in Flow, NEW n, NEW path, RouteOf(f, n, path)
             PROVE  FlowOn(f, n, path, mmu, oq, wire, sent[f], rcvd[f])
  BY <1>1 DEF FlowsOK
<1>2. /\ n \in Nat /\ 1 \in 1 .. n /\ path \in [1 .. n -> Switch]
      /\ \A i \in 1 .. n - 1 : i + 1 \in 1 .. n /\ i \in 1 .. n /\ <<path[i], path[i + 1]>> \in Wire
  BY RouteIs
<1> DEFINE e == << >>
           y == SeqKey(f)
           d == FlowDst[f]
           A == [i \in 1 .. n |-> 0]
<1>3. d \in Host
  BY SeqKeyOK
<1>4. DOMAIN e = {} /\ \A l \in Wire : wire[l] = e
  BY <1>1
<1> HIDE DEF e, y, d
<1>5. \A lo, hi : Numbered(e, y, lo, hi)
  BY <1>4 DEF Numbered
<1>6. ASSUME NEW s \in Switch PROVE LinedAt(s, d, y, At(mmu, oq, s), 0, 0)
  <2> DEFINE st == At(mmu, oq, s)
  <2>1. st.q[PortTo(s, d)] = e
    <3>1. PortTo(s, d) \in Link
      BY <1>3, PortIn DEF PortTo
    <3> QED
      BY <1>1, <3>1 DEF At, e
  <2>2. ASSUME NEW v \in Places PROVE VoqAt(st.m, v) = e
    <3>1. st.m.groups = [g \in {0, 1} |-> VG!EmptyGroup]
      BY <1>1, Zenon DEF At, EmptyMmu
    <3>2. DOMAIN VG!EmptyGroup.VOQs = {}
      BY DEF VG!EmptyGroup
    <3>3. v[1] \in {0, 1}
      BY DEF Places
    <3> HIDE DEF st
    <3> QED
      BY <3>1, <3>2, <3>3 DEF VoqAt, InVOQ, e
  <2> HIDE DEF st
  <2>3. /\ 0 \in Int /\ 0 <= 0 /\ Numbered(st.q[PortTo(s, d)], y, 0, 0)
        /\ \A v \in Places : Numbered(VoqAt(st.m, v), y, 0, 0)
    BY <1>5, <2>1, <2>2
  <2>4. LinedAt(s, d, y, st, 0, 0)
    BY <2>3 DEF LinedAt
  <2> QED
    BY <2>4 DEF st
<1>7. A \in [1 .. n -> Int] /\ \A i \in 1 .. n : A[i] = 0
  OBVIOUS
<1>8. n \in 1 .. n
  BY <1>2
<1>9. Arriving(rcvd[f], A[n]) /\ sent[f] = 0
  <2>1. rcvd[f] \in Seq(Int) /\ Len(rcvd[f]) = 0 /\ DOMAIN rcvd[f] = {} /\ sent[f] = 0
    BY <1>1
  <2> QED
    BY <1>7, <1>8, <2>1 DEF Arriving
<1> HIDE DEF A
<1>10. \A i \in 1 .. n : A[i] <= sent[f] /\ LinedAt(path[i], FlowDst[f], SeqKey(f), At(mmu, oq, path[i]), A[i], A[i])
  BY <1>2, <1>6, <1>7, <1>9 DEF y, d
<1>11. \A i \in 1 .. n - 1 : A[i + 1] <= A[i] /\ Numbered(wire[<<path[i], path[i + 1]>>], SeqKey(f), A[i + 1], A[i])
  BY <1>2, <1>4, <1>5, <1>7 DEF y
<1>12. FlowLines(f, n, path, A, A, mmu, oq, wire, sent[f], rcvd[f])
  BY <1>7, <1>9, <1>10, <1>11 DEF FlowLines
<1> QED
  BY <1>12 DEF FlowOn

\* Before the first packet every window is whole.
LEMMA EmptyBalance ==
  ASSUME settings \in Configuration, Init
  PROVE  BalanceOK(mmu, oq, wire)
<1>1. mmu = [s \in Switch |-> EmptyMmu(s)] /\ oq = [l \in Link |-> << >>] /\ wire = [l \in Wire |-> << >>]
  BY DEF Init
<1> SUFFICES ASSUME NEW u \in Switch, NEW s \in Switch, NEW d \in Host, IsHop(u, s, d)
             PROVE  HopBytes(u, s, d, mmu, oq, wire) /\ HopPaid(u, s, d, mmu, wire)
  BY DEF BalanceOK
<1>2. /\ <<u, s>> \in Wire /\ <<s, u>> \in Wire /\ u \in Upstream(s)
      /\ PortTo(u, d) \in Link /\ PortTo(s, d) \in Link
  <2>1. <<u, s>> \in Wire /\ u \in Upstream(s)
    BY Links DEF IsHop, Upstream
  <2>2. PortTo(u, d) \in Link /\ PortTo(s, d) \in Link
    BY PortIn DEF PortTo
  <2> QED
    BY <2>1, <2>2, BackWire
<1> DEFINE e == << >>
           m == mmu[s]
           st == At(mmu, oq, s)
<1>3. wire[<<u, s>>] = e /\ wire[<<s, u>>] = e /\ oq[PortTo(u, d)] = e /\ oq[PortTo(s, d)] = e /\ DOMAIN e = {} /\ e \in Seq(Frame)
  BY <1>1, <1>2
<1>4. /\ mmu[u].nxtData[d] = 0 /\ mmu[u].rcvAck[d] = 0
      /\ m.nxtAck[u][d] = 0 /\ m.rcvData[u][d] = 0 /\ m.lstAck[u][d] = 0
  BY <1>1, <1>2 DEF EmptyMmu
<1>5. m \in MmuType(s)
  BY <1>1, EmptyOK DEF StateOK
<1>6. ASSUME NEW v \in Places PROVE VoqAt(m, v) = e
  <2>1. m.groups = [g \in {0, 1} |-> VG!EmptyGroup]
    BY <1>1, Zenon DEF EmptyMmu
  <2>2. DOMAIN VG!EmptyGroup.VOQs = {}
    BY DEF VG!EmptyGroup
  <2>3. v[1] \in {0, 1}
    BY DEF Places
  <2> HIDE DEF m
  <2> QED
    BY <2>1, <2>2, <2>3 DEF VoqAt, InVOQ
<1>7. st.m = m /\ st.q = oq
  BY DEF At
<1> HIDE DEF e, m, st
<1>8. \A k, U : Bytes(e, k, U) = 0
  BY <1>3, BytesNone
<1>9. WaitingBytes(m, d, {u}) = 0
  BY <1>3, <1>5, <1>6, WaitingSome
<1>10. SentBytes(u, d, mmu, oq) = 0 /\ HeldBytes(s, u, d, mmu, oq) = 0 /\ Bytes(wire[<<u, s>>], d, Node) = 0
  <2>1. HeldBytes(s, u, d, mmu, oq) = 0
    BY <1>3, <1>7, <1>8, <1>9 DEF HeldBytes, Total, st
  <2> QED
    BY <1>3, <1>4, <1>8, <2>1 DEF SentBytes
<1>11. LinedAt(s, d, InKey(u, d), st, 0, 0)
  <2>1. \A k, lo, hi : Numbered(e, k, lo, hi)
    BY <1>3 DEF Numbered
  <2>2. /\ 0 \in Int /\ 0 <= 0 /\ Numbered(st.q[PortTo(s, d)], InKey(u, d), 0, 0)
        /\ \A v \in Places : Numbered(VoqAt(st.m, v), InKey(u, d), 0, 0)
    BY <1>3, <1>6, <1>7, <2>1
  <2> QED
    BY <2>2 DEF LinedAt
<1>12. HopBytes(u, s, d, mmu, oq, wire)
  BY <1>4, <1>10, <1>11 DEF HopBytes, st, m
<1>13. Paid(wire[<<s, u>>], d, 0, 0)
  <2>1. CellSum(Weights(e, CreditIn(d))) = 0
    <3> DEFINE n == Weights(e, CreditIn(d))
    <3>1. n \in [1 .. Len(e) -> Nat] /\ \A i \in 1 .. Len(e) : n[i] = 0
      <4>1. n \in [1 .. Len(e) -> Nat]
        BY <1>3, CreditType, WeightsType
      <4>2. 1 .. Len(e) = {}
        BY DEF e
      <4> QED
        BY <4>1, <4>2
    <3> HIDE DEF n
    <3>2. CellSum(n) = 0
      BY <3>1, CellsNone
    <3> QED
      BY <3>2 DEF n
  <2> QED
    BY <1>3, <2>1 DEF Paid
<1> QED
  BY <1>4, <1>12, <1>13 DEF HopPaid, m

LEMMA Initially == Init => FloodgateInv
<1> SUFFICES ASSUME Init PROVE FloodgateInv
  OBVIOUS
<1>1. /\ settings \in Configuration /\ mmu = [s \in Switch |-> EmptyMmu(s)]
      /\ oq = [l \in Link |-> << >>] /\ wire = [l \in Wire |-> << >>]
      /\ sent = [f \in Flow |-> 0] /\ losses = 0 /\ aborted = FALSE
  BY DEF Init
<1>2. \A s \in Switch : StateOK(s, mmu[s]) /\ mmu[s] = EmptyMmu(s)
  BY <1>1, EmptyOK
<1>3. ASSUME NEW l \in Wire PROVE Pair(l, mmu[l[1]], mmu[l[2]])
  <2>1. l[1] \in Upstream(l[2]) /\ l[1] \in Switch /\ l[2] \in Switch
    BY Links
  <2>2. mmu[l[1]] = EmptyMmu(l[1]) /\ mmu[l[2]] = EmptyMmu(l[2])
    BY <1>2, <2>1
  <2> QED
    BY <2>1, <2>2 DEF Pair, EmptyMmu
<1>4. SystemOK(mmu, oq, wire)
  BY <1>1, <1>2, <1>3 DEF SystemOK
<1>5. sent \in [Flow -> Nat] /\ \A f \in Flow : sent[f] <= Len(Sizes[f])
  <2>1. \A f \in Flow : Len(Sizes[f]) \in Nat
    BY <1>1, SettingTypes
  <2> QED
    BY <1>1, <2>1
<1>6. losses \in 0 .. MaxLoss
  <2>1. MaxLoss \in Nat
    BY <1>1, SettingTypes
  <2> QED
    BY <1>1, <2>1
<1> QED
  BY <1>1, <1>4, <1>5, <1>6, EmptyFlows, EmptyHops, EmptyBalance, Zenon DEF FloodgateInv

LEMMA EventKeeps == FloodgateInv /\ [Next]_vars => FloodgateInv'
<1> SUFFICES ASSUME FloodgateInv, [Next]_vars PROVE FloodgateInv'
  OBVIOUS
<1>1. CASE UNCHANGED vars
  <2>1. SystemOK(mmu', oq', wire') /\ settings' = settings
    BY <1>1 DEF vars, FloodgateInv
  <2>2. SystemOK(mmu, oq, wire)'
    BY <2>1, SettingsKept
  <2>3. FlowsOK(mmu', oq', wire', sent', rcvd') /\ DOMAIN rcvd' = Flow
    BY <1>1 DEF vars, FloodgateInv
  <2>4. FlowsOK(mmu, oq, wire, sent, rcvd)'
    BY <2>1, <2>3, FlowsPrimed
  <2>5. HopsOK(mmu', oq', wire')
    BY <1>1 DEF vars, FloodgateInv
  <2>6. HopsOK(mmu, oq, wire)'
    BY <2>1, <2>5, HopsPrimed
  <2>7. losses' = 0 => BalanceOK(mmu', oq', wire')
    BY <1>1 DEF vars, FloodgateInv
  <2>8. losses' = 0 => BalanceOK(mmu, oq, wire)'
    BY <2>1, <2>7, BalancePrimed
  <2> QED
    BY <1>1, <2>2, <2>3, <2>4, <2>6, <2>8 DEF FloodgateInv, vars, Sizes, MaxLoss
<1>2. CASE Next
  <2>1. SystemOK(mmu', oq', wire') /\ settings' = settings
    BY <1>2, SystemStep DEF FloodgateInv
  <2>2. SystemOK(mmu, oq, wire)'
    BY <2>1, SettingsKept
  <2>3. Sizes' = Sizes /\ MaxLoss' = MaxLoss /\ MaxLoss \in Nat /\ \A f \in Flow : Len(Sizes[f]) \in Nat
    BY <2>1, SettingTypes DEF Sizes, MaxLoss, FloodgateInv
  <2>4. sent' \in [Flow -> Nat] /\ \A f \in Flow : sent'[f] <= Len(Sizes[f])
    <3>1. sent' = sent \/ \E f \in Flow : sent[f] < Len(Sizes[f]) /\ sent' = [sent EXCEPT ![f] = @ + 1]
      BY <1>2, ZenonT(30) DEF Next, HostSend, Transmit, Receive, ReceiveData, ReceiveAck, ReceiveSYN, CreditTimeout, SynTimeout
    <3> QED
      BY <2>3, <3>1 DEF FloodgateInv
  <2>5. losses' \in 0 .. MaxLoss /\ losses \in Nat /\ (losses' = 0 => losses = 0)
    <3>1. losses' = losses \/ (losses < MaxLoss /\ losses' = losses + 1)
      BY <1>2, ZenonT(30) DEF Next, HostSend, Transmit, Receive, ReceiveData, ReceiveAck, ReceiveSYN, CreditTimeout, SynTimeout, MayLose
    <3> QED
      BY <2>3, <3>1 DEF FloodgateInv
  <2>6. aborted' \in BOOLEAN
    BY <1>2, ZenonT(30) DEF Next, HostSend, Transmit, Receive, ReceiveData, ReceiveAck, ReceiveSYN, CreditTimeout, SynTimeout, FloodgateInv
  <2>7. FlowsOK(mmu', oq', wire', sent', rcvd') /\ DOMAIN rcvd' = Flow
    BY <1>2, FlowsStep DEF FloodgateInv
  <2>8. FlowsOK(mmu, oq, wire, sent, rcvd)'
    BY <2>1, <2>7, FlowsPrimed
  <2>9. HopsOK(mmu', oq', wire')
    BY <1>2, HopsStep DEF FloodgateInv
  <2>10. HopsOK(mmu, oq, wire)'
    BY <2>1, <2>9, HopsPrimed
  <2>11. losses' = 0 => BalanceOK(mmu', oq', wire')
    <3> SUFFICES ASSUME losses' = 0 PROVE BalanceOK(mmu', oq', wire')
      OBVIOUS
    <3>1. losses = 0 /\ losses \in Nat /\ losses' = losses
      BY <2>5
    <3> QED
      BY <1>2, <3>1, BalanceStep DEF FloodgateInv
  <2>12. losses' = 0 => BalanceOK(mmu, oq, wire)'
    BY <2>1, <2>11, BalancePrimed
  <2> QED
    BY <2>1, <2>2, <2>3, <2>4, <2>5, <2>6, <2>7, <2>8, <2>10, <2>12 DEF FloodgateInv
<1> QED
  BY <1>1, <1>2

THEOREM Invariant == Spec => []FloodgateInv
  BY Initially, EventKeeps, PTL DEF Spec

-----------------------------------------------------------------------------
(* The theorems *)

\* m_buffering is the bytes in the VOQs, a packet waits in the VOQ its
\* destination is bound to, and with a dynamic hash a binding or a VOQ that
\* nothing needs is released (CheckVOQWin, VOQDequeueCallback of SwitchMmu and
\* VOQGroup), in every fabric and whatever is lost.
THEOREM VoqsAgree == Spec => []VoqAccounting
<1>1. FloodgateInv => VoqAccounting
  <2> SUFFICES ASSUME FloodgateInv, NEW s \in Switch
               PROVE  /\ \A d \in Host : mmu[s].buffering[d] = WaitingBytes(mmu[s], d, Node)
                      /\ \A v \in Voqs(mmu[s]) : \A p \in Range(Voq(mmu[s], v)) : v \in FindVOQ(s, mmu[s], p.dst)
                      /\ DynamicHash => \A g \in {0, 1} :
                           /\ \A d \in DOMAIN mmu[s].groups[g].dst2voq : mmu[s].buffering[d] > 0
                           /\ \A id \in DOMAIN mmu[s].groups[g].VOQs : mmu[s].groups[g].VOQs[id] # << >>
    BY DEF VoqAccounting
  <2> DEFINE m == mmu[s]
  <2>1. m \in MmuType(s) /\ Counted(m) /\ Placed(s, m) /\ Needed(s, m)
    BY DEF FloodgateInv, SystemOK, StateOK, VoqsGood, VoqsOK
  <2> HIDE DEF m
  <2>2. ASSUME NEW v \in Voqs(m), NEW p \in Range(Voq(m, v)) PROVE v \in FindVOQ(s, m, p.dst)
    <3>1. v \in Places /\ VoqAt(m, v) = Voq(m, v) /\ v[2] \in DOMAIN m.groups[v[1]].VOQs
      <4>1. v[2] \in DOMAIN m.groups[v[1]].VOQs
        BY DEF Voqs
      <4> QED
        BY <2>1, <4>1, VoqsAre
    <3>2. PICK i \in DOMAIN VoqAt(m, v) : VoqAt(m, v)[i] = p
      BY <3>1 DEF Range
    <3>3. v \in Bound(s, m, p.dst)
      BY <2>1, <3>1, <3>2 DEF Placed
    <3>4. PICK id \in VG!FindVOQId(m.groups[Group(s, p.dst)], p.dst) : v = <<Group(s, p.dst), id>>
      BY <3>3 DEF Bound
    <3>5. id \in VG!FindVOQ(m.groups[Group(s, p.dst)], p.dst)
      BY <3>1, <3>4 DEF VG!FindVOQ
    <3> QED
      BY <3>4, <3>5 DEF FindVOQ
  <2>3. ASSUME DynamicHash, NEW g \in {0, 1}
        PROVE  /\ \A d \in DOMAIN m.groups[g].dst2voq : m.buffering[d] > 0
               /\ \A id \in DOMAIN m.groups[g].VOQs : m.groups[g].VOQs[id] # << >>
    BY <2>1, <2>3 DEF Needed, VoqAt, InVOQ
  <2> QED
    BY <2>1, <2>2, <2>3 DEF Counted, m
<1> QED
  BY <1>1, Invariant, PTL

\* No packet waits at the head of a VOQ that its window would let pass: a
\* switch ACK that opens a window (ResumeVOQWin) also sends all it allows
\* (CheckAndSendVOQ), and a SYN or an ACK that is lost opens none.
THEOREM HeadsLackWindow == Spec => []HeadLacksWindow
<1>1. FloodgateInv => HeadLacksWindow
  <2> SUFFICES ASSUME FloodgateInv, NEW s \in Switch, NEW v \in Voqs(mmu[s]), NEW p \in HeadOf(mmu[s], v)
               PROVE  ~ CheckDstWin(mmu[s], p.dst, p.size)
    BY DEF HeadLacksWindow
  <2>1. mmu[s] \in MmuType(s) /\ Lacks(mmu[s])
    BY DEF FloodgateInv, SystemOK, StateOK
  <2>2. v \in Places
    BY <2>1, VoqsAre
  <2> QED
    BY <2>1, <2>2 DEF Lacks
<1> QED
  BY <1>1, Invariant, PTL

\* The absolute counters of a hop keep their order, whatever data, switch ACKs
\* and SYNs are lost or dropped: the differences that GetInflightBytes and
\* GetIngressDstCreditCounter take are never negative.
THEOREM PsnsInOrder == Spec => []PsnOrder
<1>1. FloodgateInv => PsnOrder
  <2> SUFFICES ASSUME FloodgateInv, Absolute, NEW u \in Switch, NEW s \in Switch, NEW d \in Host, IsHop(u, s, d)
               PROVE  /\ mmu[u].rcvAck[d] <= mmu[s].lstAck[u][d]
                      /\ mmu[s].lstAck[u][d] <= mmu[s].nxtAck[u][d]
                      /\ mmu[s].nxtAck[u][d] <= mmu[s].rcvData[u][d]
                      /\ mmu[s].rcvData[u][d] <= mmu[u].nxtData[d]
    BY DEF PsnOrder
  <2>1. NextHop[u][d] = s /\ <<u, s>> \in Wire /\ u \in Upstream(s)
    BY Links DEF IsHop, Upstream
  <2>2. Pair(<<u, s>>, mmu[u], mmu[s]) /\ Owes(s, mmu[s])
    BY <2>1, PairsOf DEF FloodgateInv, Agreed, StateOK
  <2> QED
    BY <2>1, <2>2 DEF Pair, Owes
<1> QED
  BY <1>1, Invariant, PTL

\* What a window of a hop is charged with is in the egress queue or on the
\* link, held by the next switch, or given back, and what was given back has
\* arrived or is on the link: NotifyEnqueue, NotifyDequeue and ReceiveACK lose
\* no byte and create none while no frame is lost.
THEOREM WindowsConserved == Spec => []WindowConserved
<1>1. FloodgateInv => WindowConserved
  <2> SUFFICES ASSUME FloodgateInv, losses = 0, ~ SynTimer, NEW u \in Switch, NEW s \in Switch, NEW d \in Host, IsHop(u, s, d)
               PROVE  /\ mmu[u].nxtData[d] = mmu[s].nxtAck[u][d] + Held(s, u, d) + OnLink(u, s, d)
                      /\ LET w == wire[<<s, u>>]
                         IN mmu[s].lstAck[u][d] =
                              IF Absolute THEN Max({mmu[u].rcvAck[d]} \cup {Credited(x, d) : x \in Range(w)})
                              ELSE mmu[u].rcvAck[d] + CellSum([i \in DOMAIN w |-> Credited(w[i], d)])
    BY DEF WindowConserved
  <2>1. /\ SystemOK(mmu, oq, wire) /\ settings \in Configuration
        /\ HopBytes(u, s, d, mmu, oq, wire) /\ HopPaid(u, s, d, mmu, wire)
    BY DEF FloodgateInv, BalanceOK
  <2>2. mmu[u].nxtData[d] = mmu[s].nxtAck[u][d] + Held(s, u, d) + OnLink(u, s, d)
    BY <2>1, HopBalances
  <2>3. LET w == wire[<<s, u>>]
        IN mmu[s].lstAck[u][d] =
             IF Absolute THEN Max({mmu[u].rcvAck[d]} \cup {Credited(x, d) : x \in Range(w)})
             ELSE mmu[u].rcvAck[d] + CellSum([i \in DOMAIN w |-> Credited(w[i], d)])
    BY <2>1, PaidBalances
  <2> QED
    BY <2>2, <2>3
<1> QED
  BY <1>1, Invariant, PTL

\* The packets of a flow arrive in the order they were sent, whatever windows,
\* VOQs shared by destinations and losses they meet on the way (the comment in
\* CheckVOQWin: a short last packet must not pass the ones that wait).
THEOREM PacketsInOrder == Spec => []InOrder
<1>1. FloodgateInv => InOrder
  <2> SUFFICES ASSUME FloodgateInv, NEW f \in Flow, NEW i \in 1 .. Len(rcvd[f]) - 1
               PROVE  rcvd[f][i] < rcvd[f][i + 1]
    BY DEF InOrder
  <2>1. PICK b : b \in Int /\ Arriving(rcvd[f], b)
    BY FlowArrives DEF FloodgateInv
  <2>2. i \in DOMAIN rcvd[f] /\ i + 1 \in DOMAIN rcvd[f] /\ i < i + 1
    <3>1. rcvd[f] \in Seq(Int)
      BY <2>1 DEF Arriving
    <3> QED
      BY <3>1
  <2> QED
    BY <2>1, <2>2 DEF Arriving
<1> QED
  BY <1>1, Invariant, PTL

\* Without SYNs, a packet for d still on its way over a hop has a PSN beyond
\* all that the next switch counts as received, whatever is lost:
\* m_rcv_data_psn never runs ahead of the data.
THEOREM UnderwayBeyond == Spec => []UnderwayNotReceived
<1>1. FloodgateInv => UnderwayNotReceived
  <2> SUFFICES ASSUME FloodgateInv, Absolute, ~ SynTimer, NEW u \in Switch, NEW s \in Switch, NEW d \in Host, IsHop(u, s, d),
                      NEW x \in Range(oq[<<u, s>>]) \cup Range(wire[<<u, s>>]), x.kind = "DATA", x.dst = d
               PROVE  x.psn > mmu[s].rcvData[u][d]
    BY DEF UnderwayNotReceived
  <2>1. SystemOK(mmu, oq, wire) /\ HopOK(u, s, d, mmu, oq, wire)
    BY DEF FloodgateInv, HopsOK
  <2> QED
    BY <2>1, UnderwayAfter
<1> QED
  BY <1>1, Invariant, PTL

\* The counters, the packets in the queues, the frames on the links and the
\* packets of a flow stay what the code takes them to be.
THEOREM TypesOK == Spec => []TypeOK
<1>1. FloodgateInv => TypeOK
  <2> SUFFICES ASSUME FloodgateInv PROVE TypeOK
    OBVIOUS
  <2>1. /\ settings \in Configuration /\ SystemOK(mmu, oq, wire) /\ FlowsOK(mmu, oq, wire, sent, rcvd)
        /\ sent \in [Flow -> Nat] /\ (\A f \in Flow : sent[f] <= Len(Sizes[f]))
        /\ losses \in 0 .. MaxLoss /\ aborted \in BOOLEAN
    BY DEF FloodgateInv
  <2>2. ASSUME NEW s \in Switch, NEW d \in Host
        PROVE  /\ mmu[s].nxtData[d] \in Nat /\ mmu[s].rcvAck[d] \in Nat /\ mmu[s].buffering[d] \in Nat
               /\ mmu[s].fresh[d] \in BOOLEAN
               /\ \A u \in Upstream(s) : /\ mmu[s].nxtAck[u][d] \in Nat /\ mmu[s].lstAck[u][d] \in Nat
                                         /\ mmu[s].rcvData[u][d] \in Nat
    <3>1. mmu[s] \in MmuType(s)
      BY <2>1 DEF SystemOK, StateOK
    <3> QED
      BY <3>1, CountersOf DEF MmuType, Counters
  <2>3. ASSUME NEW l \in Link, NEW i \in DOMAIN oq[l] PROVE oq[l][i].dst \in Host /\ oq[l][i].seq \in Nat
    <3>1. oq[l][i] \in Packet
      BY <2>1 DEF SystemOK
    <3> QED
      BY <3>1 DEF Packet
  <2>4. ASSUME NEW l \in Wire, NEW i \in DOMAIN wire[l] PROVE wire[l][i].kind \in {"DATA", "ACK", "SYN"}
    <3>1. wire[l][i] \in Frame
      BY <2>1 DEF SystemOK
    <3> QED
      BY <3>1 DEF Frame, Packet
  <2>5. ASSUME NEW f \in Flow PROVE sent[f] \in 0 .. Len(Sizes[f]) /\ Len(rcvd[f]) <= sent[f]
    <3>1. PICK b : b \in Int /\ Arriving(rcvd[f], b) /\ b <= sent[f]
      BY <2>1, FlowArrives
    <3>2. Len(rcvd[f]) \in Nat /\ Len(rcvd[f]) <= b /\ Len(Sizes[f]) \in Nat
      BY <2>1, <3>1, SettingTypes DEF Arriving
    <3> QED
      BY <2>1, <3>1, <3>2
  <2> QED
    BY <2>1, <2>2, <2>3, <2>4, <2>5 DEF TypeOK
<1> QED
  BY <1>1, Invariant, PTL
=============================================================================
