-------------------------- MODULE EncodingProofs --------------------------
(***************************************************************************)
(* What the dictionary operators preserve, for all chunks and capacities,  *)
(* and facts about the encoders' output: the lemmas the proofs about every *)
(* transfer rest on.                                                       *)
(***************************************************************************)
EXTENDS Encoding, SequenceTheorems, FiniteSetTheorems, WellFoundedInduction,
        TLAPS

-----------------------------------------------------------------------------
(* The dictionary.                                                         *)

\* A dictionary as touch_lru maintains it.
SoundDictionary(d, max) ==
    /\ d \in Seq(Entries)
    /\ Authentic(d)
    /\ Len(d) <= max

\* Position finds the place of a key that is present.
LEMMA PositionOfKey ==
    ASSUME NEW d, NEW k \in Keys(d)
    PROVE  Position(d, k) \in DOMAIN d /\ d[Position(d, k)].cid = k
BY DEF Keys, Position

\* The chunk found under a key is a chunk, and in an authentic dictionary the
\* one the key names.
LEMMA LookupFinds ==
    ASSUME NEW d \in Seq(Entries), NEW k \in Keys(d)
    PROVE  /\ Lookup(d, k) \in Chunks
           /\ Authentic(d) => CidOf[Lookup(d, k)] = k
<1>1. Position(d, k) \in DOMAIN d /\ d[Position(d, k)].cid = k
  BY PositionOfKey
<1>2. DOMAIN d = 1 .. Len(d)
  BY LenProperties
<1>3. d[Position(d, k)] \in Entries
  BY <1>1, <1>2, ElementOfSeq
<1> QED
  BY <1>1, <1>3 DEF Lookup, Authentic, Entries

\* Others(d, k) is d without the entry of key k, in the same order.
LEMMA OthersShape ==
    ASSUME NEW d \in Seq(Entries), NEW k
    PROVE  /\ Others(d, k) \in Seq(Entries)
           /\ k \notin Keys(d) => Others(d, k) = d
           /\ k \in Keys(d) =>
                /\ Len(Others(d, k)) = Len(d) - 1
                /\ \A i \in 1 .. Len(d) - 1 :
                     Others(d, k)[i] = IF i < Position(d, k) THEN d[i]
                                                             ELSE d[i + 1]
<1>1. CASE k \notin Keys(d)
  BY <1>1 DEF Others
<1>2. CASE k \in Keys(d)
  <2> DEFINE p == Position(d, k)
             left == SubSeq(d, 1, p - 1)
             right == SubSeq(d, p + 1, Len(d))
  <2>1. Len(d) \in Nat /\ DOMAIN d = 1 .. Len(d) /\ p \in 1 .. Len(d)
    BY <1>2, PositionOfKey, LenProperties
  <2>2. \A i \in 1 .. Len(d) : d[i] \in Entries
    BY ElementOfSeq
  <2> HIDE DEF p
  <2>3. /\ left \in Seq(Entries) /\ Len(left) = p - 1
        /\ \A i \in 1 .. p - 1 : left[i] = d[i]
    <3>1. 1 \in Int /\ p - 1 \in Int /\ \A i \in 1 .. p - 1 : d[i] \in Entries
      BY <2>1, <2>2
    <3>2. /\ left \in Seq(Entries)
          /\ Len(left) = IF 1 <= p - 1 THEN p - 1 - 1 + 1 ELSE 0
          /\ \A i \in 1 .. p - 1 - 1 + 1 : left[i] = d[1 + i - 1]
      BY <3>1, SubSeqProperties
    <3> QED
      BY <2>1, <3>2
  <2>4. /\ right \in Seq(Entries) /\ Len(right) = Len(d) - p
        /\ \A i \in 1 .. Len(d) - p : right[i] = d[p + i]
    <3>1. /\ p + 1 \in Int /\ Len(d) \in Int
          /\ \A i \in p + 1 .. Len(d) : d[i] \in Entries
      BY <2>1, <2>2
    <3>2. /\ right \in Seq(Entries)
          /\ Len(right) = IF p + 1 <= Len(d) THEN Len(d) - (p + 1) + 1 ELSE 0
          /\ \A i \in 1 .. Len(d) - (p + 1) + 1 : right[i] = d[p + 1 + i - 1]
      BY <3>1, SubSeqProperties
    <3> HIDE DEF right
    <3>3. ASSUME NEW i \in 1 .. Len(d) - p
          PROVE  right[i] = d[p + i]
      <4>1. i \in 1 .. Len(d) - (p + 1) + 1 /\ p + 1 + i - 1 = p + i
        BY <2>1
      <4> QED
        BY <3>2, <4>1
    <3>4. Len(right) = Len(d) - p
      <4>1. Len(right) = IF p + 1 <= Len(d) THEN Len(d) - (p + 1) + 1 ELSE 0
        BY <3>2
      <4>2. p \in Int /\ Len(d) \in Int /\ p <= Len(d)
        BY <2>1
      <4>3. CASE p + 1 <= Len(d)
        BY <4>1, <4>2, <4>3
      <4>4. CASE ~ (p + 1 <= Len(d))
        BY <4>1, <4>2, <4>4
      <4> QED
        BY <4>3, <4>4
    <3> QED
      BY <3>2, <3>3, <3>4, Zenon
  <2>5. Others(d, k) = left \o right
    BY <1>2 DEF Others, RemoveAt, p
  <2> HIDE DEF left, right
  <2>6. /\ Others(d, k) \in Seq(Entries)
        /\ Len(Others(d, k)) = Len(left) + Len(right)
        /\ \A i \in 1 .. Len(left) + Len(right) : Others(d, k)[i]
              = IF i <= Len(left) THEN left[i] ELSE right[i - Len(left)]
    <3>1. /\ left \o right \in Seq(Entries)
          /\ Len(left \o right) = Len(left) + Len(right)
          /\ \A i \in 1 .. Len(left) + Len(right) : (left \o right)[i]
                = IF i <= Len(left) THEN left[i] ELSE right[i - Len(left)]
      BY <2>3, <2>4, ConcatProperties, Zenon
    <3> QED
      BY <2>5, <3>1
  <2>7. ASSUME NEW i \in 1 .. Len(d) - 1
        PROVE  Others(d, k)[i] = IF i < p THEN d[i] ELSE d[i + 1]
    <3> DEFINE o == Others(d, k)
    <3>0. /\ i \in 1 .. Len(left) + Len(right) /\ Len(left) = p - 1
          /\ o[i] = IF i <= Len(left) THEN left[i] ELSE right[i - Len(left)]
      BY <2>1, <2>3, <2>4, <2>6
    <3> HIDE DEF o
    <3>1. CASE i < p
      <4>1. i <= Len(left) /\ i \in 1 .. p - 1
        BY <2>1, <3>0, <3>1
      <4> QED
        BY <2>3, <3>0, <3>1, <4>1 DEF o
    <3>2. CASE ~ (i < p)
      <4>1. ~ (i <= Len(left)) /\ i - Len(left) = i - (p - 1)
        BY <2>1, <3>0, <3>2
      <4>3. o[i] = right[i - (p - 1)]
        BY <3>0, <4>1
      <4>2. i - (p - 1) \in 1 .. Len(d) - p /\ p + (i - (p - 1)) = i + 1
        BY <2>1, <3>2
      <4> QED
        BY <2>4, <3>2, <4>2, <4>3 DEF o
    <3> QED
      BY <3>1, <3>2
  <2> QED
    BY <1>2, <2>1, <2>3, <2>4, <2>6, <2>7 DEF p
<1> QED
  BY <1>1, <1>2

\* Taking an entry out keeps a dictionary authentic and removes exactly k.
LEMMA OthersSound ==
    ASSUME NEW d \in Seq(Entries), Authentic(d), NEW k
    PROVE  /\ Others(d, k) \in Seq(Entries)
           /\ Authentic(Others(d, k))
           /\ Len(Others(d, k)) <= Len(d)
           /\ Keys(Others(d, k)) = Keys(d) \ {k}
<1>1. Len(d) \in Nat /\ DOMAIN d = 1 .. Len(d)
  BY LenProperties
<1>2. CASE k \notin Keys(d)
  <2>1. Others(d, k) = d
    BY <1>2, OthersShape
  <2> QED
    BY <1>1, <1>2, <2>1
<1>3. CASE k \in Keys(d)
  <2> DEFINE p == Position(d, k)
             o == Others(d, k)
  <2>1. p \in 1 .. Len(d) /\ d[p].cid = k
    BY <1>1, <1>3, PositionOfKey
  <2>2. /\ o \in Seq(Entries) /\ Len(o) = Len(d) - 1
        /\ \A i \in 1 .. Len(d) - 1 : o[i] = IF i < p THEN d[i] ELSE d[i + 1]
    BY <1>3, OthersShape
  <2>3. DOMAIN o = 1 .. Len(d) - 1
    BY <2>2, LenProperties
  <2> HIDE DEF p, o
  <2>4. ASSUME NEW i \in DOMAIN o PROVE o[i].cid = CidOf[o[i].chunk]
    <3>1. PICK u \in 1 .. Len(d) : o[i] = d[u]
      BY <1>1, <2>1, <2>2, <2>3
    <3> QED
      BY <1>1, <3>1 DEF Authentic
  <2>5. ASSUME NEW i \in DOMAIN o, NEW j \in DOMAIN o, o[i].cid = o[j].cid
        PROVE  i = j
    <3>1. PICK u \in 1 .. Len(d) : /\ o[i] = d[u]
                                   /\ u = IF i < p THEN i ELSE i + 1
      BY <1>1, <2>1, <2>2, <2>3
    <3>2. PICK v \in 1 .. Len(d) : /\ o[j] = d[v]
                                   /\ v = IF j < p THEN j ELSE j + 1
      BY <1>1, <2>1, <2>2, <2>3
    <3>3. u = v
      BY <1>1, <2>5, <3>1, <3>2 DEF Authentic
    <3> QED
      BY <1>1, <2>1, <2>3, <3>1, <3>2, <3>3
  <2>6. ASSUME NEW i \in 1 .. Len(d), i # p
        PROVE  d[i].cid \in Keys(o)
    <3>1. PICK j \in DOMAIN o : o[j] = d[i]
      <4>1. CASE i < p
        BY <1>1, <2>1, <2>2, <2>3, <4>1
      <4>2. CASE i > p
        <5>1. i - 1 \in 1 .. Len(d) - 1 /\ ~ (i - 1 < p) /\ (i - 1) + 1 = i
          BY <1>1, <2>1, <4>2
        <5> QED
          BY <2>2, <2>3, <5>1
      <4> QED
        BY <1>1, <2>1, <2>6, <4>1, <4>2
    <3> QED
      BY <3>1 DEF Keys
  <2>7. Keys(o) \subseteq Keys(d) \ {k}
    <3> SUFFICES ASSUME NEW i \in DOMAIN o PROVE o[i].cid \in Keys(d) \ {k}
      BY DEF Keys
    <3>1. PICK u \in 1 .. Len(d) : o[i] = d[u] /\ u # p
      BY <1>1, <2>1, <2>2, <2>3
    <3> QED
      BY <1>1, <2>1, <3>1 DEF Keys, Authentic
  <2>8. Keys(d) \ {k} \subseteq Keys(o)
    BY <1>1, <2>1, <2>6 DEF Keys
  <2>9. Authentic(o)
    BY <2>4, <2>5 DEF Authentic
  <2> QED
    BY <1>1, <2>2, <2>7, <2>8, <2>9 DEF o
<1> QED
  BY <1>2, <1>3

\* Newest(d, n) is a suffix of d of at most n entries, d itself if it fits.
LEMMA NewestShape ==
    ASSUME NEW d \in Seq(Entries), NEW n \in Nat
    PROVE  /\ Newest(d, n) \in Seq(Entries)
           /\ Len(d) <= n => Newest(d, n) = d
           /\ Len(d) > n =>
                /\ Len(Newest(d, n)) = n
                /\ \A i \in 1 .. n : Newest(d, n)[i] = d[i + (Len(d) - n)]
<1>1. Len(d) \in Nat /\ \A i \in 1 .. Len(d) : d[i] \in Entries
  BY LenProperties, ElementOfSeq
<1>2. CASE Len(d) <= n
  BY <1>1, <1>2 DEF Newest
<1>3. CASE Len(d) > n
  <2> DEFINE m == Len(d) - n + 1
  <2>1. m \in Int /\ Len(d) \in Int /\ \A i \in m .. Len(d) : d[i] \in Entries
    BY <1>1, <1>3
  <2>2. Newest(d, n) = SubSeq(d, m, Len(d))
    BY <1>3 DEF Newest
  <2> HIDE DEF m
  <2>3. /\ Newest(d, n) \in Seq(Entries)
        /\ Len(Newest(d, n)) = IF m <= Len(d) THEN Len(d) - m + 1 ELSE 0
        /\ \A i \in 1 .. Len(d) - m + 1 : Newest(d, n)[i] = d[m + i - 1]
    BY <2>1, <2>2, SubSeqProperties
  <2>4. Len(Newest(d, n)) = n
    BY <1>1, <1>3, <2>3 DEF m
  <2>5. ASSUME NEW i \in 1 .. n
        PROVE  Newest(d, n)[i] = d[i + (Len(d) - n)]
    <3>1. i \in 1 .. Len(d) - m + 1 /\ m + i - 1 = i + (Len(d) - n)
      BY <1>1, <1>3 DEF m
    <3> QED
      BY <2>3, <3>1
  <2>6. ~ (Len(d) <= n)
    BY <1>1, <1>3
  <2> QED
    BY <2>3, <2>4, <2>5, <2>6, Zenon
<1> QED
  BY <1>1, <1>2, <1>3

\* Dropping old entries keeps a dictionary authentic.
LEMMA NewestSound ==
    ASSUME NEW d \in Seq(Entries), Authentic(d), NEW n \in Nat
    PROVE  /\ SoundDictionary(Newest(d, n), n)
           /\ Keys(Newest(d, n)) \subseteq Keys(d)
           /\ n # 0 /\ d # << >> => d[Len(d)].cid \in Keys(Newest(d, n))
<1> DEFINE e == Newest(d, n)
<1>1. Len(d) \in Nat /\ DOMAIN d = 1 .. Len(d) /\ e \in Seq(Entries)
  BY LenProperties, NewestShape
<1>2. CASE Len(d) <= n
  <2>1. e = d
    BY <1>2, NewestShape
  <2>2. d # << >> => Len(d) \in DOMAIN d
    BY <1>1, EmptySeq
  <2> QED
    BY <1>1, <1>2, <2>1, <2>2 DEF SoundDictionary, Keys
<1>3. CASE Len(d) > n
  <2>1. /\ Len(e) = n
        /\ \A i \in 1 .. n : e[i] = d[i + (Len(d) - n)]
    BY <1>3, NewestShape
  <2>2. DOMAIN e = 1 .. n
    BY <1>1, <2>1, LenProperties
  <2> HIDE DEF e
  <2>3. \A i \in DOMAIN e : i + (Len(d) - n) \in DOMAIN d
    BY <1>1, <1>3, <2>2
  <2>4. ASSUME NEW i \in DOMAIN e PROVE e[i].cid = CidOf[e[i].chunk]
    BY <2>1, <2>2, <2>3 DEF Authentic
  <2>5. ASSUME NEW i \in DOMAIN e, NEW j \in DOMAIN e, e[i].cid = e[j].cid
        PROVE  i = j
    <3>1. i + (Len(d) - n) = j + (Len(d) - n)
      BY <2>1, <2>2, <2>3, <2>5 DEF Authentic
    <3> QED
      BY <1>1, <2>2, <3>1
  <2>6. Keys(e) \subseteq Keys(d)
    BY <2>1, <2>2, <2>3 DEF Keys
  <2>7. n # 0 => d[Len(d)].cid \in Keys(e)
    <3>1. n # 0 => n \in DOMAIN e /\ n + (Len(d) - n) = Len(d)
      BY <1>1, <2>2
    <3> QED
      BY <2>1, <2>2, <3>1 DEF Keys
  <2> QED
    BY <1>1, <2>1, <2>4, <2>5, <2>6, <2>7 DEF SoundDictionary, Authentic, e
<1> QED
  BY <1>1, <1>2, <1>3

\* Adding an entry under a key that is absent keeps a dictionary authentic.
LEMMA AppendSound ==
    ASSUME NEW d \in Seq(Entries), Authentic(d),
           NEW c \in Chunks, CidOf[c] \in Cids, CidOf[c] \notin Keys(d)
    PROVE  LET e == Append(d, EntryOf(c))
           IN  /\ e \in Seq(Entries) /\ Authentic(e)
               /\ Len(e) = Len(d) + 1
               /\ e[Len(e)] = EntryOf(c)
               /\ Keys(e) = Keys(d) \cup {CidOf[c]}
<1> DEFINE e == Append(d, EntryOf(c))
<1>1. EntryOf(c) \in Entries /\ EntryOf(c).cid = CidOf[c]
      /\ EntryOf(c).chunk = c
  BY DEF EntryOf, Entries
<1>2. /\ e \in Seq(Entries) /\ Len(e) = Len(d) + 1
      /\ \A i \in 1 .. Len(d) : e[i] = d[i]
      /\ e[Len(d) + 1] = EntryOf(c)
  BY <1>1, AppendProperties
<1>3. Len(d) \in Nat /\ DOMAIN d = 1 .. Len(d) /\ DOMAIN e = 1 .. Len(d) + 1
  BY <1>2, LenProperties
<1> HIDE DEF e
<1>4. \A i \in DOMAIN e : i \in DOMAIN d \/ i = Len(d) + 1
  BY <1>3
<1>5. ASSUME NEW i \in DOMAIN e PROVE e[i].cid = CidOf[e[i].chunk]
  BY <1>1, <1>2, <1>3, <1>4 DEF Authentic
<1>6. ASSUME NEW i \in DOMAIN e, NEW j \in DOMAIN e, e[i].cid = e[j].cid
      PROVE  i = j
  BY <1>1, <1>2, <1>3, <1>4, <1>6 DEF Authentic, Keys
<1>7. Keys(e) = Keys(d) \cup {CidOf[c]}
  <2>1. Keys(e) \subseteq Keys(d) \cup {CidOf[c]}
    BY <1>1, <1>2, <1>3, <1>4 DEF Keys
  <2>2. Keys(d) \subseteq Keys(e)
    <3>1. \A i \in DOMAIN d : i \in DOMAIN e
      BY <1>3
    <3> QED
      BY <1>2, <1>3, <3>1 DEF Keys
  <2>3. CidOf[c] \in Keys(e)
    <3>1. Len(d) + 1 \in DOMAIN e
      BY <1>3
    <3> QED
      BY <1>1, <1>2, <3>1 DEF Keys
  <2> QED
    BY <2>1, <2>2, <2>3
<1> QED
  BY <1>2, <1>5, <1>6, <1>7 DEF Authentic, e

\* touch_lru keeps a dictionary sound; the touched key is in it afterwards and
\* every other key was in it before.
LEMMA TouchLruSound ==
    ASSUME NEW d, NEW max \in Nat \ {0}, SoundDictionary(d, max),
           NEW c \in Chunks
    PROVE  LET e == TouchLru(d, CidOf[c], c, max)
           IN  /\ SoundDictionary(e, max)
               /\ CidOf[c] \in Keys(e)
               /\ Keys(e) \subseteq Keys(d) \cup {CidOf[c]}
<1> DEFINE k == CidOf[c]
           o == Others(d, k)
           g == Append(o, EntryOf(c))
<1>1. d \in Seq(Entries) /\ Authentic(d) /\ CidOf[c] \in Cids
  BY CidAssumption DEF SoundDictionary
<1>2. o \in Seq(Entries) /\ Authentic(o) /\ Keys(o) = Keys(d) \ {k}
  BY <1>1, OthersSound
<1>3. TouchLru(d, k, c, max) = Newest(g, max)
  BY DEF TouchLru, EntryOf
<1> HIDE DEF o
<1>4. /\ g \in Seq(Entries) /\ Authentic(g)
      /\ g[Len(g)] = EntryOf(c) /\ Keys(g) = Keys(o) \cup {k}
  BY <1>1, <1>2, AppendSound
<1>5. g # << >>
  <2>1. EntryOf(c) \in Entries
    BY <1>1 DEF EntryOf, Entries
  <2> QED
    BY <1>2, <2>1, AppendProperties
<1> HIDE DEF g
<1>6. /\ SoundDictionary(Newest(g, max), max)
      /\ Keys(Newest(g, max)) \subseteq Keys(g)
      /\ g[Len(g)].cid \in Keys(Newest(g, max))
  BY <1>4, <1>5, NewestSound
<1>7. g[Len(g)].cid = k
  BY <1>4 DEF EntryOf
<1> QED
  BY <1>2, <1>3, <1>4, <1>6, <1>7

\* Warm bytes yield a sound dictionary.
LEMMA WarmSound ==
    ASSUME NEW max \in Nat, NEW d \in WarmDictionaries(max)
    PROVE  SoundDictionary(d, max)
<1>1. PICK s : /\ s \in BoundedSeq(Chunks, max) /\ IsInjective(s)
               /\ d = [i \in DOMAIN s |-> EntryOf(s[i])]
  BY DEF WarmDictionaries
<1>2. PICK m \in 0 .. max : s \in [1 .. m -> Chunks]
  BY <1>1 DEF BoundedSeq, SeqOf
<1>3. DOMAIN s = 1 .. m /\ m \in Nat /\ m <= max
  BY <1>2
<1>4. d \in [1 .. m -> Entries]
  BY <1>1, <1>2, <1>3, CidAssumption DEF EntryOf, Entries
<1>5. d \in Seq(Entries) /\ Len(d) = m
  BY <1>3, <1>4, SeqDef, LenProperties
<1>6. \A i \in 1 .. m : d[i].cid = CidOf[s[i]] /\ d[i].chunk = s[i]
  BY <1>1, <1>3 DEF EntryOf
<1>7. Authentic(d)
  <2>1. ASSUME NEW i \in 1 .. m, NEW j \in 1 .. m, CidOf[s[i]] = CidOf[s[j]]
        PROVE  i = j
    <3>1. s[i] \in Chunks /\ s[j] \in Chunks /\ DOMAIN CidOf = Chunks
      BY <1>2, CidAssumption
    <3>2. s[i] = s[j]
      BY <2>1, <3>1, CidAssumption DEF IsInjective
    <3> QED
      BY <1>1, <1>3, <3>2 DEF IsInjective
  <2> QED
    BY <1>4, <1>6, <2>1 DEF Authentic
<1> QED
  BY <1>3, <1>5, <1>7 DEF SoundDictionary

\* A dictionary that lacks some of the entries is still sound.
LEMMA KeptSound ==
    ASSUME NEW max \in Nat, NEW d, SoundDictionary(d, max),
           NEW P \in SUBSET DOMAIN d, NEW e \in Kept(d, P)
    PROVE  SoundDictionary(e, max) /\ Keys(e) \subseteq Keys(d)
<1> DEFINE n == Cardinality(P)
<1>1. /\ d \in Seq(Entries) /\ Authentic(d) /\ Len(d) \in Nat
      /\ DOMAIN d = 1 .. Len(d) /\ Len(d) <= max
  BY LenProperties DEF SoundDictionary
<1>2. P \in SUBSET (1 .. Len(d))
  BY <1>1
<1>3. n \in Nat /\ n <= Len(d)
  <2>1. 1 \in Int /\ Len(d) \in Int
    BY <1>1
  <2>2. /\ IsFiniteSet(1 .. Len(d))
        /\ Cardinality(1 .. Len(d)) = IF 1 > Len(d) THEN 0 ELSE Len(d) - 1 + 1
    BY <2>1, FS_Interval, Zenon
  <2>3. IsFiniteSet(P) /\ n <= Cardinality(1 .. Len(d))
    BY <1>2, <2>2, FS_Subset
  <2>4. n \in Nat
    BY <2>3, FS_CardinalityType
  <2> QED
    BY <1>1, <2>2, <2>3, <2>4
<1> HIDE DEF n
<1>4. PICK f : /\ f \in [1 .. n -> P]
               /\ \A i, j \in 1 .. n : i < j => f[i] < f[j]
               /\ e = [i \in DOMAIN f |-> d[f[i]]]
  BY DEF Kept, Enumerations, n
<1>5. \A i \in 1 .. n : f[i] \in 1 .. Len(d)
  BY <1>2, <1>4
<1>6. DOMAIN e = 1 .. n /\ \A i \in 1 .. n : e[i] = d[f[i]]
  BY <1>4
<1>7. e \in [1 .. n -> Entries]
  BY <1>1, <1>4, <1>5, ElementOfSeq
<1>8. e \in Seq(Entries) /\ Len(e) = n
  BY <1>3, <1>7, SeqDef, LenProperties
<1>9. Authentic(e)
  <2>1. ASSUME NEW i \in 1 .. n PROVE e[i].cid = CidOf[e[i].chunk]
    BY <1>1, <1>5, <1>6 DEF Authentic
  <2>2. ASSUME NEW i \in 1 .. n, NEW j \in 1 .. n, e[i].cid = e[j].cid
        PROVE  i = j
    <3>1. f[i] = f[j]
      BY <1>1, <1>5, <1>6, <2>2 DEF Authentic
    <3>2. ~ (f[i] < f[j]) /\ ~ (f[j] < f[i])
      BY <1>1, <1>5, <3>1
    <3> QED
      BY <1>3, <1>4, <3>2
  <2> QED
    BY <1>6, <2>1, <2>2 DEF Authentic
<1>10. Keys(e) \subseteq Keys(d)
  BY <1>1, <1>5, <1>6 DEF Keys
<1> QED
  BY <1>1, <1>3, <1>8, <1>9, <1>10 DEF SoundDictionary

\* The receiver of the aioquic prototype starts with a sound dictionary.
LEMMA ThinnedSound ==
    ASSUME NEW max \in Nat, NEW d, SoundDictionary(d, max),
           NEW every, NEW e \in Thinned(d, every)
    PROVE  SoundDictionary(e, max) /\ Keys(e) \subseteq Keys(d)
<1>1. Spared(d, every) \in SUBSET DOMAIN d
  BY DEF Spared
<1> QED
  BY <1>1, KeptSound DEF Thinned

\* The ids that came after k in a dictionary: what would have to be pushed out
\* before k is.
Newer(d, k) == {d[j].cid : j \in Position(d, k) + 1 .. Len(d)}

\* The place of an entry is the one Position finds, and the entries after it
\* are as many as their ids.
LEMMA NewerShape ==
    ASSUME NEW d \in Seq(Entries), Authentic(d), NEW p \in 1 .. Len(d), NEW k,
           d[p].cid = k
    PROVE  /\ Position(d, k) = p /\ k \in Keys(d)
           /\ Newer(d, k) = {d[j].cid : j \in p + 1 .. Len(d)}
           /\ Newer(d, k) \subseteq Keys(d) \ {k}
           /\ IsFiniteSet(Newer(d, k))
           /\ Cardinality(Newer(d, k)) = Len(d) - p
<1> DEFINE S == p + 1 .. Len(d)
           f == [j \in S |-> d[j].cid]
<1>1. Len(d) \in Nat /\ DOMAIN d = 1 .. Len(d)
  BY LenProperties
<1>2. k \in Keys(d)
  BY <1>1 DEF Keys
<1>3. Position(d, k) = p
  BY <1>1, <1>2, PositionOfKey DEF Authentic
<1>4. Newer(d, k) = {d[j].cid : j \in S}
  BY <1>3 DEF Newer
<1>5. S \subseteq DOMAIN d /\ p \notin S
  BY <1>1
<1>6. Newer(d, k) \subseteq Keys(d) \ {k}
  BY <1>1, <1>4, <1>5 DEF Keys, Authentic
<1>7. f \in Bijection(S, Newer(d, k))
  <2>1. \A a, b \in S : f[a] = f[b] => a = b
    BY <1>5 DEF Authentic
  <2>2. f \in [S -> Newer(d, k)] /\ \A t \in Newer(d, k) : \E s \in S : f[s] = t
    BY <1>4
  <2> QED
    BY <2>1, <2>2 DEF Bijection, Injection, Surjection, IsInjective
<1>8. IsFiniteSet(S) /\ Cardinality(S) = Len(d) - p
  BY <1>1, FS_Interval
<1>9. IsFiniteSet(Newer(d, k)) /\ Cardinality(Newer(d, k)) = Len(d) - p
  BY <1>7, <1>8, FS_Bijection DEF ExistsBijection
<1> QED
  BY <1>2, <1>3, <1>4, <1>6, <1>9

\* Taking one entry out takes its id out of what is newer than another.
LEMMA OthersNewer ==
    ASSUME NEW d \in Seq(Entries), Authentic(d), NEW x, NEW k \in Keys(d),
           k # x
    PROVE  k \in Keys(Others(d, x)) /\ Newer(Others(d, x), k) = Newer(d, k) \ {x}
<1> DEFINE o == Others(d, x)
           p == Position(d, k)
<1>1. Len(d) \in Nat /\ DOMAIN d = 1 .. Len(d)
  BY LenProperties
<1>2. p \in 1 .. Len(d) /\ d[p].cid = k
  BY <1>1, PositionOfKey
<1> HIDE DEF p
<1>3. Newer(d, k) = {d[j].cid : j \in p + 1 .. Len(d)}
  BY <1>2, NewerShape
<1>4. CASE x \notin Keys(d)
  <2>1. o = d
    BY <1>4, OthersShape
  <2>2. Newer(d, k) \subseteq Keys(d)
    BY <1>2, NewerShape
  <2> QED
    BY <1>4, <2>1, <2>2
<1>5. CASE x \in Keys(d)
  <2> DEFINE r == Position(d, x)
             n == IF p < r THEN p ELSE p - 1
  <2>1. r \in 1 .. Len(d) /\ d[r].cid = x
    BY <1>1, <1>5, PositionOfKey
  <2>2. /\ o \in Seq(Entries) /\ Len(o) = Len(d) - 1
        /\ \A i \in 1 .. Len(d) - 1 : o[i] = IF i < r THEN d[i] ELSE d[i + 1]
    BY <1>5, OthersShape
  <2>3. Authentic(o)
    BY OthersSound
  <2> HIDE DEF r, o
  <2>4. r # p
    BY <1>2, <2>1
  <2>5. n \in 1 .. Len(o) /\ o[n] = d[p]
    BY <1>1, <1>2, <2>1, <2>2, <2>4
  <2> HIDE DEF n
  <2>6. k \in Keys(o) /\ Newer(o, k) = {o[j].cid : j \in n + 1 .. Len(o)}
    BY <1>2, <2>2, <2>3, <2>5, NewerShape
  <2>7. ASSUME NEW j \in n + 1 .. Len(o)
        PROVE  o[j].cid \in Newer(d, k) \ {x}
    <3>1. PICK i \in p + 1 .. Len(d) : o[j] = d[i] /\ i # r
      BY <1>1, <1>2, <2>1, <2>2, <2>4 DEF n
    <3>2. d[i].cid # x
      BY <1>1, <1>2, <2>1, <3>1 DEF Authentic
    <3> QED
      BY <1>3, <3>1, <3>2
  <2>8. ASSUME NEW i \in p + 1 .. Len(d), d[i].cid # x
        PROVE  d[i].cid \in Newer(o, k)
    <3>1. i # r
      BY <2>1, <2>8
    <3>2. PICK j \in n + 1 .. Len(o) : o[j] = d[i]
      <4>1. CASE i < r
        <5>1. i \in n + 1 .. Len(o) /\ o[i] = d[i]
          BY <1>1, <1>2, <2>1, <2>2, <4>1 DEF n
        <5> QED
          BY <5>1
      <4>2. CASE i > r
        <5>1. /\ i - 1 \in n + 1 .. Len(o) /\ ~ (i - 1 < r) /\ (i - 1) + 1 = i
              /\ i - 1 \in 1 .. Len(d) - 1
          BY <1>1, <1>2, <2>1, <2>2, <2>4, <4>2 DEF n
        <5>2. o[i - 1] = d[i]
          BY <2>2, <5>1
        <5> QED
          BY <5>1, <5>2
      <4> QED
        BY <1>1, <1>2, <2>1, <3>1, <4>1, <4>2
    <3> QED
      BY <2>6, <3>2
  <2> QED
    BY <1>3, <2>6, <2>7, <2>8 DEF o
<1> QED
  BY <1>4, <1>5

\* An entry at the end is newer than every other.
LEMMA AppendNewer ==
    ASSUME NEW d \in Seq(Entries), Authentic(d), NEW c \in Chunks,
           CidOf[c] \in Cids, CidOf[c] \notin Keys(d), NEW k \in Keys(d)
    PROVE  LET g == Append(d, EntryOf(c))
           IN  k \in Keys(g) /\ Newer(g, k) = Newer(d, k) \cup {CidOf[c]}
<1> DEFINE g == Append(d, EntryOf(c))
           p == Position(d, k)
<1>1. Len(d) \in Nat /\ DOMAIN d = 1 .. Len(d)
  BY LenProperties
<1>2. p \in 1 .. Len(d) /\ d[p].cid = k
  BY <1>1, PositionOfKey
<1>3. /\ EntryOf(c) \in Entries /\ EntryOf(c).cid = CidOf[c]
  BY DEF EntryOf, Entries
<1>4. /\ g \in Seq(Entries) /\ Authentic(g) /\ Len(g) = Len(d) + 1
  BY AppendSound
<1>5. /\ \A i \in 1 .. Len(d) : g[i] = d[i]
      /\ g[Len(d) + 1] = EntryOf(c)
  BY <1>3, AppendProperties
<1> HIDE DEF g, p
<1>6. /\ k \in Keys(g)
      /\ Newer(g, k) = {g[j].cid : j \in p + 1 .. Len(d) + 1}
      /\ Newer(d, k) = {d[j].cid : j \in p + 1 .. Len(d)}
  <2>1. p \in 1 .. Len(g) /\ g[p].cid = k
    BY <1>1, <1>2, <1>4, <1>5
  <2>2. k \in Keys(g) /\ Newer(g, k) = {g[j].cid : j \in p + 1 .. Len(g)}
    BY <1>4, <2>1, NewerShape
  <2> QED
    BY <1>2, <1>4, <2>2, NewerShape
<1>7. \A j \in p + 1 .. Len(d) + 1 : j \in p + 1 .. Len(d) \/ j = Len(d) + 1
  BY <1>1, <1>2
<1>8. \A j \in p + 1 .. Len(d) : j \in p + 1 .. Len(d) + 1 /\ j \in 1 .. Len(d)
  BY <1>1, <1>2
<1>9. Len(d) + 1 \in p + 1 .. Len(d) + 1
  BY <1>1, <1>2
<1> QED
  BY <1>3, <1>5, <1>6, <1>7, <1>8, <1>9 DEF g

\* A key survives the dropping of old entries when fewer than n ids are newer.
LEMMA NewestNewer ==
    ASSUME NEW d \in Seq(Entries), Authentic(d), NEW n \in Nat,
           NEW k \in Keys(d)
    PROVE  LET e == Newest(d, n)
           IN  /\ Cardinality(Newer(d, k)) < n => k \in Keys(e)
               /\ k \in Keys(e) => /\ Cardinality(Newer(d, k)) < n
                                   /\ Newer(e, k) = Newer(d, k)
<1> DEFINE e == Newest(d, n)
           p == Position(d, k)
           m == Len(d) - n
<1>1. Len(d) \in Nat /\ DOMAIN d = 1 .. Len(d)
  BY LenProperties
<1>2. p \in 1 .. Len(d) /\ d[p].cid = k
  BY <1>1, PositionOfKey
<1> HIDE DEF p
<1>3. /\ Newer(d, k) = {d[j].cid : j \in p + 1 .. Len(d)}
      /\ Cardinality(Newer(d, k)) = Len(d) - p
  BY <1>2, NewerShape
<1>4. CASE Len(d) <= n
  <2>1. e = d
    BY <1>4, NewestShape
  <2> QED
    BY <1>1, <1>2, <1>3, <1>4, <2>1
<1>5. CASE Len(d) > n
  <2>1. /\ e \in Seq(Entries) /\ Len(e) = n /\ Authentic(e)
        /\ \A i \in 1 .. n : e[i] = d[i + m]
    BY <1>5, NewestShape, NewestSound DEF SoundDictionary
  <2>2. DOMAIN e = 1 .. n /\ m \in Nat
    BY <1>1, <1>5, <2>1, LenProperties
  <2> HIDE DEF e
  <2>3. ASSUME Len(d) - p < n
        PROVE  k \in Keys(e) /\ Newer(e, k) = Newer(d, k)
    <3>1. p - m \in 1 .. n /\ (p - m) + m = p
      BY <1>1, <1>2, <2>3
    <3>2. e[p - m].cid = k
      BY <1>2, <2>1, <3>1
    <3> HIDE DEF m
    <3>3. k \in Keys(e) /\ Newer(e, k) = {e[j].cid : j \in (p - m) + 1 .. n}
      <4>1. PICK q \in 1 .. Len(e) : q = p - m
        BY <2>1, <3>1
      <4>2. e[q].cid = k
        BY <3>2, <4>1
      <4>3. k \in Keys(e) /\ Newer(e, k) = {e[j].cid : j \in q + 1 .. Len(e)}
        BY <2>1, <4>2, NewerShape
      <4> QED
        BY <2>1, <4>1, <4>3
    <3>4. ASSUME NEW j \in (p - m) + 1 .. n
          PROVE  j \in 1 .. n /\ j + m \in p + 1 .. Len(d)
      BY <1>1, <1>2, <1>5, <2>2, <3>1 DEF m
    <3>5. ASSUME NEW i \in p + 1 .. Len(d)
          PROVE  i - m \in (p - m) + 1 .. n /\ i - m \in 1 .. n /\ (i - m) + m = i
      BY <1>1, <1>2, <1>5, <2>2, <3>1 DEF m
    <3>6. Newer(e, k) \subseteq Newer(d, k)
      BY <1>3, <2>1, <3>3, <3>4
    <3>7. Newer(d, k) \subseteq Newer(e, k)
      <4>1. ASSUME NEW i \in p + 1 .. Len(d) PROVE e[i - m] = d[i]
        BY <2>1, <3>5
      <4> QED
        BY <1>3, <3>3, <3>5, <4>1
    <3> QED
      BY <3>3, <3>6, <3>7
  <2>4. ASSUME k \in Keys(e) PROVE Len(d) - p < n
    <3>1. PICK i \in 1 .. n : e[i].cid = k
      BY <2>2, <2>4 DEF Keys
    <3>2. i + m \in 1 .. Len(d) /\ d[i + m].cid = k
      BY <1>1, <1>5, <2>1, <3>1
    <3>3. i + m = p
      BY <1>1, <1>2, <3>2 DEF Authentic
    <3> QED
      BY <1>1, <1>2, <3>1, <3>3
  <2> QED
    BY <1>3, <2>3, <2>4 DEF e
<1> QED
  BY <1>1, <1>4, <1>5

\* What a touch leaves of the other entries: those that fewer than max ids,
\* the touched one included, are newer than.
LEMMA TouchLruNewer ==
    ASSUME NEW d, NEW max \in Nat \ {0}, SoundDictionary(d, max),
           NEW c \in Chunks, NEW k \in Keys(d), k # CidOf[c]
    PROVE  LET e == TouchLru(d, CidOf[c], c, max)
               N == Newer(d, k) \cup {CidOf[c]}
           IN  /\ Cardinality(N) < max => k \in Keys(e)
               /\ k \in Keys(e) => Cardinality(N) < max /\ Newer(e, k) = N
<1> DEFINE x == CidOf[c]
           o == Others(d, x)
           g == Append(o, EntryOf(c))
           N == Newer(d, k) \cup {x}
<1>1. d \in Seq(Entries) /\ Authentic(d) /\ x \in Cids
  BY CidAssumption DEF SoundDictionary
<1>2. TouchLru(d, x, c, max) = Newest(g, max)
  BY DEF TouchLru, EntryOf
<1>3. /\ o \in Seq(Entries) /\ Authentic(o) /\ x \notin Keys(o)
      /\ k \in Keys(o) /\ Newer(o, k) = Newer(d, k) \ {x}
  BY <1>1, OthersSound, OthersNewer
<1> HIDE DEF o
<1>4. /\ g \in Seq(Entries) /\ Authentic(g) /\ k \in Keys(g)
      /\ Newer(g, k) = Newer(o, k) \cup {x}
  BY <1>1, <1>3, AppendSound, AppendNewer
<1> HIDE DEF g
<1>5. Newer(g, k) = N
  BY <1>3, <1>4
<1>6. /\ Cardinality(N) < max => k \in Keys(Newest(g, max))
      /\ k \in Keys(Newest(g, max)) =>
            Cardinality(N) < max /\ Newer(Newest(g, max), k) = N
  BY <1>4, <1>5, NewestNewer
<1> QED
  BY <1>2, <1>6

\* The touched entry is the newest of all.
LEMMA TouchLruNewest ==
    ASSUME NEW d, NEW max \in Nat \ {0}, SoundDictionary(d, max),
           NEW c \in Chunks
    PROVE  Newer(TouchLru(d, CidOf[c], c, max), CidOf[c]) = {}
<1> DEFINE o == Others(d, CidOf[c])
           g == Append(o, EntryOf(c))
           e == Newest(g, max)
<1>1. d \in Seq(Entries) /\ Authentic(d) /\ CidOf[c] \in Cids
  BY CidAssumption DEF SoundDictionary
<1>2. TouchLru(d, CidOf[c], c, max) = e
  BY DEF TouchLru, EntryOf
<1>3. /\ o \in Seq(Entries) /\ Authentic(o) /\ CidOf[c] \notin Keys(o)
  BY <1>1, OthersSound
<1> HIDE DEF o
<1>4. /\ g \in Seq(Entries) /\ Authentic(g) /\ Len(g) = Len(o) + 1
      /\ g[Len(g)] = EntryOf(c) /\ Len(o) \in Nat
  BY <1>1, <1>3, AppendSound, LenProperties
<1> HIDE DEF g
<1>5. g[Len(g)].cid = CidOf[c] /\ Len(g) \in 1 .. Len(g)
  BY <1>4 DEF EntryOf
<1>6. Newer(g, CidOf[c]) = {} /\ CidOf[c] \in Keys(g)
  <2>1. /\ CidOf[c] \in Keys(g)
        /\ Newer(g, CidOf[c]) = {g[j].cid : j \in Len(g) + 1 .. Len(g)}
    BY <1>4, <1>5, NewerShape
  <2>2. Len(g) + 1 .. Len(g) = {}
    BY <1>4
  <2> QED
    BY <2>1, <2>2
<1>7. CidOf[c] \in Keys(e)
  BY <1>2, TouchLruSound
<1> HIDE DEF e
<1>8. CidOf[c] \in Keys(e) => Newer(e, CidOf[c]) = Newer(g, CidOf[c])
  BY <1>4, <1>6, NewestNewer DEF e
<1> QED
  BY <1>2, <1>6, <1>8, <1>7

-----------------------------------------------------------------------------
(* The encoders.                                                           *)

\* An appended sequence, element by element.
LEMMA Appended ==
    ASSUME NEW S, NEW s \in Seq(S), NEW e \in S
    PROVE  /\ Append(s, e) \in Seq(S)
           /\ Len(s) \in Nat /\ Len(Append(s, e)) = Len(s) + 1
           /\ \A i \in 1 .. Len(s) : Append(s, e)[i] = s[i]
           /\ Append(s, e)[Len(s) + 1] = e
BY AppendProperties, LenProperties

\* encode covers its input, whatever the dictionary does.
LEMMA EncodedCovers ==
    ASSUME NEW data \in Seq(Chunks), NEW dict
    PROVE  /\ Encoded(data, dict) \in Seq(ModelFrames)
           /\ Len(Encoded(data, dict)) = Len(data)
           /\ \A i \in 1 .. Len(data) : Encoded(data, dict)[i].chunk = data[i]
<1>1. Len(data) \in Nat /\ DOMAIN data = 1 .. Len(data)
      /\ \A i \in 1 .. Len(data) : data[i] \in Chunks
  BY LenProperties, ElementOfSeq
<1>2. ASSUME NEW i \in 1 .. Len(data)
      PROVE  /\ Encoded(data, dict)[i] \in ModelFrames
             /\ Encoded(data, dict)[i].chunk = data[i]
  BY <1>1 DEF Encoded, FrameOf, ModelFrames
<1>3. DOMAIN Encoded(data, dict) = 1 .. Len(data)
  BY <1>1 DEF Encoded
<1>4. Encoded(data, dict) \in [1 .. Len(data) -> ModelFrames]
  BY <1>2, <1>3 DEF Encoded
<1>5. Encoded(data, dict) \in Seq(ModelFrames)
  BY <1>1, <1>4, SeqDef
<1>6. Len(Encoded(data, dict)) = Len(data)
  BY <1>1, <1>3, <1>5, LenProperties
<1> QED
  BY <1>2, <1>5, <1>6

\* A FULL leaves a sound dictionary, with its chunk in it.
LEMMA TouchedSound ==
    ASSUME NEW d, SoundDictionary(d, MaxDictChunks), NEW c \in Chunks
    PROVE  /\ SoundDictionary(Touched(d, c), MaxDictChunks)
           /\ CidOf[c] \in Keys(Touched(d, c))
           /\ Keys(Touched(d, c)) \subseteq Keys(d) \cup {CidOf[c]}
BY TouchLruSound, CapacityAssumption DEF Touched

\* A FULL never makes the dictionary smaller, and nothing goes while there is
\* room.
LEMMA TouchedRoomy ==
    ASSUME NEW d, SoundDictionary(d, MaxDictChunks), NEW c \in Chunks
    PROVE  /\ Len(d) <= Len(Touched(d, c))
           /\ Len(Touched(d, c)) < MaxDictChunks => Keys(d) \subseteq Keys(Touched(d, c))
<1> DEFINE k == CidOf[c]
           o == Others(d, k)
           g == Append(o, EntryOf(c))
<1>1. /\ d \in Seq(Entries) /\ Authentic(d) /\ k \in Cids
      /\ Len(d) \in Nat /\ Len(d) <= MaxDictChunks /\ MaxDictChunks \in Nat
  BY CidAssumption, CapacityAssumption, LenProperties DEF SoundDictionary
<1>2. /\ o \in Seq(Entries) /\ Authentic(o) /\ Keys(o) = Keys(d) \ {k}
      /\ Len(o) \in Nat /\ Len(d) <= Len(o) + 1
  <2>1. Len(o) = Len(d) \/ Len(o) = Len(d) - 1
    BY <1>1, OthersShape
  <2> QED
    BY <1>1, <2>1, OthersSound, LenProperties
<1>3. Touched(d, c) = Newest(g, MaxDictChunks)
  BY DEF Touched, TouchLru, EntryOf
<1> HIDE DEF o
<1>4. /\ g \in Seq(Entries) /\ Len(g) = Len(o) + 1 /\ Keys(g) = Keys(o) \cup {k}
  BY <1>1, <1>2, AppendSound
<1> HIDE DEF g, k
<1>5. CASE Len(g) <= MaxDictChunks
  <2>1. Newest(g, MaxDictChunks) = g
    BY <1>1, <1>4, <1>5, NewestShape
  <2> QED
    BY <1>2, <1>3, <1>4, <2>1
<1>6. CASE ~ (Len(g) <= MaxDictChunks)
  <2>1. Len(Newest(g, MaxDictChunks)) = MaxDictChunks
    BY <1>1, <1>2, <1>4, <1>6, NewestShape
  <2> QED
    BY <1>1, <1>3, <2>1
<1> QED
  BY <1>5, <1>6

\* A dictionary has as many entries as keys.
LEMMA KeysCounted ==
    ASSUME NEW d \in Seq(Entries), Authentic(d)
    PROVE  IsFiniteSet(Keys(d)) /\ Cardinality(Keys(d)) = Len(d)
<1> DEFINE S == 1 .. Len(d)
           f == [j \in S |-> d[j].cid]
<1>1. Len(d) \in Nat /\ DOMAIN d = S
  BY LenProperties
<1>2. Keys(d) = {d[j].cid : j \in S}
  BY <1>1 DEF Keys
<1>3. f \in Bijection(S, Keys(d))
  <2>1. \A a, b \in S : f[a] = f[b] => a = b
    BY <1>1 DEF Authentic
  <2>2. f \in [S -> Keys(d)] /\ \A t \in Keys(d) : \E s \in S : f[s] = t
    BY <1>2
  <2> QED
    BY <2>1, <2>2 DEF Bijection, Injection, Surjection, IsInjective
<1>4. IsFiniteSet(S) /\ Cardinality(S) = Len(d)
  <2>1. PICK n \in Nat : n = Len(d)
    BY <1>1
  <2>2. IsFiniteSet(1 .. n)
    BY FS_Interval
  <2>3. Cardinality(1 .. n) = IF 1 > n THEN 0 ELSE n - 1 + 1
    BY FS_Interval
  <2>4. Cardinality(1 .. n) = n
    BY <2>3
  <2> QED
    BY <2>1, <2>2, <2>4
<1> QED
  BY <1>3, <1>4, FS_Bijection DEF ExistsBijection

\* What a FULL brings is all that changes, while nothing need be evicted.
LEMMA TouchedKeepsAll ==
    ASSUME NEW d, SoundDictionary(d, MaxDictChunks), NEW c \in Chunks,
           Cardinality(Keys(d) \cup {CidOf[c]}) <= MaxDictChunks
    PROVE  Keys(Touched(d, c)) = Keys(d) \cup {CidOf[c]}
<1> DEFINE e == Touched(d, c)
           K == Keys(d) \cup {CidOf[c]}
<1>1. /\ SoundDictionary(e, MaxDictChunks)
      /\ CidOf[c] \in Keys(e) /\ Keys(e) \subseteq K
  BY TouchedSound
<1>2. Len(e) < MaxDictChunks => Keys(d) \subseteq Keys(e)
  BY TouchedRoomy
<1>3. /\ IsFiniteSet(K) /\ Cardinality(K) \in Nat
  BY KeysCounted, FS_AddElement, FS_CardinalityType DEF SoundDictionary
<1> HIDE DEF e
<1>4. Cardinality(Keys(e)) = Len(e) /\ Len(e) \in Nat /\ Len(e) <= MaxDictChunks
  BY <1>1, KeysCounted, LenProperties DEF SoundDictionary
<1>5. CASE Len(e) < MaxDictChunks
  BY <1>1, <1>2, <1>5 DEF e
<1>6. CASE Len(e) = MaxDictChunks
  <2>1. Cardinality(Keys(e)) <= Cardinality(K)
        /\ (Cardinality(K) = Cardinality(Keys(e)) => K = Keys(e))
    BY <1>1, <1>3, FS_Subset
  <2>2. Cardinality(K) <= MaxDictChunks
    OBVIOUS
  <2> HIDE DEF K
  <2>3. Cardinality(K) = Cardinality(Keys(e))
    BY <1>3, <1>4, <1>6, <2>1, <2>2, CapacityAssumption
  <2> QED
    BY <2>1, <2>3 DEF K, e
<1> QED
  BY <1>4, <1>5, <1>6, CapacityAssumption

\* d still holds whatever e gained after the dictionary w, and holds it no
\* closer to eviction than e does.
Retains(d, e, w) ==
    \A k \in Keys(e) \ Keys(w) :
        k \in Keys(d) /\ Newer(d, k) \subseteq Newer(e, k)

\* Touching the same chunk at both ends keeps it so, though they evict
\* different chunks.
LEMMA TouchedRetains ==
    ASSUME NEW d, SoundDictionary(d, MaxDictChunks),
           NEW e, SoundDictionary(e, MaxDictChunks),
           NEW w, Retains(d, e, w), NEW c \in Chunks
    PROVE  Retains(Touched(d, c), Touched(e, c), w)
<1> DEFINE x == CidOf[c]
           td == Touched(d, c)
           te == Touched(e, c)
<1>1. td = TouchLru(d, x, c, MaxDictChunks) /\ te = TouchLru(e, x, c, MaxDictChunks)
  BY DEF Touched
<1>2. x \in Keys(td) /\ Newer(td, x) = {} /\ Keys(te) \subseteq Keys(e) \cup {x}
  BY <1>1, TouchLruNewest, TouchLruSound, CapacityAssumption
<1> HIDE DEF td, te
<1>3. ASSUME NEW k \in Keys(te) \ Keys(w), k # x
      PROVE  k \in Keys(td) /\ Newer(td, k) \subseteq Newer(te, k)
  <2> DEFINE Nd == Newer(d, k) \cup {x}
             Ne == Newer(e, k) \cup {x}
  <2>1. k \in Keys(e) /\ k \in Keys(d) /\ Newer(d, k) \subseteq Newer(e, k)
    BY <1>2, <1>3 DEF Retains
  <2>2. Cardinality(Ne) < MaxDictChunks /\ Newer(te, k) = Ne
    BY <1>1, <1>3, <2>1, TouchLruNewer, CapacityAssumption
  <2>3. IsFiniteSet(Newer(e, k))
    <3>1. e \in Seq(Entries) /\ Authentic(e) /\ DOMAIN e = 1 .. Len(e)
      BY LenProperties DEF SoundDictionary
    <3>2. Position(e, k) \in 1 .. Len(e) /\ e[Position(e, k)].cid = k
      BY <2>1, <3>1, PositionOfKey
    <3> QED
      BY <3>1, <3>2, NewerShape
  <2>4. IsFiniteSet(Ne) /\ Nd \in SUBSET Ne
    BY <2>1, <2>3, FS_AddElement
  <2>5. /\ Cardinality(Nd) \in Nat /\ Cardinality(Ne) \in Nat
        /\ Cardinality(Nd) <= Cardinality(Ne)
    BY <2>4, FS_Subset, FS_CardinalityType
  <2>6. Cardinality(Nd) < MaxDictChunks
    BY <2>2, <2>5, CapacityAssumption
  <2>7. k \in Keys(td) /\ Newer(td, k) = Nd
    BY <1>1, <1>3, <2>1, <2>6, TouchLruNewer, CapacityAssumption
  <2> QED
    BY <2>2, <2>4, <2>7
<1> QED
  BY <1>2, <1>3 DEF Retains, td, te

\* A chunk found under an id is the chunk of that id.
LEMMA HoldsIsRight ==
    ASSUME NEW d \in Seq(Entries), Authentic(d), NEW f, f.chunk \in Chunks,
           Holds(d, f)
    PROVE  Lookup(d, CidOf[f.chunk]) = f.chunk
<1>1. CidOf[f.chunk] \in Keys(d)
  BY DEF Holds
<1>2. /\ Lookup(d, CidOf[f.chunk]) \in Chunks
      /\ CidOf[Lookup(d, CidOf[f.chunk])] = CidOf[f.chunk]
  BY <1>1, LookupFinds
<1> QED
  BY <1>2, CidAssumption DEF IsInjective

\* A function on sequence numbers, moved to the places of a sequence.
LEMMA ShiftFacts ==
    ASSUME NEW d, DOMAIN d \subseteq Nat, NEW wanted,
           \A q \in DOMAIN d : d[q] = wanted[q + 1],
           NEW g, g = [j \in {q + 1 : q \in DOMAIN d} |-> d[j - 1]]
    PROVE  /\ \A i : i \in DOMAIN g <=> i - 1 \in DOMAIN d /\ i \in Int
           /\ \A i \in DOMAIN g : g[i] = wanted[i]
<1>1. ASSUME NEW i
      PROVE  i \in DOMAIN g <=> i - 1 \in DOMAIN d /\ i \in Int
  <2>1. DOMAIN g = {q + 1 : q \in DOMAIN d}
    OBVIOUS
  <2>2. ASSUME NEW q \in DOMAIN d PROVE q + 1 \in Int /\ (q + 1) - 1 = q
    OBVIOUS
  <2>3. ASSUME i \in DOMAIN g PROVE i - 1 \in DOMAIN d /\ i \in Int
    BY <2>1, <2>2, <2>3
  <2>4. ASSUME i \in Int, i - 1 \in DOMAIN d PROVE i \in DOMAIN g
    <3>1. i = (i - 1) + 1
      BY <2>4
    <3> QED
      BY <2>1, <2>4, <3>1
  <2> QED
    BY <2>3, <2>4
<1>2. ASSUME NEW i \in DOMAIN g PROVE g[i] = wanted[i]
  <2>1. i - 1 \in DOMAIN d /\ i \in Int /\ (i - 1) + 1 = i
    BY <1>1
  <2>2. g[i] = d[i - 1]
    BY <1>2
  <2> QED
    BY <2>1, <2>2
<1> QED
  BY <1>1, <1>2

\* The secure encoder makes one frame of each chunk, numbered by its nonce.
LEMMA SecurelyEncodedCovers ==
    ASSUME NEW data \in Seq(Chunks), NEW dict
    PROVE  LET frames == SecurelyEncoded(data, dict)
           IN  /\ Len(frames) = Len(data)
               /\ frames # << >> => Len(frames) # 0
               /\ \A i \in 1 .. Len(data) :
                    frames[i] = [kind |-> frames[i].kind, chunk |-> data[i], nonce |-> i,
                                 offset |-> frames[i].offset, genuine |-> TRUE]
<1> DEFINE frames == SecurelyEncoded(data, dict)
           T == {frames[i] : i \in 1 .. Len(data)}
<1>1. Len(data) \in Nat /\ DOMAIN data = 1 .. Len(data)
  BY LenProperties
<1>2. DOMAIN frames = 1 .. Len(data)
      /\ \A i \in 1 .. Len(data) :
            frames[i] = [kind |-> frames[i].kind, chunk |-> data[i], nonce |-> i,
                         offset |-> frames[i].offset, genuine |-> TRUE]
  BY <1>1 DEF SecurelyEncoded
<1>3. frames = [i \in DOMAIN frames |-> frames[i]]
  BY DEF SecurelyEncoded
<1> HIDE DEF frames
<1>4. frames \in [1 .. Len(data) -> T]
  BY <1>2, <1>3
<1>5. frames \in Seq(T)
  <2> HIDE DEF T
  <2> QED
    BY <1>1, <1>4, SeqDef
<1>6. Len(frames) = Len(data)
  BY <1>1, <1>2, <1>5, LenProperties
<1>7. frames # << >> => Len(frames) # 0
  <2> HIDE DEF T
  <2> QED
    BY <1>5, EmptySeq
<1> QED
  BY <1>2, <1>6, <1>7 DEF frames
-----------------------------------------------------------------------------
(* Recursion over a finite set, by a well-founded argument: the folds of   *)
(* the encoders are recursions over the set of a sequence's positions.     *)

\* A set of numbers with 0 and every successor is all of Nat.
LEMMA AllOfNat ==
    ASSUME NEW P \in SUBSET Nat, 0 \in P, \A k \in P : k + 1 \in P
    PROVE  P = Nat
<1> DEFINE R == {ss \in Nat \X Nat : ss[1] < ss[2]}
<1>1. IsWellFoundedOn(R, Nat)
  BY NatLessThanWellFounded, Zenon DEF OpToRel
<1>2. \A a, b \in Nat : a < b => <<a, b>> \in R
  OBVIOUS
<1> HIDE DEF R
<1> SUFFICES ASSUME Nat \ P # {} PROVE FALSE
  OBVIOUS
<1>3. PICK x \in Nat \ P : \A y \in Nat \ P : ~ (<<y, x>> \in R)
  BY <1>1, WFMin
<1>4. x # 0 /\ x - 1 \in Nat /\ x - 1 < x /\ (x - 1) + 1 = x
  BY <1>3
<1>5. x - 1 \in P
  BY <1>2, <1>3, <1>4
<1> QED
  BY <1>3, <1>4, <1>5

\* c picks an element of every subset of S, h makes of it and a value of V
\* another value of V.
Picks(c, S) == \A s \in SUBSET S : s # {} => c[s] \in s
Turns(h, S, V) == \A x \in S, v \in V : h[x][v] \in V

\* f is b at first and what h makes of it with every further element.
Unfolds(f, S, V, b, c, h) ==
    /\ f \in [SUBSET S -> V]
    /\ \A s \in SUBSET S :
           f[s] = IF s = {} THEN b ELSE h[c[s]][f[s \ {c[s]}]]

\* A recursion that takes one element after the other from a finite set.
LEMMA SetRecursion ==
    ASSUME NEW S, IsFiniteSet(S), NEW V, NEW b \in V,
           NEW c, Picks(c, S), NEW h, Turns(h, S, V)
    PROVE  \E f : Unfolds(f, S, V, b, c, h)
<1> DEFINE D(k) == {s \in SUBSET S : Cardinality(s) <= k}
           Solves(f, k) == \A s \in D(k) :
               f[s] = IF s = {} THEN b ELSE h[c[s]][f[s \ {c[s]}]]
           P == {k \in Nat : \E f \in [D(k) -> V] : Solves(f, k)}
<1> HIDE DEF P, Solves, D
<1>1. \A s \in SUBSET S : IsFiniteSet(s) /\ Cardinality(s) \in Nat
  BY FS_Subset, FS_CardinalityType
<1>2. \A s \in SUBSET S : Cardinality(s) = 0 <=> s = {}
  BY <1>1, FS_EmptySet
<1>3. ASSUME NEW s \in SUBSET S, s # {}
      PROVE  /\ s \ {c[s]} \in SUBSET S /\ c[s] \in S
             /\ Cardinality(s \ {c[s]}) = Cardinality(s) - 1
  BY <1>1, <1>3, FS_RemoveElement DEF Picks
<1>4. \A s : s \in D(0) <=> s = {}
  <2>1. ASSUME NEW s \in SUBSET S PROVE Cardinality(s) <= 0 <=> s = {}
    <3>1. PICK n : n = Cardinality(s) /\ n \in Nat
      BY <1>1
    <3>2. n <= 0 <=> n = 0
      BY <3>1
    <3> QED
      BY <1>2, <3>1, <3>2
  <2> QED
    BY <2>1 DEF D
<1>5. ASSUME NEW k \in Nat
      PROVE  /\ {} \in D(k) /\ D(k) \subseteq D(k + 1)
             /\ \A s \in D(k + 1) : s # {} => s \ {c[s]} \in D(k) /\ c[s] \in S
  <2>1. {} \in D(k)
    <3>1. {} \in SUBSET S /\ Cardinality({}) = 0 /\ 0 <= k
      BY <1>2
    <3>2. Cardinality({}) <= k
      BY <3>1
    <3> QED
      BY <3>1, <3>2 DEF D
  <2>2. ASSUME NEW s \in D(k) PROVE s \in D(k + 1)
    <3>1. PICK n : n = Cardinality(s) /\ n \in Nat /\ n <= k
      BY <1>1 DEF D
    <3>2. n <= k + 1
      BY <3>1
    <3> QED
      BY <3>1, <3>2 DEF D
  <2>3. ASSUME NEW s \in D(k + 1), s # {} PROVE s \ {c[s]} \in D(k) /\ c[s] \in S
    <3>1. PICK n : n = Cardinality(s) /\ n \in Nat /\ n <= k + 1
      BY <1>1 DEF D
    <3>2. n - 1 <= k
      BY <3>1
    <3> QED
      BY <1>3, <2>3, <3>1, <3>2 DEF D
  <2> QED
    BY <2>1, <2>2, <2>3
<1>6. 0 \in P
  <2> DEFINE f == [s \in D(0) |-> b]
  <2>1. f \in [D(0) -> V]
    OBVIOUS
  <2>2. Solves(f, 0)
    BY <1>4 DEF Solves
  <2> QED
    BY <2>1, <2>2 DEF P
<1>7. ASSUME NEW k \in P PROVE k + 1 \in P
  <2>0. k \in Nat
    BY DEF P
  <2>1. k + 1 \in Nat
    BY <2>0
  <2>2. PICK f \in [D(k) -> V] : Solves(f, k)
    BY DEF P
  <2> DEFINE g == [s \in D(k + 1) |-> IF s \in D(k) THEN f[s]
                                      ELSE h[c[s]][f[s \ {c[s]}]]]
  <2>3. ASSUME NEW s \in D(k + 1), s # {}
        PROVE  s \ {c[s]} \in D(k) /\ c[s] \in S
    BY <1>5, <2>0, <2>3
  <2>4. \A s \in D(k) : s \in D(k + 1)
    BY <1>5, <2>0
  <2>5. \A s \in D(k + 1) : s \notin D(k) => s # {}
    BY <1>5, <2>0
  <2>6. g \in [D(k + 1) -> V]
    BY <2>2, <2>3, <2>5 DEF Turns
  <2>7. \A s \in D(k) : g[s] = f[s]
    BY <2>4
  <2>8. ASSUME NEW s \in D(k + 1)
        PROVE  g[s] = IF s = {} THEN b ELSE h[c[s]][g[s \ {c[s]}]]
    <3>1. CASE s \in D(k)
      <4>1. g[s] = IF s = {} THEN b ELSE h[c[s]][f[s \ {c[s]}]]
        BY <2>2, <2>7, <3>1 DEF Solves
      <4> QED
        BY <2>3, <2>7, <4>1
    <3>2. CASE s \notin D(k)
      <4>1. s # {} /\ g[s] = h[c[s]][f[s \ {c[s]}]]
        BY <2>5, <3>2
      <4> QED
        BY <2>3, <2>7, <4>1
    <3> QED
      BY <3>1, <3>2
  <2> HIDE DEF g
  <2>9. Solves(g, k + 1)
    BY <2>8 DEF Solves
  <2> QED
    BY <2>1, <2>6, <2>9 DEF P
<1>8. P = Nat
  <2>1. P \subseteq Nat
    BY DEF P
  <2> QED
    BY <1>6, <1>7, <2>1, AllOfNat
<1>9. PICK k : k = Cardinality(S) /\ k \in Nat /\ D(k) = SUBSET S
  <2>1. Cardinality(S) \in Nat
    BY FS_CardinalityType
  <2>2. \A s \in SUBSET S : Cardinality(s) <= Cardinality(S)
    BY FS_Subset
  <2> QED
    BY <2>1, <2>2 DEF D
<1>10. PICK f \in [D(k) -> V] : Solves(f, k)
  BY <1>8, <1>9 DEF P
<1> QED
  BY <1>9, <1>10 DEF Solves, Unfolds

-----------------------------------------------------------------------------
(* Recursion over the numbers up to n, and sequences put together.         *)

\* h makes of a number up to n and a value of V another value of V; f is b at
\* first and what h makes of it with every further number.
Steps(h, n, V) == \A k \in 1 .. n, v \in V : h[<<k, v>>] \in V
Recurs(f, n, V, b, h) ==
    /\ f \in [0 .. n -> V]
    /\ f[0] = b /\ \A k \in 1 .. n : f[k] = h[<<k, f[k - 1]>>]

\* A recursion over the numbers up to n has a solution.
LEMMA Recursion ==
    ASSUME NEW n \in Nat, NEW V, NEW b \in V, NEW h, Steps(h, n, V)
    PROVE  \E f : Recurs(f, n, V, b, h)
<1> USE DEF Steps
<1> DEFINE Solves(f, m) == f[0] = b /\ \A k \in 1 .. m : f[k] = h[<<k, f[k - 1]>>]
           P == {m \in Nat : m <= n => \E f \in [0 .. m -> V] : Solves(f, m)}
<1>1. 0 \in P
  <2>1. [k \in 0 .. 0 |-> b] \in [0 .. 0 -> V]
    OBVIOUS
  <2>2. Solves([k \in 0 .. 0 |-> b], 0)
    OBVIOUS
  <2> HIDE DEF Solves
  <2> QED
    BY <2>1, <2>2
<1>2. ASSUME NEW m \in P PROVE m + 1 \in P
  <2>1. SUFFICES ASSUME m + 1 <= n PROVE \E f \in [0 .. m + 1 -> V] : Solves(f, m + 1)
    OBVIOUS
  <2>2. PICK f \in [0 .. m -> V] : Solves(f, m)
    BY <2>1
  <2> DEFINE g == [k \in 0 .. m + 1 |-> IF k = m + 1 THEN h[<<m + 1, f[m]>>] ELSE f[k]]
  <2>3. m \in Nat /\ m + 1 \in 1 .. n /\ f[m] \in V
    BY <2>1, <2>2
  <2>4. h[<<m + 1, f[m]>>] \in V
    BY <2>3
  <2>5. g \in [0 .. m + 1 -> V]
    BY <2>2, <2>3, <2>4
  <2>6. g[m + 1] = h[<<m + 1, f[m]>>] /\ \A k \in 0 .. m : g[k] = f[k]
    BY <2>3
  <2> HIDE DEF g
  <2>7. g[0] = b
    BY <2>2, <2>3, <2>6
  <2>8. ASSUME NEW k \in 1 .. m + 1 PROVE g[k] = h[<<k, g[k - 1]>>]
    <3>1. CASE k = m + 1
      BY <2>3, <2>6, <3>1
    <3>2. CASE k # m + 1
      BY <2>2, <2>3, <2>6, <3>2
    <3> QED
      BY <3>1, <3>2
  <2> QED
    BY <2>5, <2>7, <2>8
<1>3. P = Nat
  <2> HIDE DEF P
  <2>1. P \subseteq Nat
    BY DEF P
  <2> QED
    BY <1>1, <1>2, <2>1, AllOfNat
<1>4. PICK f \in [0 .. n -> V] : Solves(f, n)
  <2>1. n \in P /\ n <= n
    <3> HIDE DEF P
    <3> QED
      BY <1>3
  <2> HIDE DEF Solves
  <2> QED
    BY <2>1
<1> QED
  BY <1>4 DEF Recurs

\* What FlattenSeq makes of the sequences, one after the other.
Flattens(f, ss) ==
    f[0] = <<>> /\ \A k \in 1 .. Len(ss) : f[k] = f[k - 1] \o ss[k]

\* Sequences are put together one after the other.
LEMMA FlattenIs ==
    ASSUME NEW S, NEW ss \in Seq(Seq(S)), NEW f \in [0 .. Len(ss) -> Seq(S)],
           Flattens(f, ss)
    PROVE  FlattenSeq(ss) = f[Len(ss)]
<1>1. CASE Len(ss) = 0
  <2>1. ss = <<>>
    BY <1>1
  <2> QED
    BY <1>1, <2>1 DEF FlattenSeq, Flattens
<1>2. CASE Len(ss) # 0
  <2> DEFINE n == Len(ss)
             Eq(g) == g = [i \in 1 .. n |-> IF i = 1 THEN ss[i] ELSE g[i - 1] \o ss[i]]
             r == [i \in 1 .. n |-> f[i]]
             c == CHOOSE g : Eq(g)
  <2>0. n \in Nat \ {0} /\ ss \in Seq(Seq(S)) /\ DOMAIN ss = 1 .. n
    BY <1>2
  <2>1. FlattenSeq(ss) = c[n]
    BY <1>2 DEF FlattenSeq
  <2>2. f[1] = ss[1]
    <3>1. 1 \in 1 .. n /\ 1 - 1 = 0
      BY <2>0
    <3>2. ss[1] \in Seq(S)
      BY <2>0, <3>1
    <3>3. f[1] = f[1 - 1] \o ss[1] /\ f[0] = <<>>
      BY <3>1 DEF Flattens
    <3>4. f[1] = <<>> \o ss[1]
      BY <3>1, <3>3
    <3> QED
      BY <3>2, <3>4, EmptySeq
  <2>3. ASSUME NEW i \in 1 .. n
        PROVE  r[i] = IF i = 1 THEN ss[i] ELSE r[i - 1] \o ss[i]
    <3>1. CASE i = 1
      BY <2>0, <2>2, <3>1
    <3>2. CASE i # 1
      <4>1. i - 1 \in 1 .. n /\ f[i] = f[i - 1] \o ss[i]
        BY <2>0, <3>2 DEF Flattens
      <4> QED
        BY <3>2, <4>1
    <3> QED
      BY <3>1, <3>2
  <2>4. Eq(r)
    BY <2>3
  <2> HIDE DEF r, Eq
  <2>5. Eq(c)
    BY <2>4
  <2> HIDE DEF c
  <2>6. \A i \in 1 .. n : c[i] = IF i = 1 THEN ss[i] ELSE c[i - 1] \o ss[i]
    BY <2>5 DEF Eq
  <2> DEFINE P == {k \in Nat : k + 1 <= n => c[k + 1] = f[k + 1]}
  <2>7. 0 \in P
    BY <2>0, <2>2, <2>6
  <2>8. ASSUME NEW k \in P PROVE k + 1 \in P
    <3>1. SUFFICES ASSUME k + 2 <= n PROVE c[k + 2] = f[k + 2]
      OBVIOUS
    <3>2. k + 2 \in 1 .. n /\ k + 2 # 1 /\ (k + 2) - 1 = k + 1 /\ k + 1 <= n
      BY <2>0, <3>1
    <3>3. c[k + 2] = c[k + 1] \o ss[k + 2]
      BY <2>6, <3>2
    <3>4. f[k + 2] = f[k + 1] \o ss[k + 2]
      BY <3>2 DEF Flattens
    <3> QED
      BY <3>2, <3>3, <3>4
  <2>9. P = Nat
    <3> HIDE DEF P
    <3>1. P \subseteq Nat
      BY DEF P
    <3> QED
      BY <2>7, <2>8, <3>1, AllOfNat
  <2>10. PICK m \in Nat : m + 1 = n
    <3>1. n - 1 \in Nat /\ (n - 1) + 1 = n
      BY <2>0
    <3> QED
      BY <3>1
  <2>11. m \in P
    <3> HIDE DEF P
    <3> QED
      BY <2>9
  <2>12. c[n] = f[n]
    BY <2>0, <2>10, <2>11
  <2> QED
    BY <2>1, <2>12
<1> QED
  BY <1>1, <1>2

\* FlattenSeq is defined on all sequences of sequences.
LEMMA FlattenExists ==
    ASSUME NEW S, NEW ss \in Seq(Seq(S))
    PROVE  \E f \in [0 .. Len(ss) -> Seq(S)] :
              Flattens(f, ss) /\ FlattenSeq(ss) = f[Len(ss)]
<1> DEFINE h == [x \in (1 .. Len(ss)) \X Seq(S) |-> x[2] \o ss[x[1]]]
<1>1. ASSUME NEW k \in 1 .. Len(ss), NEW v \in Seq(S)
      PROVE  h[<<k, v>>] = v \o ss[k] /\ h[<<k, v>>] \in Seq(S)
  <2>1. ss[k] \in Seq(S)
    OBVIOUS
  <2>2. v \o ss[k] \in Seq(S)
    BY <2>1
  <2>3. h[<<k, v>>] = v \o ss[k]
    OBVIOUS
  <2> QED
    BY <2>2, <2>3
<1> HIDE DEF h
<1>2. <<>> \in Seq(S) /\ Len(ss) \in Nat /\ Steps(h, Len(ss), Seq(S))
  <2>1. <<>> \in Seq(S) /\ Len(ss) \in Nat
    OBVIOUS
  <2>2. Steps(h, Len(ss), Seq(S))
    BY <1>1 DEF Steps
  <2> QED
    BY <2>1, <2>2
<1>3. PICK f : Recurs(f, Len(ss), Seq(S), <<>>, h)
  BY <1>2, Recursion
<1> USE DEF Recurs
<1>4. Flattens(f, ss)
  <2>1. ASSUME NEW k \in 1 .. Len(ss) PROVE f[k] = f[k - 1] \o ss[k]
    <3>1. k - 1 \in 0 .. Len(ss)
      BY <1>2
    <3> QED
      BY <1>1, <1>3, <3>1
  <2> QED
    BY <1>3, <2>1 DEF Flattens
<1>5. f \in [0 .. Len(ss) -> Seq(S)]
  BY <1>3
<1>6. FlattenSeq(ss) = f[Len(ss)]
  BY <1>4, <1>5, FlattenIs
<1> QED
  BY <1>4, <1>5, <1>6

\* One more sequence, and none.
LEMMA FlattenAppend ==
    ASSUME NEW S, NEW ss \in Seq(Seq(S)), NEW s \in Seq(S)
    PROVE  /\ FlattenSeq(Append(ss, s)) = FlattenSeq(ss) \o s
           /\ FlattenSeq(ss) \in Seq(S) /\ FlattenSeq(<<>>) = <<>>
<1> DEFINE n == Len(ss)
           tt == Append(ss, s)
<1>1. n \in Nat /\ tt \in Seq(Seq(S)) /\ Len(tt) = n + 1 /\ tt[n + 1] = s
      /\ \A k \in 1 .. n : tt[k] = ss[k]
  OBVIOUS
<1>2. PICK f \in [0 .. n -> Seq(S)] : Flattens(f, ss) /\ FlattenSeq(ss) = f[n]
  BY FlattenExists
<1> DEFINE g == [k \in 0 .. n + 1 |-> IF k = n + 1 THEN f[n] \o s ELSE f[k]]
<1>3. f[n] \in Seq(S)
  <2>1. n \in 0 .. n
    BY <1>1
  <2> HIDE DEF n
  <2> QED
    BY <1>2, <2>1
<1>4. f[n] \o s \in Seq(S)
  BY <1>3
<1>5. g \in [0 .. n + 1 -> Seq(S)]
  BY <1>1, <1>2, <1>4
<1>6. g[n + 1] = f[n] \o s /\ \A k \in 0 .. n : g[k] = f[k]
  BY <1>1
<1> HIDE DEF g, tt
<1>7. Flattens(g, tt)
  <2>1. g[0] = <<>>
    BY <1>1, <1>2, <1>6 DEF Flattens
  <2>2. ASSUME NEW k \in 1 .. n + 1 PROVE g[k] = g[k - 1] \o tt[k]
    <3>1. CASE k = n + 1
      <4>1. k - 1 = n /\ n \in 0 .. n
        BY <1>1, <3>1
      <4>2. g[k] = f[n] \o s /\ g[k - 1] = f[n] /\ tt[k] = s
        BY <1>1, <1>6, <3>1, <4>1
      <4> QED
        BY <4>2
    <3>2. CASE k # n + 1
      <4>1. k \in 1 .. n /\ k \in 0 .. n /\ k - 1 \in 0 .. n
        BY <1>1, <3>2
      <4>2. f[k] = f[k - 1] \o ss[k]
        BY <1>2, <4>1 DEF Flattens
      <4>3. g[k] = f[k] /\ g[k - 1] = f[k - 1] /\ tt[k] = ss[k]
        BY <1>1, <1>6, <4>1
      <4> QED
        BY <4>2, <4>3
    <3> QED
      BY <3>1, <3>2
  <2> QED
    BY <1>1, <2>1, <2>2 DEF Flattens
<1>8. FlattenSeq(tt) = g[n + 1]
  <2>1. g \in [0 .. Len(tt) -> Seq(S)]
    BY <1>1, <1>5
  <2> QED
    BY <1>1, <1>7, <2>1, FlattenIs
<1>9. FlattenSeq(<<>>) = <<>>
  BY DEF FlattenSeq
<1> QED
  BY <1>2, <1>3, <1>6, <1>8, <1>9 DEF tt

-----------------------------------------------------------------------------
(* What the encoder's dictionary can hold, and what a REF stands for.      *)

\* A bounded set of numbers has a greatest element.
LEMMA MaxIsIn ==
    ASSUME NEW n \in Nat, NEW S \in SUBSET (1 .. n), S # {}
    PROVE  Max(S) \in S /\ \A y \in S : Max(S) >= y
<1> DEFINE P == {k \in Nat : \A s \in SUBSET (1 .. k) :
                    s # {} => \E x \in s : \A y \in s : x >= y}
<1>1. 0 \in P
  <2>1. 1 .. 0 = {}
    OBVIOUS
  <2> QED
    BY <2>1
<1>2. ASSUME NEW k \in P PROVE k + 1 \in P
  <2>1. ASSUME NEW s \in SUBSET (1 .. k + 1), s # {}
        PROVE  \E x \in s : \A y \in s : x >= y
    <3>1. CASE k + 1 \in s
      BY <3>1
    <3>2. CASE k + 1 \notin s
      <4>1. s \in SUBSET (1 .. k)
        BY <3>2
      <4> QED
        BY <2>1, <4>1
    <3> QED
      BY <3>1, <3>2
  <2> QED
    BY <2>1
<1> HIDE DEF P
<1>3. n \in P
  <2>1. P \subseteq Nat
    BY DEF P
  <2> QED
    BY <1>1, <1>2, <2>1, AllOfNat
<1>4. PICK x \in S : \A y \in S : x >= y
  BY <1>3 DEF P
<1> QED
  BY <1>4 DEF Max

\* The first k numbers are the first k - 1 and the greatest of them.
LEMMA GreatestOfSome ==
    ASSUME NEW k \in Nat \ {0}
    PROVE  Max(1 .. k) = k /\ (1 .. k) \ {k} = 1 .. k - 1 /\ 1 .. k # {}
<1>1. k \in 1 .. k /\ 1 .. k \in SUBSET (1 .. k) /\ k \in Nat
  OBVIOUS
<1>2. Max(1 .. k) \in 1 .. k /\ Max(1 .. k) >= k
  BY <1>1, MaxIsIn
<1>3. PICK m : m = Max(1 .. k)
  OBVIOUS
<1>4. m = k
  BY <1>2, <1>3
<1>5. (1 .. k) \ {k} = 1 .. k - 1 /\ 1 .. k # {}
  BY <1>1
<1> QED
  BY <1>3, <1>4, <1>5

\* The loop of encode over p as a recursion on the first chunks of p.
LEMMA RememberedRecursion ==
    ASSUME NEW p \in Seq(Chunks), NEW dict, SoundDictionary(dict, MaxDictChunks)
    PROVE  \E g : /\ g = [s \in SUBSET DOMAIN p |->
                            IF s = {} THEN dict
                            ELSE Remembered(g[s \ {Max(s)}], p[Max(s)])]
                  /\ FoldLeft(Remembered, dict, p) = g[DOMAIN p]
<1> DEFINE V == {d \in Seq(Entries) : SoundDictionary(d, MaxDictChunks)}
           h == [x \in DOMAIN p |-> [v \in V |-> Remembered(v, p[x])]]
           c == [s \in SUBSET DOMAIN p |-> Max(s)]
           g == CHOOSE f : f = [s \in SUBSET DOMAIN p |->
                            IF s = {} THEN dict
                            ELSE Remembered(f[s \ {Max(s)}], p[Max(s)])]
<1>1. DOMAIN p = 1 .. Len(p) /\ Len(p) \in Nat /\ IsFiniteSet(DOMAIN p)
      /\ \A x \in DOMAIN p : p[x] \in Chunks
  <2>1. DOMAIN p = 1 .. Len(p) /\ Len(p) \in Nat
    BY LenProperties
  <2>2. IsFiniteSet(1 .. Len(p))
    BY <2>1, FS_Interval
  <2> QED
    BY <2>1, <2>2, ElementOfSeq
<1>2. ASSUME NEW s \in SUBSET DOMAIN p, s # {}
      PROVE  Max(s) \in s
  BY <1>1, <1>2, MaxIsIn
<1>3. ASSUME NEW v \in V, NEW x \in DOMAIN p
      PROVE  Remembered(v, p[x]) \in V
  <2>1. CASE CidOf[p[x]] \in Keys(v)
    BY <2>1 DEF Remembered
  <2>2. CASE CidOf[p[x]] \notin Keys(v)
    <3>1. SoundDictionary(Remembered(v, p[x]), MaxDictChunks)
      BY <1>1, <2>2, TouchLruSound, CapacityAssumption DEF Remembered
    <3> QED
      BY <3>1 DEF SoundDictionary
  <2> QED
    BY <2>1, <2>2
<1>4. dict \in V
  BY DEF SoundDictionary
<1> HIDE DEF V
<1>5. Turns(h, DOMAIN p, V)
  BY <1>3 DEF Turns
<1>6. Picks(c, DOMAIN p)
  BY <1>2 DEF Picks
<1>7. PICK f : Unfolds(f, DOMAIN p, V, dict, c, h)
  <2> HIDE DEF h, c, g
  <2> QED
    BY <1>1, <1>4, <1>5, <1>6, SetRecursion
<1>8. ASSUME NEW s \in SUBSET DOMAIN p
      PROVE  f[s] = IF s = {} THEN dict
                    ELSE Remembered(f[s \ {Max(s)}], p[Max(s)])
  <2>1. s # {} => Max(s) \in DOMAIN p /\ f[s \ {Max(s)}] \in V
    BY <1>2, <1>7 DEF Unfolds
  <2> QED
    BY <1>7, <2>1 DEF Unfolds
<1>9. f = [s \in SUBSET DOMAIN p |->
             IF s = {} THEN dict ELSE Remembered(f[s \ {Max(s)}], p[Max(s)])]
  BY <1>7, <1>8 DEF Unfolds
<1>10. g = [s \in SUBSET DOMAIN p |->
              IF s = {} THEN dict ELSE Remembered(g[s \ {Max(s)}], p[Max(s)])]
  BY <1>9, Zenon
<1>11. FoldLeft(Remembered, dict, p) = g[DOMAIN p]
  BY Zenon DEF FoldLeft, MapThenFoldSet
<1> HIDE DEF g
<1> QED
  BY <1>10, <1>11, Zenon

\* encode remembers nothing but what it started with and what it has seen.
LEMMA RememberedFold ==
    ASSUME NEW p \in Seq(Chunks), NEW dict, SoundDictionary(dict, MaxDictChunks)
    PROVE  Keys(FoldLeft(Remembered, dict, p))
             \subseteq Keys(dict) \cup {CidOf[p[j]] : j \in DOMAIN p}
<1>1. PICK g : /\ g = [s \in SUBSET DOMAIN p |->
                         IF s = {} THEN dict
                         ELSE Remembered(g[s \ {Max(s)}], p[Max(s)])]
               /\ FoldLeft(Remembered, dict, p) = g[DOMAIN p]
  BY RememberedRecursion
<1>2. DOMAIN p = 1 .. Len(p) /\ Len(p) \in Nat
      /\ \A x \in DOMAIN p : p[x] \in Chunks
  BY LenProperties, ElementOfSeq
<1>3. PICK n : n = Len(p) /\ n \in Nat
  BY <1>2
<1> DEFINE Grown(k) == Keys(dict) \cup {CidOf[p[j]] : j \in 1 .. k}
           P == {k \in Nat : k <= n => /\ SoundDictionary(g[1 .. k], MaxDictChunks)
                                       /\ Keys(g[1 .. k]) \subseteq Grown(k)}
<1>4. 0 \in P
  <2>1. 1 .. 0 = {} /\ g[{}] = dict
    BY <1>1
  <2> QED
    BY <2>1
<1>5. ASSUME NEW k \in P PROVE k + 1 \in P
  <2> SUFFICES ASSUME k + 1 <= n
               PROVE  /\ SoundDictionary(g[1 .. k + 1], MaxDictChunks)
                      /\ Keys(g[1 .. k + 1]) \subseteq Grown(k + 1)
    OBVIOUS
  <2>1. k \in Nat /\ k <= n /\ k + 1 \in 1 .. n /\ k + 1 \in Nat \ {0} /\ (k + 1) - 1 = k
    BY <1>3
  <2>2. /\ SoundDictionary(g[1 .. k], MaxDictChunks)
        /\ Keys(g[1 .. k]) \subseteq Grown(k)
    BY <2>1
  <2>3. 1 .. k + 1 \in SUBSET DOMAIN p
    BY <1>2, <1>3, <2>1
  <2>4. PICK c \in Chunks : c = p[k + 1]
    BY <1>2, <1>3, <2>1
  <2>5. g[1 .. k + 1] = Remembered(g[1 .. k], c)
    <3>1. /\ Max(1 .. k + 1) = k + 1 /\ (1 .. k + 1) \ {k + 1} = 1 .. k
          /\ 1 .. k + 1 # {}
      BY <2>1, GreatestOfSome
    <3> QED
      BY <1>1, <2>3, <2>4, <3>1
  <2>6. Grown(k) \subseteq Grown(k + 1) /\ CidOf[c] \in Grown(k + 1)
    BY <2>1, <2>4
  <2> HIDE DEF Grown
  <2>7. CASE CidOf[c] \in Keys(g[1 .. k])
    BY <2>2, <2>5, <2>6, <2>7 DEF Remembered
  <2>8. CASE CidOf[c] \notin Keys(g[1 .. k])
    <3>1. g[1 .. k + 1] = TouchLru(g[1 .. k], CidOf[c], c, MaxDictChunks)
      BY <2>5, <2>8 DEF Remembered
    <3> QED
      BY <2>2, <2>6, <3>1, TouchLruSound, CapacityAssumption
  <2> QED
    BY <2>7, <2>8
<1>6. n \in P
  <2> HIDE DEF P
  <2>1. P \subseteq Nat
    BY DEF P
  <2> QED
    BY <1>3, <1>4, <1>5, <2>1, AllOfNat
<1>7. DOMAIN p = 1 .. n
  BY <1>2, <1>3
<1>8. Keys(g[1 .. n]) \subseteq Grown(n)
  BY <1>3, <1>6
<1> QED
  BY <1>1, <1>7, <1>8

\* A REF stands for a chunk that the sender started with or has sent before.
LEMMA EncodedRefers ==
    ASSUME NEW data \in Seq(Chunks),
           NEW dict, SoundDictionary(dict, MaxDictChunks),
           NEW i \in 1 .. Len(data), Encoded(data, dict)[i].kind = "REF"
    PROVE  \/ CidOf[data[i]] \in Keys(dict)
           \/ \E j \in 1 .. i - 1 : CidOf[data[j]] = CidOf[data[i]]
<1> DEFINE p == SubSeq(data, 1, i - 1)
<1>1. Len(data) \in Nat /\ DOMAIN data = 1 .. Len(data)
      /\ \A j \in 1 .. Len(data) : data[j] \in Chunks
  BY LenProperties, ElementOfSeq
<1>2. PICK n : n = i - 1 /\ n \in Nat /\ n < Len(data) /\ i \in Nat
  BY <1>1
<1>3. p \in Seq(Chunks) /\ DOMAIN p = 1 .. n /\ \A j \in 1 .. n : p[j] = data[j]
  <2>1. 1 \in Int /\ n \in Int /\ \A j \in 1 .. n : data[j] \in Chunks
    BY <1>1, <1>2
  <2>2. p = SubSeq(data, 1, n)
    BY <1>2
  <2>3. p \in Seq(Chunks) /\ Len(p) = n /\ \A j \in 1 .. n : p[j] = data[j]
    <3>1. /\ SubSeq(data, 1, n) \in Seq(Chunks)
          /\ Len(SubSeq(data, 1, n)) = IF 1 <= n THEN n - 1 + 1 ELSE 0
          /\ \A j \in 1 .. n - 1 + 1 : SubSeq(data, 1, n)[j] = data[1 + j - 1]
      BY <2>1, SubSeqProperties
    <3>2. (IF 1 <= n THEN n - 1 + 1 ELSE 0) = n /\ n - 1 + 1 = n
          /\ \A j \in 1 .. n : 1 + j - 1 = j
      BY <1>2
    <3> QED
      BY <2>2, <3>1, <3>2
  <2> QED
    BY <2>3, LenProperties
<1>4. CidOf[data[i]] \in Keys(FoldLeft(Remembered, dict, p))
  BY <1>1 DEF Encoded, FrameOf, EncoderBefore
<1> HIDE DEF p
<1>5. Keys(FoldLeft(Remembered, dict, p))
        \subseteq Keys(dict) \cup {CidOf[p[j]] : j \in DOMAIN p}
  BY <1>3, RememberedFold
<1> QED
  BY <1>2, <1>3, <1>4, <1>5

-----------------------------------------------------------------------------
(* Where the secure encoder says the chunks start.                         *)

\* The loop that adds up the lengths of the chunks of p, as a recursion on the
\* first chunks of p.
LEMMA LengthRecursion ==
    ASSUME NEW p \in Seq(Chunks)
    PROVE  \E g : /\ g = [s \in SUBSET DOMAIN p |->
                            IF s = {} THEN 0
                            ELSE Advanced(g[s \ {Max(s)}], p[Max(s)])]
                  /\ FoldLeft(Advanced, 0, p) = g[DOMAIN p]
<1> DEFINE h == [x \in DOMAIN p |-> [v \in Nat |-> Advanced(v, p[x])]]
           c == [s \in SUBSET DOMAIN p |-> Max(s)]
           g == CHOOSE f : f = [s \in SUBSET DOMAIN p |->
                            IF s = {} THEN 0
                            ELSE Advanced(f[s \ {Max(s)}], p[Max(s)])]
<1>1. DOMAIN p = 1 .. Len(p) /\ Len(p) \in Nat /\ IsFiniteSet(DOMAIN p)
      /\ \A x \in DOMAIN p : p[x] \in Chunks
  <2>1. DOMAIN p = 1 .. Len(p) /\ Len(p) \in Nat
    BY LenProperties
  <2>2. IsFiniteSet(1 .. Len(p))
    BY <2>1, FS_Interval
  <2> QED
    BY <2>1, <2>2, ElementOfSeq
<1>2. ASSUME NEW s \in SUBSET DOMAIN p, s # {}
      PROVE  Max(s) \in s
  BY <1>1, <1>2, MaxIsIn
<1>3. ASSUME NEW v \in Nat, NEW x \in DOMAIN p
      PROVE  Advanced(v, p[x]) \in Nat
  BY <1>1, LengthAssumption DEF Advanced
<1>4. Turns(h, DOMAIN p, Nat)
  BY <1>3 DEF Turns
<1>5. Picks(c, DOMAIN p)
  BY <1>2 DEF Picks
<1>6. PICK f : Unfolds(f, DOMAIN p, Nat, 0, c, h)
  <2> HIDE DEF h, c, g
  <2>1. 0 \in Nat
    OBVIOUS
  <2> QED
    BY <1>1, <1>4, <1>5, <2>1, SetRecursion
<1>7. ASSUME NEW s \in SUBSET DOMAIN p
      PROVE  f[s] = IF s = {} THEN 0
                    ELSE Advanced(f[s \ {Max(s)}], p[Max(s)])
  <2>1. s # {} => Max(s) \in DOMAIN p /\ f[s \ {Max(s)}] \in Nat
    BY <1>2, <1>6 DEF Unfolds
  <2> QED
    BY <1>6, <2>1 DEF Unfolds
<1>8. f = [s \in SUBSET DOMAIN p |->
             IF s = {} THEN 0 ELSE Advanced(f[s \ {Max(s)}], p[Max(s)])]
  BY <1>6, <1>7 DEF Unfolds
<1>9. g = [s \in SUBSET DOMAIN p |->
              IF s = {} THEN 0 ELSE Advanced(g[s \ {Max(s)}], p[Max(s)])]
  BY <1>8, Zenon
<1>10. FoldLeft(Advanced, 0, p) = g[DOMAIN p]
  BY Zenon DEF FoldLeft, MapThenFoldSet
<1> HIDE DEF g
<1> QED
  BY <1>9, <1>10, Zenon

\* Chunks of one length start at the multiples of this length.
LEMMA LengthFold ==
    ASSUME NEW p \in Seq(Chunks), NEW size \in Nat,
           \A j \in 1 .. Len(p) : LengthOf[p[j]] = size
    PROVE  FoldLeft(Advanced, 0, p) = Len(p) * size
<1>1. PICK g : /\ g = [s \in SUBSET DOMAIN p |->
                         IF s = {} THEN 0
                         ELSE Advanced(g[s \ {Max(s)}], p[Max(s)])]
               /\ FoldLeft(Advanced, 0, p) = g[DOMAIN p]
  BY LengthRecursion
<1>2. PICK n : n = Len(p) /\ n \in Nat /\ DOMAIN p = 1 .. n
  BY LenProperties
<1> DEFINE P == {k \in Nat : k <= n => g[1 .. k] = k * size}
<1>3. 0 \in P
  <2>1. 1 .. 0 = {} /\ g[{}] = 0 /\ 0 * size = 0
    BY <1>1
  <2> QED
    BY <2>1
<1>4. ASSUME NEW k \in P PROVE k + 1 \in P
  <2> SUFFICES ASSUME k + 1 <= n PROVE g[1 .. k + 1] = (k + 1) * size
    OBVIOUS
  <2>1. k \in Nat /\ k <= n /\ k + 1 \in 1 .. n /\ k + 1 \in Nat \ {0} /\ (k + 1) - 1 = k
    BY <1>2
  <2>2. g[1 .. k] = k * size
    BY <2>1
  <2>3. 1 .. k + 1 \in SUBSET DOMAIN p
    BY <1>2, <2>1
  <2>4. /\ Max(1 .. k + 1) = k + 1 /\ (1 .. k + 1) \ {k + 1} = 1 .. k
        /\ 1 .. k + 1 # {}
    BY <2>1, GreatestOfSome
  <2>5. g[1 .. k + 1] = Advanced(g[1 .. k], p[k + 1])
    <3> HIDE DEF P
    <3>1. \A s \in SUBSET DOMAIN p :
             g[s] = IF s = {} THEN 0 ELSE Advanced(g[s \ {Max(s)}], p[Max(s)])
      BY <1>1, Zenon
    <3> QED
      BY <2>3, <2>4, <3>1, Zenon
  <2>6. LengthOf[p[k + 1]] = size
    BY <1>2, <2>1
  <2>7. (k + 1) * size = k * size + size
    BY <2>1
  <2> QED
    BY <2>2, <2>5, <2>6, <2>7 DEF Advanced
<1>5. n \in P
  <2> HIDE DEF P
  <2>1. P \subseteq Nat
    BY DEF P
  <2> QED
    BY <1>2, <1>3, <1>4, <2>1, AllOfNat
<1>6. g[1 .. n] = n * size
  BY <1>2, <1>5
<1> HIDE DEF P
<1> QED
  BY <1>1, <1>2, <1>6, Zenon

\* What redulink_secure.encode says of chunks that have one length but for the
\* last: the i-th starts at i - 1 times that length, and a REF stands for a
\* chunk that the sender started with or has sent before.
LEMMA SecurelyEncodedPlaces ==
    ASSUME NEW data \in Seq(Chunks), NEW size \in Nat, NEW dict \in Seq(Entries),
           NEW i \in 1 .. Len(data),
           \A j \in 1 .. Len(data) - 1 : LengthOf[data[j]] = size
    PROVE  /\ SecurelyEncoded(data, dict)[i].kind = Encoded(data, dict)[i].kind
           /\ SecurelyEncoded(data, dict)[i].offset = (i - 1) * size
<1> DEFINE p == SubSeq(data, 1, i - 1)
<1>1. PICK n : n = Len(data) /\ n \in Nat /\ DOMAIN data = 1 .. n
               /\ \A j \in 1 .. n : data[j] \in Chunks
  BY LenProperties, ElementOfSeq
<1>2. i \in 1 .. n /\ i - 1 \in Nat /\ (i - 1) - 1 + 1 = i - 1
  BY <1>1
<1>3. p \in Seq(Chunks) /\ Len(p) = i - 1 /\ \A j \in 1 .. i - 1 : p[j] = data[j]
  <2>1. 1 \in Int /\ i - 1 \in Int /\ \A j \in 1 .. i - 1 : data[j] \in Chunks
    BY <1>1, <1>2
  <2>2. /\ SubSeq(data, 1, i - 1) \in Seq(Chunks)
        /\ Len(SubSeq(data, 1, i - 1)) = IF 1 <= i - 1 THEN (i - 1) - 1 + 1 ELSE 0
        /\ \A j \in 1 .. (i - 1) - 1 + 1 : SubSeq(data, 1, i - 1)[j] = data[1 + j - 1]
    BY <2>1, SubSeqProperties
  <2> QED
    BY <1>2, <2>2
<1>4. /\ SecurelyEncoded(data, dict)[i].kind = Encoded(data, dict)[i].kind
      /\ SecurelyEncoded(data, dict)[i].offset = FoldLeft(Advanced, 0, p)
  BY <1>1, <1>2 DEF SecurelyEncoded
<1>5. FoldLeft(Advanced, 0, p) = (i - 1) * size
  <2> HIDE DEF p
  <2>1. \A j \in 1 .. Len(p) : LengthOf[p[j]] = size
    BY <1>1, <1>2, <1>3
  <2> QED
    BY <1>3, <2>1, LengthFold
<1> QED
  BY <1>4, <1>5

-----------------------------------------------------------------------------
(* The beginnings of a sequence.                                           *)

\* The first k elements of a sequence.
LEMMA Beginning ==
    ASSUME NEW T, NEW s \in Seq(T), NEW k \in Nat, k <= Len(s)
    PROVE  /\ SubSeq(s, 1, k) \in Seq(T) /\ Len(SubSeq(s, 1, k)) = k
           /\ DOMAIN SubSeq(s, 1, k) = 1 .. k
           /\ \A j \in 1 .. k : SubSeq(s, 1, k)[j] = s[j]
<1>1. Len(s) \in Nat /\ DOMAIN s = 1 .. Len(s) /\ \A j \in 1 .. k : s[j] \in T
  BY LenProperties, ElementOfSeq
<1>2. 1 \in Int /\ k \in Int /\ k - 1 + 1 = k
  OBVIOUS
<1>3. /\ SubSeq(s, 1, k) \in Seq(T)
      /\ Len(SubSeq(s, 1, k)) = IF 1 <= k THEN k - 1 + 1 ELSE 0
      /\ \A j \in 1 .. k - 1 + 1 : SubSeq(s, 1, k)[j] = s[1 + j - 1]
  BY <1>1, <1>2, SubSeqProperties
<1>4. Len(SubSeq(s, 1, k)) = k /\ \A j \in 1 .. k : SubSeq(s, 1, k)[j] = s[j]
  BY <1>3
<1> QED
  BY <1>3, <1>4, LenProperties

\* s is the beginning of t.
Begins(s, t) == Len(s) <= Len(t) /\ \A i \in 1 .. Len(s) : s[i] = t[i]

\* A sequence and what it begins.
LEMMA BeginsIsPrefix ==
    ASSUME NEW S, NEW s \in Seq(S), NEW t \in Seq(S), Begins(s, t)
    PROVE  IsPrefix(s, t)
<1>1. PICK n : n = Len(s) /\ n \in Nat /\ n <= Len(t) /\ DOMAIN s = 1 .. n
  BY LenProperties DEF Begins
<1>2. /\ Len(t) \in Nat /\ \A i \in 1 .. n : s[i] \in S /\ t[i] \in S /\ s[i] = t[i]
  BY <1>1, LenProperties, ElementOfSeq DEF Begins
<1>3. 1 \in Int /\ n \in Int /\ n - 1 + 1 = n /\ \A i \in 1 .. n : 1 + i - 1 = i
  BY <1>1
<1>4. /\ SubSeq(s, 1, n) \in Seq(S)
      /\ Len(SubSeq(s, 1, n)) = IF 1 <= n THEN n - 1 + 1 ELSE 0
      /\ \A i \in 1 .. n - 1 + 1 : SubSeq(s, 1, n)[i] = s[1 + i - 1]
  BY <1>2, <1>3, SubSeqProperties
<1>5. /\ SubSeq(t, 1, n) \in Seq(S)
      /\ Len(SubSeq(t, 1, n)) = IF 1 <= n THEN n - 1 + 1 ELSE 0
      /\ \A i \in 1 .. n - 1 + 1 : SubSeq(t, 1, n)[i] = t[1 + i - 1]
  BY <1>2, <1>3, SubSeqProperties
<1>6. (IF 1 <= n THEN n - 1 + 1 ELSE 0) = n
  BY <1>1
<1>7. /\ Len(SubSeq(s, 1, n)) = n /\ Len(SubSeq(t, 1, n)) = n
      /\ \A i \in 1 .. n : SubSeq(s, 1, n)[i] = SubSeq(t, 1, n)[i]
  BY <1>2, <1>3, <1>4, <1>5, <1>6
<1>8. SubSeq(s, 1, n) = SubSeq(t, 1, n)
  BY <1>4, <1>5, <1>7, SeqEqual
<1> QED
  BY <1>1, <1>8 DEF IsPrefix

\* A prefix is where its sequence begins.
LEMMA PrefixBegins ==
    ASSUME NEW S, NEW s \in Seq(S), NEW t \in Seq(S), IsPrefix(s, t)
    PROVE  Begins(s, t)
<1>1. Len(s) \in Nat /\ Len(t) \in Nat /\ Len(s) <= Len(t)
      /\ SubSeq(s, 1, Len(s)) = SubSeq(t, 1, Len(s))
  BY LenProperties DEF IsPrefix
<1>2. /\ \A i \in 1 .. Len(s) : SubSeq(s, 1, Len(s))[i] = s[i]
      /\ \A i \in 1 .. Len(s) : SubSeq(t, 1, Len(s))[i] = t[i]
  <2>1. Len(s) <= Len(s)
    BY <1>1
  <2> QED
    BY <1>1, <2>1, Beginning
<1> QED
  BY <1>1, <1>2 DEF Begins

-----------------------------------------------------------------------------
(* The encoder, one chunk at a time.                                       *)

\* What encode remembers of the first i chunks, from what it remembers of those before.
LEMMA RememberedOneMore ==
    ASSUME NEW data \in Seq(Chunks), NEW i \in 1 .. Len(data),
           NEW dict, SoundDictionary(dict, MaxDictChunks)
    PROVE  FoldLeft(Remembered, dict, SubSeq(data, 1, i))
             = Remembered(FoldLeft(Remembered, dict, SubSeq(data, 1, i - 1)), data[i])
<1> DEFINE p == SubSeq(data, 1, i)
           q == SubSeq(data, 1, i - 1)
<1>1. i \in Nat \ {0} /\ i - 1 \in Nat /\ i - 1 < i
  BY LenProperties
<1>2. /\ p \in Seq(Chunks) /\ DOMAIN p = 1 .. i /\ \A j \in 1 .. i : p[j] = data[j]
      /\ q \in Seq(Chunks) /\ DOMAIN q = 1 .. i - 1 /\ \A j \in 1 .. i - 1 : q[j] = data[j]
  <2>1. i <= Len(data) /\ i - 1 <= Len(data)
    BY <1>1, LenProperties
  <2> QED
    BY <1>1, <2>1, Beginning
<1> HIDE DEF p, q
<1>3. PICK g : /\ g = [s \in SUBSET DOMAIN p |->
                         IF s = {} THEN dict ELSE Remembered(g[s \ {Max(s)}], p[Max(s)])]
               /\ FoldLeft(Remembered, dict, p) = g[DOMAIN p]
  BY <1>2, RememberedRecursion
<1>4. PICK f : /\ f = [s \in SUBSET DOMAIN q |->
                         IF s = {} THEN dict ELSE Remembered(f[s \ {Max(s)}], q[Max(s)])]
               /\ FoldLeft(Remembered, dict, q) = f[DOMAIN q]
  BY <1>2, RememberedRecursion
<1>5. /\ \A s \in SUBSET (1 .. i) :
            g[s] = IF s = {} THEN dict ELSE Remembered(g[s \ {Max(s)}], p[Max(s)])
      /\ \A s \in SUBSET (1 .. i - 1) :
            f[s] = IF s = {} THEN dict ELSE Remembered(f[s \ {Max(s)}], q[Max(s)])
  BY <1>2, <1>3, <1>4, Zenon
<1>6. ASSUME NEW k \in 1 .. i
      PROVE  /\ g[1 .. k] = Remembered(g[1 .. k - 1], data[k])
             /\ k <= i - 1 => f[1 .. k] = Remembered(f[1 .. k - 1], data[k])
  <2>1. /\ Max(1 .. k) = k /\ (1 .. k) \ {k} = 1 .. k - 1 /\ 1 .. k # {}
        /\ 1 .. k \in SUBSET (1 .. i)
        /\ k <= i - 1 => 1 .. k \in SUBSET (1 .. i - 1) /\ k \in 1 .. i - 1
    <3>1. k \in Nat \ {0} /\ k <= i
      BY <1>1
    <3>2. Max(1 .. k) = k /\ (1 .. k) \ {k} = 1 .. k - 1 /\ 1 .. k # {}
      BY <3>1, GreatestOfSome
    <3>3. 1 .. k \in SUBSET (1 .. i)
      BY <1>1, <3>1
    <3>4. k <= i - 1 => 1 .. k \in SUBSET (1 .. i - 1) /\ k \in 1 .. i - 1
      BY <1>1, <3>1
    <3> QED
      BY <3>2, <3>3, <3>4
  <2>2. p[k] = data[k] /\ (k <= i - 1 => q[k] = data[k])
    BY <1>2, <2>1
  <2> QED
    BY <1>5, <2>1, <2>2, Zenon
<1> DEFINE P == {k \in Nat : k <= i - 1 => g[1 .. k] = f[1 .. k]}
<1>7. 0 \in P
  <2>1. 1 .. 0 = {} /\ {} \in SUBSET (1 .. i) /\ {} \in SUBSET (1 .. i - 1)
    OBVIOUS
  <2>2. g[{}] = f[{}]
    BY <1>5, <2>1
  <2> QED
    BY <2>1, <2>2
<1>8. ASSUME NEW k \in P PROVE k + 1 \in P
  <2> SUFFICES ASSUME k + 1 <= i - 1 PROVE g[1 .. k + 1] = f[1 .. k + 1]
    OBVIOUS
  <2>1. k + 1 \in 1 .. i /\ (k + 1) - 1 = k /\ g[1 .. k] = f[1 .. k]
    BY <1>1
  <2> HIDE DEF P
  <2>2. /\ g[1 .. k + 1] = Remembered(g[1 .. (k + 1) - 1], data[k + 1])
        /\ f[1 .. k + 1] = Remembered(f[1 .. (k + 1) - 1], data[k + 1])
    BY <1>6, <2>1
  <2> QED
    BY <2>1, <2>2, Zenon
<1>9. g[1 .. i - 1] = f[1 .. i - 1]
  <2>1. i - 1 \in P
    <3> HIDE DEF P
    <3>1. P \subseteq Nat
      BY DEF P
    <3> QED
      BY <1>1, <1>7, <1>8, <3>1, AllOfNat
  <2> QED
    BY <2>1
<1>10. i \in 1 .. i /\ g[1 .. i] = Remembered(g[1 .. i - 1], data[i])
  BY <1>1, <1>6
<1>11. FoldLeft(Remembered, dict, p) = Remembered(FoldLeft(Remembered, dict, q), data[i])
  BY <1>2, <1>3, <1>4, <1>9, <1>10, Zenon
<1> QED
  BY <1>11 DEF p, q

\* The offset after the first i chunks, from the one before the last of them.
LEMMA AdvancedOneMore ==
    ASSUME NEW data \in Seq(Chunks), NEW i \in 1 .. Len(data)
    PROVE  FoldLeft(Advanced, 0, SubSeq(data, 1, i))
             = Advanced(FoldLeft(Advanced, 0, SubSeq(data, 1, i - 1)), data[i])
<1> DEFINE p == SubSeq(data, 1, i)
           q == SubSeq(data, 1, i - 1)
<1>1. i \in Nat \ {0} /\ i - 1 \in Nat /\ i - 1 < i
  BY LenProperties
<1>2. /\ p \in Seq(Chunks) /\ DOMAIN p = 1 .. i /\ \A j \in 1 .. i : p[j] = data[j]
      /\ q \in Seq(Chunks) /\ DOMAIN q = 1 .. i - 1 /\ \A j \in 1 .. i - 1 : q[j] = data[j]
  <2>1. i <= Len(data) /\ i - 1 <= Len(data)
    BY <1>1, LenProperties
  <2> QED
    BY <1>1, <2>1, Beginning
<1> HIDE DEF p, q
<1>3. PICK g : /\ g = [s \in SUBSET DOMAIN p |->
                         IF s = {} THEN 0 ELSE Advanced(g[s \ {Max(s)}], p[Max(s)])]
               /\ FoldLeft(Advanced, 0, p) = g[DOMAIN p]
  BY <1>2, LengthRecursion
<1>4. PICK f : /\ f = [s \in SUBSET DOMAIN q |->
                         IF s = {} THEN 0 ELSE Advanced(f[s \ {Max(s)}], q[Max(s)])]
               /\ FoldLeft(Advanced, 0, q) = f[DOMAIN q]
  BY <1>2, LengthRecursion
<1>5. /\ \A s \in SUBSET (1 .. i) :
            g[s] = IF s = {} THEN 0 ELSE Advanced(g[s \ {Max(s)}], p[Max(s)])
      /\ \A s \in SUBSET (1 .. i - 1) :
            f[s] = IF s = {} THEN 0 ELSE Advanced(f[s \ {Max(s)}], q[Max(s)])
  BY <1>2, <1>3, <1>4, Zenon
<1>6. ASSUME NEW k \in 1 .. i
      PROVE  /\ g[1 .. k] = Advanced(g[1 .. k - 1], data[k])
             /\ k <= i - 1 => f[1 .. k] = Advanced(f[1 .. k - 1], data[k])
  <2>1. /\ Max(1 .. k) = k /\ (1 .. k) \ {k} = 1 .. k - 1 /\ 1 .. k # {}
        /\ 1 .. k \in SUBSET (1 .. i)
        /\ k <= i - 1 => 1 .. k \in SUBSET (1 .. i - 1) /\ k \in 1 .. i - 1
    <3>1. k \in Nat \ {0} /\ k <= i
      BY <1>1
    <3>2. Max(1 .. k) = k /\ (1 .. k) \ {k} = 1 .. k - 1 /\ 1 .. k # {}
      BY <3>1, GreatestOfSome
    <3>3. 1 .. k \in SUBSET (1 .. i)
      BY <1>1, <3>1
    <3>4. k <= i - 1 => 1 .. k \in SUBSET (1 .. i - 1) /\ k \in 1 .. i - 1
      BY <1>1, <3>1
    <3> QED
      BY <3>2, <3>3, <3>4
  <2>2. p[k] = data[k] /\ (k <= i - 1 => q[k] = data[k])
    BY <1>2, <2>1
  <2> QED
    BY <1>5, <2>1, <2>2, Zenon
<1> DEFINE P == {k \in Nat : k <= i - 1 => g[1 .. k] = f[1 .. k]}
<1>7. 0 \in P
  <2>1. 1 .. 0 = {} /\ {} \in SUBSET (1 .. i) /\ {} \in SUBSET (1 .. i - 1)
    OBVIOUS
  <2>2. g[{}] = f[{}]
    BY <1>5, <2>1
  <2> QED
    BY <2>1, <2>2
<1>8. ASSUME NEW k \in P PROVE k + 1 \in P
  <2> SUFFICES ASSUME k + 1 <= i - 1 PROVE g[1 .. k + 1] = f[1 .. k + 1]
    OBVIOUS
  <2>1. k + 1 \in 1 .. i /\ (k + 1) - 1 = k /\ g[1 .. k] = f[1 .. k]
    BY <1>1
  <2> HIDE DEF P
  <2>2. /\ g[1 .. k + 1] = Advanced(g[1 .. (k + 1) - 1], data[k + 1])
        /\ f[1 .. k + 1] = Advanced(f[1 .. (k + 1) - 1], data[k + 1])
    BY <1>6, <2>1
  <2> QED
    BY <2>1, <2>2, Zenon
<1>9. g[1 .. i - 1] = f[1 .. i - 1]
  <2>1. i - 1 \in P
    <3> HIDE DEF P
    <3>1. P \subseteq Nat
      BY DEF P
    <3> QED
      BY <1>1, <1>7, <1>8, <3>1, AllOfNat
  <2> QED
    BY <2>1
<1>10. i \in 1 .. i /\ g[1 .. i] = Advanced(g[1 .. i - 1], data[i])
  BY <1>1, <1>6
<1>11. FoldLeft(Advanced, 0, p) = Advanced(FoldLeft(Advanced, 0, q), data[i])
  BY <1>2, <1>3, <1>4, <1>9, <1>10, Zenon
<1> QED
  BY <1>11 DEF p, q
=============================================================================
