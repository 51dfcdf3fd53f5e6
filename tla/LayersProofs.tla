---------------------------- MODULE LayersProofs ----------------------------
(***************************************************************************)
(* What lies below the transfers.  The replay window, for every capacity   *)
(* and every set of nonces: it remembers all that matters, in at most 2 *  *)
(* Size nonces, and implements the filter with unbounded memory.  The      *)
(* chunkers, for all data and every size and mask: the chunks are the      *)
(* data, cut where the code says.  The datagram proxies, for any number of *)
(* connections, sizes and delays: they keep the order of each path,        *)
(* account for every datagram, and share one link that is neither used     *)
(* twice at a time nor idle.  The key schedule, for all contexts, master   *)
(* secrets and lengths: what it derives is HKDF's, and a context with no   *)
(* separator in its texts shares it with no other.  The wire format, for   *)
(* all messages, bodies and divisions of the stream: a message has one     *)
(* encoding, and reader and writer stay in step.                           *)
(***************************************************************************)
EXTENDS NonceFilter, Chunker, KeySchedule, WireStream, LossyProxy, EncodingProofs

-----------------------------------------------------------------------------
(* The replay window.                                                      *)

\* Why the memory is bounded: a prune discards every stale nonce, and the
\* steps that skip the prune leave no more than Size of them.
StaleBound == IsFiniteSet(window.seen) /\ Cardinality(Stale) <= Size

IInv == TypeOK /\ RemembersWindow /\ StaleBound

\* What one call of add leaves in a window of the right type.
LEMMA RememberType ==
    ASSUME NEW w \in Windows, NEW n \in Nat, NEW size \in Nat,
           IsFiniteSet(w.seen)
    PROVE  /\ Remember(w, size, n) \in Windows
           /\ IsFiniteSet(Remember(w, size, n).seen)
           /\ Remember(w, size, n).seen \subseteq w.seen \cup {n}
           /\ Remember(w, size, n).highest = Later(w.highest, n)
<1>1. w.highest \in Nat /\ w.seen \in SUBSET Nat
  BY DEF Windows
<1>2. IsFiniteSet(w.seen \cup {n})
  BY FS_AddElement
<1>3. Remember(w, size, n).seen \subseteq w.seen \cup {n}
  BY DEF Remember
<1>4. Remember(w, size, n).highest = Later(w.highest, n)
  BY DEF Remember
<1>5. IsFiniteSet(Remember(w, size, n).seen)
  BY <1>2, <1>3, FS_Subset
<1>6. Remember(w, size, n) \in Windows
  BY <1>1, <1>3, <1>4 DEF Remember, Windows, Later
<1> QED
  BY <1>3, <1>4, <1>5, <1>6

\* The initial window satisfies the invariant.
LEMMA InitInvariant == Init => IInv
<1> SUFFICES ASSUME Init PROVE IInv
  OBVIOUS
<1>1. window.highest = 0 /\ window.seen = {}
  BY DEF Init, EmptyWindow
<1>2. Stale = {}
  BY <1>1 DEF Stale
<1>3. TypeOK
  BY DEF Init, TypeOK, EmptyWindow, Windows
<1>4. RemembersWindow
  BY <1>1 DEF Init, RemembersWindow
<1>5. StaleBound
  BY <1>1, <1>2, FS_EmptySet, SizeAssumption DEF StaleBound
<1> QED
  BY <1>3, <1>4, <1>5 DEF IInv

\* Accepting a nonce keeps everything that matters in memory.
LEMMA AcceptRemembers ==
    ASSUME IInv, NEW n \in Nonces, Accept(n)
    PROVE  TypeOK' /\ RemembersWindow'
<1> USE NoncesAssumption, SizeAssumption
<1>1. window \in Windows /\ n \in Nat /\ IsFiniteSet(window.seen) /\ Size \in Nat
  BY DEF IInv, TypeOK, StaleBound
<1>2. window' = Remember(window, Size, n) /\ accepted' = accepted \cup {n}
  BY DEF Accept
<1>3. TypeOK'
  <2>1. window' \in Windows
    BY <1>1, <1>2, RememberType
  <2>2. accepted' \subseteq Nonces /\ answer' \in [nonce : Nonces, fresh : BOOLEAN]
    BY <1>2 DEF IInv, TypeOK, Accept
  <2> QED
    BY <2>1, <2>2 DEF TypeOK
<1>4. /\ window.highest \in Nat /\ window.seen \subseteq Nat
      /\ accepted \subseteq Nat
      /\ window.highest' = Later(window.highest, n)
      /\ window.seen' \subseteq window.seen \cup {n}
  BY <1>1, <1>2, RememberType DEF IInv, TypeOK, Windows
<1>5. window.seen' \subseteq accepted'
  BY <1>2, <1>4 DEF IInv, RemembersWindow
<1>6. \A m \in accepted' : m <= window.highest'
  BY <1>1, <1>2, <1>4 DEF IInv, RemembersWindow, Later
<1>7. ASSUME NEW m \in accepted', m > window.highest' - Size
      PROVE  m \in window.seen'
  <2>1. m \in window.seen \cup {n}
    <3>1. window.highest' - Size >= window.highest - Size
      BY <1>1, <1>4 DEF Later
    <3>2. CASE m \in accepted
      <4>1. m \in Nat /\ window.highest' \in Nat
        BY <1>1, <1>4, <3>2 DEF Later
      <4>2. m > window.highest - Size
        BY <1>1, <1>4, <1>7, <3>1, <4>1
      <4> QED
        BY <3>2, <4>2 DEF IInv, RemembersWindow
    <3> QED
      BY <1>2, <3>2
  <2>2. CASE Prunes(window, Size, n)
    <3>1. window.highest' = n
      BY <1>1, <1>4, <2>2 DEF Prunes, Later
    <3>2. window.seen' = {k \in window.seen \cup {n} : k > n - Size}
      BY <1>2, <2>2 DEF Remember
    <3> QED
      BY <1>7, <2>1, <3>1, <3>2
  <2>3. CASE ~ Prunes(window, Size, n)
    BY <1>2, <2>1, <2>3 DEF Remember
  <2> QED
    BY <2>2, <2>3
<1>8. window.highest' # 0 => window.highest' \in accepted'
  BY <1>2, <1>4 DEF IInv, RemembersWindow, Later
<1> QED
  BY <1>3, <1>5, <1>6, <1>7, <1>8 DEF RemembersWindow

\* Accepting a nonce leaves at most Size stale nonces in memory.
LEMMA AcceptStale ==
    ASSUME IInv, NEW n \in Nonces, Accept(n)
    PROVE  StaleBound'
<1> USE NoncesAssumption, SizeAssumption
<1>1. window \in Windows /\ n \in Nat /\ IsFiniteSet(window.seen) /\ Size \in Nat
  BY DEF IInv, TypeOK, StaleBound
<1>2. window' = Remember(window, Size, n)
  BY DEF Accept
<1>3. /\ IsFiniteSet(window.seen') /\ window.seen' \subseteq window.seen \cup {n}
      /\ window.highest' = Later(window.highest, n)
      /\ window.highest \in Nat /\ window.seen \subseteq Nat
  BY <1>1, <1>2, RememberType DEF Windows
<1>4. Stale' = {m \in window.seen' : m <= window.highest' - Size}
  BY DEF Stale
<1>5. CASE Prunes(window, Size, n)
  <2>1. window.highest' = n
    BY <1>1, <1>3, <1>5 DEF Prunes, Later
  <2>2. window.seen' = {m \in window.seen \cup {n} : m > n - Size}
    BY <1>2, <1>5 DEF Remember
  <2>3. Stale' = {}
    BY <1>1, <1>3, <1>4, <2>1, <2>2
  <2> QED
    BY <1>3, <2>3, FS_EmptySet DEF StaleBound
<1>6. CASE n > window.highest /\ n - Size <= 0
  <2>1. Stale' \in SUBSET Nat /\ \A m \in Stale' : m <= 0
    BY <1>1, <1>3, <1>4, <1>6 DEF Later
  <2>2. IsFiniteSet(Stale') /\ Cardinality(Stale') <= 0 + 1
    BY <2>1, FS_BoundedSetOfNaturals
  <2>3. Cardinality(Stale') \in Nat
    BY <2>2, FS_CardinalityType
  <2> QED
    BY <1>3, <2>2, <2>3 DEF StaleBound
<1>7. CASE /\ n > window.highest /\ n - Size > 0 /\ ~ Prunes(window, Size, n)
  <2>1. window.seen' = window.seen \cup {n}
    BY <1>2, <1>7 DEF Remember
  <2>2. Cardinality(window.seen') \in Nat /\ Cardinality(window.seen') <= Size
    BY <1>1, <1>3, <1>7, <2>1, FS_CardinalityType DEF Prunes
  <2>3. Stale' \in SUBSET window.seen'
    BY <1>4
  <2>4. /\ Cardinality(Stale') <= Cardinality(window.seen')
        /\ Cardinality(Stale') \in Nat
    BY <1>3, <2>3, FS_Subset, FS_CardinalityType
  <2> QED
    BY <1>3, <2>2, <2>4 DEF StaleBound
<1>8. CASE ~ (n > window.highest)
  <2>1. window.highest' = window.highest
    BY <1>1, <1>3, <1>8 DEF Later
  <2>2. window.seen' = window.seen \cup {n}
    BY <1>2, <1>8 DEF Remember, Prunes
  <2>3. n > window.highest - Size
    BY <1>1, <1>3, <1>8 DEF Accept, Replayed
  <2>4. Stale' = Stale
    BY <1>1, <1>3, <1>4, <2>1, <2>2, <2>3 DEF Stale
  <2> QED
    BY <1>3, <2>4 DEF IInv, StaleBound
<1> QED
  BY <1>1, <1>5, <1>6, <1>7, <1>8

\* Every step keeps the invariant.
LEMMA NextInvariant == IInv /\ [Next]_vars => IInv'
<1> SUFFICES ASSUME IInv, [Next]_vars PROVE IInv'
  OBVIOUS
<1>1. ASSUME NEW n \in Nonces, Accept(n) PROVE IInv'
  BY <1>1, AcceptRemembers, AcceptStale DEF IInv
<1>2. ASSUME NEW n \in Nonces, Reject(n) PROVE IInv'
  <2>1. window' = window /\ accepted' = accepted
    BY <1>2 DEF Reject
  <2>2. TypeOK'
    BY <1>2, <2>1 DEF IInv, TypeOK, Reject
  <2> QED
    BY <2>1, <2>2 DEF IInv, RemembersWindow, StaleBound, Stale
<1>3. CASE UNCHANGED vars
  BY <1>3 DEF vars, IInv, TypeOK, RemembersWindow, StaleBound, Stale
<1> QED
  BY <1>1, <1>2, <1>3 DEF Next

LEMMA Invariant == Spec => []IInv
  BY InitInvariant, NextInvariant, PTL DEF Spec

-----------------------------------------------------------------------------
\* Type correctness of the replay filter.
THEOREM TypeCorrect == Spec => []TypeOK
<1>1. IInv => TypeOK
  BY DEF IInv
<1> QED
  BY <1>1, Invariant, PTL

\* What the window forgets does not matter (NonceWindow.add, __contains__).
THEOREM WindowRemembers == Spec => []RemembersWindow
<1>1. IInv => RemembersWindow
  BY DEF IInv
<1> QED
  BY <1>1, Invariant, PTL

\* The memory of a long-lived receiver is bounded by twice the capacity.
THEOREM MemoryBounded == Spec => []MemoryBound
<1>1. IInv => MemoryBound
  <2> SUFFICES ASSUME IInv PROVE MemoryBound
    OBVIOUS
  <2> USE SizeAssumption
  <2> DEFINE recent == (window.highest - Size + 1) .. window.highest
  <2>1. window.highest \in Nat /\ window.seen \subseteq Nat
    BY DEF IInv, TypeOK, Windows
  <2>2. \A m \in window.seen : m <= window.highest
    BY DEF IInv, RemembersWindow
  <2>3. window.seen \in SUBSET (Stale \cup recent)
    BY <2>1, <2>2 DEF Stale
  <2>4. IsFiniteSet(recent) /\ Cardinality(recent) = Size
    <3> DEFINE low == window.highest - Size + 1
    <3>1. low \in Int /\ window.highest \in Int
      BY <2>1
    <3> HIDE DEF low
    <3>2. /\ IsFiniteSet(low .. window.highest)
          /\ Cardinality(low .. window.highest)
               = IF low > window.highest THEN 0 ELSE window.highest - low + 1
      BY <3>1, FS_Interval, Zenon
    <3> QED
      BY <2>1, <3>2 DEF low
  <2>5. IsFiniteSet(Stale) /\ Cardinality(Stale) \in Nat /\ Cardinality(Stale) <= Size
    <3>1. Stale \in SUBSET window.seen
      BY DEF Stale
    <3> QED
      BY <3>1, FS_Subset, FS_CardinalityType DEF IInv, StaleBound
  <2>6. /\ IsFiniteSet(Stale \cup recent)
        /\ Cardinality(Stale \cup recent) <= 2 * Size
    <3>1. /\ IsFiniteSet(Stale \cup recent)
          /\ Cardinality(Stale \cup recent) = Cardinality(Stale)
               + Cardinality(recent) - Cardinality(Stale \cap recent)
      BY <2>4, <2>5, FS_Union
    <3>2. IsFiniteSet(Stale \cap recent) /\ Cardinality(Stale \cap recent) \in Nat
      BY <2>5, FS_Intersection, FS_CardinalityType
    <3> QED
      BY <2>4, <2>5, <3>1, <3>2
  <2>7. /\ Cardinality(window.seen) <= Cardinality(Stale \cup recent)
        /\ Cardinality(window.seen) \in Nat
        /\ Cardinality(Stale \cup recent) \in Nat
    BY <2>3, <2>6, FS_Subset, FS_CardinalityType
  <2> QED
    BY <2>6, <2>7 DEF MemoryBound
<1> QED
  BY <1>1, Invariant, PTL

-----------------------------------------------------------------------------
\* The window's answer is the answer of unbounded memory.
LEMMA ReplayedExactly ==
    ASSUME IInv, NEW n \in Nonces
    PROVE  Replayed(window, Size, n) <=> (n \in accepted \/ Unbounded!TooOld(n))
<1> USE NoncesAssumption, SizeAssumption
<1>1. /\ window.highest \in Nat /\ window.seen \subseteq Nat
      /\ accepted \subseteq Nat /\ n \in Nat /\ Size \in Nat
  BY DEF IInv, TypeOK, Windows
<1>2. ASSUME Replayed(window, Size, n), n \notin accepted
      PROVE  Unbounded!TooOld(n)
  <2>1. window.highest # 0 /\ n <= window.highest - Size
    BY <1>2 DEF Replayed, IInv, RemembersWindow
  <2>2. window.highest \in accepted
    BY <2>1 DEF IInv, RemembersWindow
  <2> QED
    BY <2>1, <2>2 DEF Unbounded!TooOld
<1>3. ASSUME NEW m \in accepted, n <= m - Size
      PROVE  Replayed(window, Size, n)
  <2>1. m <= window.highest
    BY DEF IInv, RemembersWindow
  <2> QED
    BY <1>1, <1>3, <2>1 DEF Replayed
<1>4. ASSUME n \in accepted PROVE Replayed(window, Size, n)
  <2>1. n \in window.seen \/ n <= window.highest - Size
    BY <1>1, <1>4 DEF IInv, RemembersWindow
  <2> QED
    BY <1>1, <2>1 DEF Replayed
<1> QED
  BY <1>2, <1>3, <1>4 DEF Unbounded!TooOld

\* NonceFilter implements ReplayFilter, with accepted and answer as they are.
THEOREM WindowIsUnboundedFilter == Spec => ImplementsReplayFilter
<1>1. Init => Unbounded!Init
  BY DEF Init, Unbounded!Init
<1>2. IInv /\ [Next]_vars => [Unbounded!Next]_<<accepted, answer>>
  <2> SUFFICES ASSUME IInv, [Next]_vars
               PROVE  [Unbounded!Next]_<<accepted, answer>>
    OBVIOUS
  <2>1. ASSUME NEW n \in Nonces, Accept(n) PROVE Unbounded!Accept(n)
    BY <2>1, ReplayedExactly DEF Accept, Unbounded!Accept
  <2>2. ASSUME NEW n \in Nonces, Reject(n) PROVE Unbounded!Reject(n)
    BY <2>2, ReplayedExactly DEF Reject, Unbounded!Reject
  <2>3. CASE UNCHANGED vars
    BY <2>3 DEF vars
  <2> QED
    BY <2>1, <2>2, <2>3 DEF Next, Unbounded!Next
<1> QED
  BY <1>1, <1>2, Invariant, PTL DEF Spec, Unbounded!Spec, ImplementsReplayFilter

-----------------------------------------------------------------------------
(* How long the link needs for some datagrams: a sum over a finite set,    *)
(* whatever the order in which Load takes its elements.                    *)

AnyOf(S) == CHOOSE y \in S : TRUE

\* S is a finite set of datagrams with sizes.
Sized(S) == IsFiniteSet(S) /\ \A y \in S : y.size \in Nat

\* Taking one element out of a finite set.
LEMMA OneFewer ==
    ASSUME NEW s, IsFiniteSet(s), NEW k \in Nat, Cardinality(s) = k + 1
    PROVE  s # {} /\ AnyOf(s) \in s /\ Cardinality(s \ {AnyOf(s)}) = k
<1>1. s # {}
  BY FS_EmptySet
<1>2. PICK x : x = AnyOf(s) /\ x \in s
  BY <1>1 DEF AnyOf
<1>3. Cardinality(s \ {x}) = Cardinality(s) - 1
  BY <1>2, FS_RemoveElement
<1> QED
  BY <1>1, <1>2, <1>3

\* g is the load of every part of S.
LoadTable(g, S) ==
    /\ g \in [SUBSET S -> Nat]
    /\ \A s \in SUBSET S :
           g[s] = IF s = {} THEN 0 ELSE AnyOf(s).size + g[s \ {AnyOf(s)}]

\* Load's recursion is well founded.
LEMMA LoadRecursion ==
    ASSUME NEW S, Sized(S)
    PROVE  \E g : LoadTable(g, S) /\ Load(S) = g[S]
<1> DEFINE y == [x \in S |-> [v \in Nat |-> x.size + v]]
           c == [s \in SUBSET S |-> CHOOSE x \in s : TRUE]
           g == CHOOSE f : f = [s \in SUBSET S |->
                            IF s = {} THEN 0
                            ELSE (CHOOSE x \in s : TRUE).size
                                   + f[s \ {CHOOSE x \in s : TRUE}]]
<1>1. ASSUME NEW s \in SUBSET S, s # {}
      PROVE  (CHOOSE x \in s : TRUE) \in s
  BY <1>1
<1>2. IsFiniteSet(S) /\ \A x \in S : x.size \in Nat
  BY DEF Sized
<1>3. Turns(y, S, Nat)
  BY <1>2 DEF Turns
<1>4. Picks(c, S)
  BY <1>1 DEF Picks
<1>5. PICK f : Unfolds(f, S, Nat, 0, c, y)
  <2> HIDE DEF y, c, g
  <2>1. 0 \in Nat
    OBVIOUS
  <2> QED
    BY <1>2, <1>3, <1>4, <2>1, SetRecursion
<1>6. ASSUME NEW s \in SUBSET S
      PROVE  f[s] = IF s = {} THEN 0
                    ELSE (CHOOSE x \in s : TRUE).size
                           + f[s \ {CHOOSE x \in s : TRUE}]
  <2>1. s # {} => (CHOOSE x \in s : TRUE) \in S
                  /\ f[s \ {CHOOSE x \in s : TRUE}] \in Nat
    BY <1>1, <1>5 DEF Unfolds
  <2> QED
    BY <1>5, <2>1 DEF Unfolds
<1>7. f = [s \in SUBSET S |->
             IF s = {} THEN 0
             ELSE (CHOOSE x \in s : TRUE).size
                    + f[s \ {CHOOSE x \in s : TRUE}]]
  BY <1>5, <1>6 DEF Unfolds
<1>8. g = [s \in SUBSET S |->
             IF s = {} THEN 0
             ELSE (CHOOSE x \in s : TRUE).size
                    + g[s \ {CHOOSE x \in s : TRUE}]]
  BY <1>7, Zenon
<1>9. Load(S) = g[S]
  BY Zenon DEF Load, MapThenSumSet, MapThenFoldSet
<1> HIDE DEF g
<1>10. \A s \in SUBSET S :
          g[s] = IF s = {} THEN 0 ELSE AnyOf(s).size + g[s \ {AnyOf(s)}]
  BY <1>8, Zenon DEF AnyOf
<1>11. \A s \in SUBSET S : IsFiniteSet(s) /\ Cardinality(s) \in Nat
  BY <1>2, FS_Subset, FS_CardinalityType
<1> DEFINE P == {k \in Nat : \A s \in SUBSET S : Cardinality(s) = k => g[s] \in Nat}
<1>12. 0 \in P
  <2>1. \A s \in SUBSET S : Cardinality(s) = 0 => g[s] = 0
    BY <1>10, <1>11, FS_EmptySet
  <2> QED
    BY <2>1
<1>13. ASSUME NEW k \in P PROVE k + 1 \in P
  <2> SUFFICES ASSUME NEW s \in SUBSET S, Cardinality(s) = k + 1
               PROVE  g[s] \in Nat
    OBVIOUS
  <2>1. s # {} /\ AnyOf(s) \in s /\ Cardinality(s \ {AnyOf(s)}) = k
    BY <1>11, OneFewer
  <2>2. g[s \ {AnyOf(s)}] \in Nat
    BY <2>1
  <2>3. AnyOf(s).size \in Nat
    BY <1>2, <2>1
  <2>4. g[s] = AnyOf(s).size + g[s \ {AnyOf(s)}]
    BY <1>10, <2>1
  <2> QED
    BY <2>2, <2>3, <2>4
<1>14. P = Nat
  <2> HIDE DEF P
  <2>1. P \subseteq Nat
    BY DEF P
  <2> QED
    BY <1>12, <1>13, <2>1, AllOfNat
<1>15. g \in [SUBSET S -> Nat]
  <2>1. \A s \in SUBSET S : g[s] \in Nat
    BY <1>11, <1>14
  <2>2. g = [s \in SUBSET S |-> g[s]]
    BY <1>8
  <2> QED
    BY <2>1, <2>2
<1> QED
  BY <1>9, <1>10, <1>15 DEF LoadTable

\* Two tables agree where both have entries.
LEMMA TablesAgree ==
    ASSUME NEW S, Sized(S), NEW R \in SUBSET S,
           NEW g, LoadTable(g, S), NEW f, LoadTable(f, R)
    PROVE  f[R] = g[R]
<1> DEFINE P == {k \in Nat : \A s \in SUBSET R : Cardinality(s) = k => f[s] = g[s]}
<1>1. \A s \in SUBSET R : IsFiniteSet(s) /\ Cardinality(s) \in Nat /\ s \in SUBSET S
  BY FS_Subset, FS_CardinalityType DEF Sized
<1>2. 0 \in P
  <2> SUFFICES ASSUME NEW s \in SUBSET R, Cardinality(s) = 0 PROVE f[s] = g[s]
    OBVIOUS
  <2>1. s = {} /\ s \in SUBSET S
    BY <1>1, FS_EmptySet
  <2> QED
    BY <2>1 DEF LoadTable
<1>3. ASSUME NEW k \in P PROVE k + 1 \in P
  <2> SUFFICES ASSUME NEW s \in SUBSET R, Cardinality(s) = k + 1
               PROVE  f[s] = g[s]
    OBVIOUS
  <2>1. s # {} /\ AnyOf(s) \in s /\ Cardinality(s \ {AnyOf(s)}) = k
    BY <1>1, OneFewer
  <2>2. f[s \ {AnyOf(s)}] = g[s \ {AnyOf(s)}]
    BY <2>1
  <2>3. /\ f[s] = AnyOf(s).size + f[s \ {AnyOf(s)}]
        /\ g[s] = AnyOf(s).size + g[s \ {AnyOf(s)}]
    BY <1>1, <2>1 DEF LoadTable
  <2> QED
    BY <2>2, <2>3
<1>4. P = Nat
  <2> HIDE DEF P
  <2>1. P \subseteq Nat
    BY DEF P
  <2> QED
    BY <1>2, <1>3, <2>1, AllOfNat
<1> QED
  BY <1>1, <1>4

\* One datagram more is its size more.
LEMMA LoadOneMore ==
    ASSUME NEW S, Sized(S), NEW y, y \notin S, y.size \in Nat
    PROVE  Load(S \cup {y}) = Load(S) + y.size
<1> DEFINE U == S \cup {y}
<1>1. Sized(U)
  BY FS_AddElement DEF Sized
<1> HIDE DEF U
<1>2. PICK g : LoadTable(g, U) /\ Load(U) = g[U]
  BY <1>1, LoadRecursion
<1>3. Load(S) = g[S]
  <2>1. PICK f : LoadTable(f, S) /\ Load(S) = f[S]
    BY LoadRecursion
  <2>2. S \in SUBSET U
    BY DEF U
  <2> QED
    BY <1>1, <1>2, <2>1, <2>2, TablesAgree
<1> DEFINE P == {k \in Nat : \A s \in SUBSET U : Cardinality(s) = k =>
                    \A x \in U \ s : g[s \cup {x}] = g[s] + x.size}
<1>4. /\ \A s \in SUBSET U : IsFiniteSet(s) /\ Cardinality(s) \in Nat
      /\ \A x \in U : x.size \in Nat
  BY <1>1, FS_Subset, FS_CardinalityType DEF Sized
<1>5. \A s \in SUBSET U : /\ g[s] \in Nat
                          /\ s # {} => g[s] = AnyOf(s).size + g[s \ {AnyOf(s)}]
                          /\ s = {} => g[s] = 0
  BY <1>2 DEF LoadTable
<1>6. 0 \in P
  <2> SUFFICES ASSUME NEW s \in SUBSET U, Cardinality(s) = 0, NEW x \in U \ s
               PROVE  g[s \cup {x}] = g[s] + x.size
    OBVIOUS
  <2>1. s = {} /\ s \cup {x} = {x} /\ {x} \in SUBSET U /\ {x} # {} /\ {} \in SUBSET U
    BY <1>4, FS_EmptySet
  <2>2. AnyOf({x}) = x /\ {x} \ {x} = {}
    BY DEF AnyOf
  <2>3. g[{x}] = x.size + g[{}] /\ g[{}] = 0
    BY <1>5, <2>1, <2>2
  <2> QED
    BY <1>4, <2>1, <2>3
<1>7. ASSUME NEW k \in P PROVE k + 1 \in P
  <2> SUFFICES ASSUME NEW s \in SUBSET U, Cardinality(s) = k + 1, NEW x \in U \ s
               PROVE  g[s \cup {x}] = g[s] + x.size
    OBVIOUS
  <2> DEFINE u == s \cup {x}
  <2>1. u \in SUBSET U /\ u # {} /\ x \in u
    OBVIOUS
  <2>2. PICK e : e = AnyOf(u) /\ e \in u /\ e \in U
    BY <2>1 DEF AnyOf
  <2>3. g[u] = e.size + g[u \ {e}]
    BY <1>5, <2>1, <2>2
  <2>4. CASE e = x
    <3>1. u \ {e} = s
      BY <2>4
    <3>2. g[s] \in Nat /\ x.size \in Nat
      BY <1>4, <1>5
    <3>3. g[u] = x.size + g[s]
      BY <2>3, <2>4, <3>1
    <3> HIDE DEF u
    <3>4. g[u] = g[s] + x.size
      BY <3>2, <3>3
    <3> QED
      BY <3>4 DEF u
  <2>5. CASE e # x
    <3>1. /\ e \in s
          /\ u \ {e} = (s \ {e}) \cup {x}
          /\ s = (s \ {e}) \cup {e}
      <4>1. e \in s /\ x \notin s
        BY <2>2, <2>5
      <4>2. u \ {e} = (s \ {e}) \cup {x}
        BY <2>5, <4>1
      <4>3. s = (s \ {e}) \cup {e}
        BY <4>1
      <4> QED
        BY <4>1, <4>2, <4>3
    <3>2. Cardinality(s \ {e}) = k
      <4>1. Cardinality(s \ {e}) = Cardinality(s) - 1
        BY <1>4, <3>1, FS_RemoveElement
      <4>2. k \in Nat
        OBVIOUS
      <4> QED
        BY <4>1, <4>2
    <3>3. s \ {e} \in SUBSET U /\ x \in U \ (s \ {e}) /\ e \in U \ (s \ {e})
      BY <2>2
    <3>4. g[(s \ {e}) \cup {x}] = g[s \ {e}] + x.size
      BY <3>2, <3>3
    <3>5. g[(s \ {e}) \cup {e}] = g[s \ {e}] + e.size
      BY <3>2, <3>3
    <3>6. g[u] = e.size + (g[s \ {e}] + x.size) /\ g[s] = g[s \ {e}] + e.size
      BY <2>3, <3>1, <3>4, <3>5
    <3>7. g[s \ {e}] \in Nat /\ e.size \in Nat /\ x.size \in Nat
      BY <1>4, <1>5, <2>2, <3>3
    <3> QED
      BY <3>6, <3>7
  <2> QED
    BY <2>4, <2>5
<1>8. P = Nat
  <2> HIDE DEF P
  <2>1. P \subseteq Nat
    BY DEF P
  <2> QED
    BY <1>6, <1>7, <2>1, AllOfNat
<1>9. S \in SUBSET U /\ y \in U \ S
  BY DEF U
<1>10. g[S \cup {y}] = g[S] + y.size
  BY <1>4, <1>8, <1>9
<1> QED
  BY <1>2, <1>3, <1>10 DEF U

\* A load is a number.
LEMMA LoadType ==
    ASSUME NEW S, Sized(S)
    PROVE  Load(S) \in Nat
<1>1. PICK g : LoadTable(g, S) /\ Load(S) = g[S]
  BY LoadRecursion
<1>2. S \in SUBSET S
  OBVIOUS
<1>3. g[S] \in Nat
  BY <1>1, <1>2 DEF LoadTable
<1> QED
  BY <1>1, <1>3

-----------------------------------------------------------------------------
(* The proxies and the link they share.                                    *)

\* The datagrams of direction d that the link still has to pass at time t.
Ahead(d, t) == {y \in timers : y.path[2] = d /\ y.at - Delay > t}

\* The types, and what ProxyTypeOK leaves out.
ProxyTypes ==
    /\ shaped \in BOOLEAN /\ now \in Nat
    /\ ProxyTypeOK
    /\ arrived \in [Paths -> Seq(Nat)]
    /\ IsFiniteSet(timers)

\* Only a shaper makes a datagram wait, and none goes to an unknown client.
NothingAstray ==
    /\ ~ shaped => timers = {}
    /\ \A f \in Flows : arrived[<<f, "c2s">>] # <<>> => f \in clientKnown
    /\ \A y \in timers : y.path[1] \in clientKnown

\* What was sent on or dropped was seen.
SeenFirst ==
    \A p \in Paths : /\ dropped[p] <= seen[p]
                     /\ \A i \in DOMAIN arrived[p] : arrived[p][i] <= seen[p]

\* The datagrams of a path are due in their order.
DueInOrder ==
    \A g, y \in timers :
        g.path = y.path => /\ g.n = y.n => g = y
                           /\ g.n < y.n => g.at < y.at

\* No datagram is due later than the link is free again, and a delay.
DueInTime == \A y \in timers : y.at <= nextFree[y.path[2]] + Delay

\* LinkNeverIdles, at every later time too: it is still so when the clock moves.
StaysBusy ==
    \A d \in Directions : \A t \in now .. nextFree[d] :
        nextFree[d] - t <= Load(Ahead(d, t))

ProxyInv ==
    /\ ProxyTypes /\ NothingAstray /\ SeenFirst /\ DueInOrder /\ DueInTime
    /\ InOrder /\ LinkIsShared /\ StaysBusy /\ Accounted

LEMMA ProxyInit_Inv == ProxyInit => ProxyInv
<1> SUFFICES ASSUME ProxyInit PROVE ProxyInv
  OBVIOUS
<1>1. timers = {} /\ IsFiniteSet(timers) /\ Cardinality({}) = 0
  BY FS_EmptySet DEF ProxyInit
<1>2. ProxyTypes
  <2>1. \A L \in Nat \ {0} : 0 \div L = 0
    OBVIOUS
  <2>2. \A p \in Paths : LossEvery # 0 => dropped[p] = seen[p] \div LossEvery
    BY <2>1, ProxyAssumption DEF ProxyInit
  <2> QED
    BY <1>1, <2>2, ProxyAssumption DEF ProxyInit, ProxyTypes, ProxyTypeOK
<1>3. NothingAstray /\ SeenFirst /\ DueInOrder /\ DueInTime /\ InOrder /\ LinkIsShared
  <2>1. \A p \in Paths : arrived[p] = <<>> /\ DOMAIN arrived[p] = {}
    BY DEF ProxyInit
  <2>2. NothingAstray
    <3>1. \A f \in Flows : <<f, "c2s">> \in Paths
      BY DEF Paths, Directions
    <3> QED
      BY <1>1, <2>1, <3>1 DEF NothingAstray
  <2>3. SeenFirst /\ InOrder
    BY <1>1, <2>1 DEF ProxyInit, SeenFirst, InOrder, Waiting
  <2>4. DueInOrder /\ DueInTime /\ LinkIsShared
    BY <1>1 DEF DueInOrder, DueInTime, LinkIsShared
  <2> QED
    BY <2>2, <2>3, <2>4
<1>4. StaysBusy
  <2> SUFFICES ASSUME NEW d \in Directions, NEW t \in now .. nextFree[d]
               PROVE  nextFree[d] - t <= Load(Ahead(d, t))
    BY DEF StaysBusy
  <2>1. Sized(Ahead(d, t))
    BY <1>1 DEF Sized, Ahead
  <2>2. Load(Ahead(d, t)) \in Nat
    BY <2>1, LoadType
  <2>3. now = 0 /\ nextFree[d] = 0
    BY DEF ProxyInit
  <2> QED
    BY <2>2, <2>3
<1>5. Accounted
  BY <1>1 DEF ProxyInit, Accounted, Waiting
<1> QED
  BY <1>2, <1>3, <1>4, <1>5 DEF ProxyInv

\* One datagram more is one loss more when it is the last of LossEvery.
LEMMA OneLossMore ==
    ASSUME NEW k \in Nat, NEW L \in Nat \ {0}
    PROVE  (k + 1) \div L = IF (k + 1) % L = 0 THEN (k \div L) + 1 ELSE k \div L
OBVIOUS

\* The load ahead is that of finitely many datagrams with sizes.
LEMMA AheadSized ==
    ASSUME ProxyTypes, NEW d, NEW t
    PROVE  Sized(Ahead(d, t)) /\ Load(Ahead(d, t)) \in Nat
<1>1. Ahead(d, t) \subseteq timers /\ IsFiniteSet(timers)
  BY DEF Ahead, ProxyTypes
<1>2. IsFiniteSet(Ahead(d, t))
  BY <1>1, FS_Subset
<1>3. \A y \in timers : y.size \in Nat
  BY ProxyAssumption DEF ProxyTypes, ProxyTypeOK
<1>4. Sized(Ahead(d, t))
  BY <1>1, <1>2, <1>3 DEF Sized
<1> QED
  BY <1>4, LoadType

\* What every datagram a proxy receives changes, whether it is sent on or not.
LEMMA ReceivedIsCounted ==
    ASSUME ProxyInv, NEW p \in Paths, NEW size \in Sizes, DatagramReceived(p, size)
    PROVE  /\ seen' = [seen EXCEPT ![p] = seen[p] + 1]
           /\ seen[p] + 1 \in 1 .. MaxDatagrams
           /\ seen' \in [Paths -> 0 .. MaxDatagrams]
           /\ \A q \in Paths : seen[q] <= seen'[q]
           /\ clientKnown \subseteq clientKnown' /\ clientKnown' \subseteq Flows
           /\ p[2] = "c2s" => p[1] \in clientKnown'
           /\ UNCHANGED <<shaped, now, closed>>
<1>1. seen \in [Paths -> 0 .. MaxDatagrams] /\ clientKnown \subseteq Flows
  BY DEF ProxyInv, ProxyTypes, ProxyTypeOK
<1>2. seen' = [seen EXCEPT ![p] = seen[p] + 1] /\ seen[p] < MaxDatagrams
  BY DEF DatagramReceived
<1>3. seen[p] + 1 \in 1 .. MaxDatagrams
  BY <1>1, <1>2, ProxyAssumption
<1>4. seen' \in [Paths -> 0 .. MaxDatagrams] /\ \A q \in Paths : seen[q] <= seen'[q]
  BY <1>1, <1>2, <1>3, ProxyAssumption
<1>5. p[1] \in Flows
  BY DEF Paths
<1>6. clientKnown' = IF KnowsClient(p) THEN clientKnown \cup {p[1]} ELSE clientKnown
  BY DEF DatagramReceived
<1>7. /\ clientKnown \subseteq clientKnown' /\ clientKnown' \subseteq Flows
      /\ p[2] = "c2s" => p[1] \in clientKnown'
  BY <1>1, <1>5, <1>6 DEF KnowsClient
<1> QED
  BY <1>2, <1>3, <1>4, <1>7 DEF DatagramReceived

\* The losses and the datagrams seen, after one more: how many were dropped is
\* known before it is decided what becomes of this one.
LEMMA LossesAreCounted ==
    ASSUME ProxyInv, NEW p \in Paths, NEW size \in Sizes, DatagramReceived(p, size),
           dropped' = IF IsLost(p) THEN [dropped EXCEPT ![p] = @ + 1] ELSE dropped
    PROVE  /\ dropped' \in [Paths -> 0 .. MaxDatagrams]
           /\ \A q \in Paths : LossEvery # 0 => dropped'[q] = seen'[q] \div LossEvery
           /\ \A q \in Paths : dropped'[q] <= seen'[q]
<1>1. /\ seen \in [Paths -> 0 .. MaxDatagrams] /\ dropped \in [Paths -> 0 .. MaxDatagrams]
      /\ \A q \in Paths : LossEvery # 0 => dropped[q] = seen[q] \div LossEvery
      /\ \A q \in Paths : dropped[q] <= seen[q]
  BY DEF ProxyInv, ProxyTypes, ProxyTypeOK, SeenFirst
<1>2. /\ seen' = [seen EXCEPT ![p] = seen[p] + 1]
      /\ seen[p] + 1 \in 1 .. MaxDatagrams
  BY ReceivedIsCounted
<1>3. \A q \in Paths : dropped'[q] = IF IsLost(p) /\ q = p THEN dropped[q] + 1 ELSE dropped[q]
  BY <1>1
<1>4. \A q \in Paths : seen'[q] = IF q = p THEN seen[q] + 1 ELSE seen[q]
  BY <1>1, <1>2
<1>5. \A q \in Paths : dropped'[q] <= seen'[q] /\ dropped'[q] \in 0 .. MaxDatagrams
  BY <1>1, <1>2, <1>3, <1>4, ProxyAssumption
<1>6. dropped' \in [Paths -> 0 .. MaxDatagrams]
  BY <1>1, <1>5
<1>7. ASSUME LossEvery # 0, NEW q \in Paths
      PROVE  dropped'[q] = seen'[q] \div LossEvery
  <2>1. CASE q # p
    BY <1>1, <1>3, <1>4, <1>7, <2>1
  <2>2. CASE q = p
    <3>1. seen[p] \in Nat /\ LossEvery \in Nat \ {0}
      BY <1>1, <1>7, ProxyAssumption
    <3>2. (seen[p] + 1) \div LossEvery =
            IF (seen[p] + 1) % LossEvery = 0
            THEN (seen[p] \div LossEvery) + 1 ELSE seen[p] \div LossEvery
      BY <3>1, OneLossMore
    <3>3. IsLost(p) <=> (seen[p] + 1) % LossEvery = 0
      BY <1>7 DEF IsLost
    <3> QED
      BY <1>1, <1>3, <1>4, <1>7, <2>2, <3>2, <3>3
  <2> QED
    BY <2>1, <2>2
<1> QED
  BY <1>5, <1>6, <1>7

\* The account of a path, as one of its datagrams is dropped, sent on or queued.
LEMMA AccountMoves ==
    ASSUME NEW s \in Nat, NEW d \in Nat, NEW a \in Nat, NEW w \in Nat, s = d + a + w
    PROVE  /\ s + 1 = (d + 1) + a + w
           /\ s + 1 = d + (a + 1) + w
           /\ s + 1 = d + a + (w + 1)
           /\ s = d + (a + 1) + (w - 1)
OBVIOUS

\* A datagram is dropped.
LEMMA DropKeeps ==
    ASSUME ProxyInv, NEW p \in Paths, NEW size \in Sizes, DatagramReceived(p, size),
           IsLost(p), Drop(p, size)
    PROVE  ProxyInv'
<1>1. /\ dropped' = [dropped EXCEPT ![p] = @ + 1]
      /\ UNCHANGED <<nextFree, timers, arrived, shaped, now, closed>>
  BY ReceivedIsCounted DEF Drop
<1>2. /\ dropped' \in [Paths -> 0 .. MaxDatagrams]
      /\ \A q \in Paths : LossEvery # 0 => dropped'[q] = seen'[q] \div LossEvery
      /\ \A q \in Paths : dropped'[q] <= seen'[q]
  BY <1>1, LossesAreCounted
<1>3. /\ seen' = [seen EXCEPT ![p] = seen[p] + 1]
      /\ seen' \in [Paths -> 0 .. MaxDatagrams]
      /\ \A q \in Paths : seen[q] <= seen'[q]
      /\ clientKnown \subseteq clientKnown' /\ clientKnown' \subseteq Flows
  BY ReceivedIsCounted
<1>4. /\ seen \in [Paths -> 0 .. MaxDatagrams] /\ dropped \in [Paths -> 0 .. MaxDatagrams]
      /\ \A y \in timers : y.path \in Paths /\ y.n \in 1 .. seen[y.path]
  BY DEF ProxyInv, ProxyTypes, ProxyTypeOK
<1>5. ProxyTypes'
  <2>1. \A y \in timers : y.n \in 1 .. seen'[y.path]
    BY <1>3, <1>4, ProxyAssumption
  <2> QED
    BY <1>1, <1>2, <1>3, <2>1 DEF ProxyInv, ProxyTypes, ProxyTypeOK
<1>6. NothingAstray'
  BY <1>1, <1>3 DEF ProxyInv, NothingAstray
<1>7. SeenFirst'
  <2> SUFFICES ASSUME NEW q \in Paths, NEW i \in DOMAIN arrived[q]
               PROVE  arrived[q][i] <= seen'[q]
    BY <1>1, <1>2 DEF SeenFirst
  <2>1. arrived[q][i] \in Nat /\ arrived[q][i] <= seen[q] /\ seen[q] <= seen'[q]
    BY <1>3 DEF ProxyInv, ProxyTypes, SeenFirst
  <2> QED
    BY <1>3, <1>4, <2>1, ProxyAssumption
<1>8. DueInOrder' /\ DueInTime' /\ InOrder' /\ LinkIsShared'
  BY <1>1 DEF ProxyInv, DueInOrder, DueInTime, InOrder, LinkIsShared, Waiting
<1>9. StaysBusy'
  BY <1>1 DEF ProxyInv, StaysBusy, Ahead
<1>10. Accounted'
  <2> SUFFICES ASSUME NEW q \in Paths, q[1] \notin closed
               PROVE  seen'[q] = dropped'[q] + Len(arrived[q]) + Cardinality(Waiting(q))
    BY <1>1 DEF Accounted, Waiting
  <2>1. seen[q] = dropped[q] + Len(arrived[q]) + Cardinality(Waiting(q))
    BY DEF ProxyInv, Accounted
  <2>2. /\ Len(arrived[q]) \in Nat
        /\ Cardinality(Waiting(q)) \in Nat
    <3>1. IsFiniteSet(timers) /\ Waiting(q) \subseteq timers
      BY DEF ProxyInv, ProxyTypes, Waiting
    <3>2. arrived[q] \in Seq(Nat)
      BY DEF ProxyInv, ProxyTypes
    <3> QED
      BY <3>1, <3>2, FS_Subset, FS_CardinalityType
  <2>3. CASE q # p
    <3>1. seen'[q] = seen[q] /\ dropped'[q] = dropped[q]
      BY <1>1, <1>3, <1>4, <2>3
    <3> QED
      BY <2>1, <3>1
  <2>4. CASE q = p
    <3>1. /\ seen'[q] = seen[q] + 1 /\ dropped'[q] = dropped[q] + 1
          /\ seen[q] \in Nat /\ dropped[q] \in Nat
      BY <1>1, <1>3, <1>4, <2>4
    <3> DEFINE s == seen[q]  d == dropped[q]
               a == Len(arrived[q])  w == Cardinality(Waiting(q))
    <3>2. s \in Nat /\ d \in Nat /\ a \in Nat /\ w \in Nat /\ s = d + a + w
      BY <2>1, <2>2, <3>1
    <3>3. seen'[q] = s + 1 /\ dropped'[q] = d + 1
      BY <3>1
    <3> HIDE DEF s, d, a, w
    <3>4. s + 1 = (d + 1) + a + w
      BY <3>2, AccountMoves
    <3>5. seen'[q] = dropped'[q] + a + w
      BY <3>3, <3>4
    <3> QED
      BY <3>5 DEF a, w
  <2> QED
    BY <2>3, <2>4
<1> QED
  BY <1>5, <1>6, <1>7, <1>8, <1>9, <1>10 DEF ProxyInv

\* A datagram is sent on at once, where there is no shaper.
LEMMA SendOnKeeps ==
    ASSUME ProxyInv, NEW p \in Paths, NEW size \in Sizes, DatagramReceived(p, size),
           ~ IsLost(p), p[1] \in clientKnown', ~ shaped,
           Forward(p, seen[p] + 1, size), UNCHANGED dropped
    PROVE  ProxyInv'
<1>1. /\ arrived' = [arrived EXCEPT ![p] = Append(@, seen[p] + 1)]
      /\ UNCHANGED <<nextFree, timers, shaped, now, closed>>
  BY ReceivedIsCounted DEF Forward
<1>2. /\ dropped' \in [Paths -> 0 .. MaxDatagrams]
      /\ \A q \in Paths : LossEvery # 0 => dropped'[q] = seen'[q] \div LossEvery
      /\ \A q \in Paths : dropped'[q] <= seen'[q]
  BY LossesAreCounted
<1>3. /\ seen' = [seen EXCEPT ![p] = seen[p] + 1]
      /\ seen' \in [Paths -> 0 .. MaxDatagrams]
      /\ \A q \in Paths : seen[q] <= seen'[q]
      /\ clientKnown \subseteq clientKnown' /\ clientKnown' \subseteq Flows
  BY ReceivedIsCounted
<1>4. /\ seen \in [Paths -> 0 .. MaxDatagrams] /\ dropped \in [Paths -> 0 .. MaxDatagrams]
      /\ arrived \in [Paths -> Seq(Nat)]
      /\ timers = {}
  BY DEF ProxyInv, ProxyTypes, ProxyTypeOK, NothingAstray
<1>5. \A q \in Paths : seen[q] \in Nat /\ seen'[q] \in Nat /\ dropped[q] \in Nat
  BY <1>3, <1>4
<1>6. /\ arrived'[p] = Append(arrived[p], seen[p] + 1)
      /\ \A q \in Paths : q # p => arrived'[q] = arrived[q]
      /\ arrived' \in [Paths -> Seq(Nat)]
  <2>1. Append(arrived[p], seen[p] + 1) \in Seq(Nat)
    BY <1>4, <1>5
  <2> QED
    BY <1>1, <1>4, <2>1
<1>7. /\ DOMAIN arrived'[p] = 1 .. Len(arrived[p]) + 1
      /\ DOMAIN arrived[p] = 1 .. Len(arrived[p])
      /\ Len(arrived'[p]) = Len(arrived[p]) + 1
      /\ arrived'[p][Len(arrived[p]) + 1] = seen[p] + 1
      /\ \A i \in DOMAIN arrived[p] : arrived'[p][i] = arrived[p][i]
      /\ Len(arrived[p]) \in Nat
  BY <1>4, <1>5, <1>6
<1>8. \A q \in Paths : \A i \in DOMAIN arrived[q] :
          arrived[q][i] \in Nat /\ arrived[q][i] <= seen[q]
  BY <1>4 DEF ProxyInv, SeenFirst
<1>9. ProxyTypes'
  BY <1>1, <1>2, <1>3, <1>4, <1>6 DEF ProxyInv, ProxyTypes, ProxyTypeOK
<1>10. NothingAstray'
  <2> SUFFICES ASSUME NEW f \in Flows, arrived'[<<f, "c2s">>] # <<>>
               PROVE  f \in clientKnown'
    BY <1>1, <1>4 DEF NothingAstray
  <2>1. <<f, "c2s">> \in Paths
    BY DEF Paths, Directions
  <2>2. CASE p = <<f, "c2s">>
    BY <2>2
  <2>3. CASE p # <<f, "c2s">>
    BY <1>3, <1>6, <2>1, <2>3 DEF ProxyInv, NothingAstray
  <2> QED
    BY <2>2, <2>3
<1>11. SeenFirst'
  <2> SUFFICES ASSUME NEW q \in Paths, NEW i \in DOMAIN arrived'[q]
               PROVE  arrived'[q][i] <= seen'[q]
    BY <1>2 DEF SeenFirst
  <2>1. CASE q # p
    <3>1. arrived'[q] = arrived[q] /\ seen'[q] = seen[q]
      BY <1>3, <1>4, <1>6, <2>1
    <3> QED
      BY <1>8, <3>1
  <2>2. CASE q = p /\ i \in DOMAIN arrived[p]
    <3>1. seen'[p] = seen[p] + 1
      BY <1>3, <1>4
    <3> QED
      BY <1>5, <1>7, <1>8, <2>2, <3>1
  <2>3. CASE q = p /\ i = Len(arrived[p]) + 1
    BY <1>3, <1>4, <1>5, <1>7, <2>3
  <2> QED
    BY <1>7, <2>1, <2>2, <2>3
<1>12. DueInOrder' /\ DueInTime' /\ LinkIsShared'
  BY <1>1, <1>4 DEF DueInOrder, DueInTime, LinkIsShared
<1>13. InOrder'
  <2> SUFFICES ASSUME NEW q \in Paths, NEW i \in DOMAIN arrived'[q],
                      NEW j \in DOMAIN arrived'[q], i < j
               PROVE  arrived'[q][i] < arrived'[q][j]
    BY <1>1, <1>4 DEF InOrder, Waiting
  <2>1. CASE q # p
    BY <1>6, <2>1 DEF ProxyInv, InOrder
  <2>2. CASE q = p /\ j \in DOMAIN arrived[p]
    <3>1. i \in DOMAIN arrived[p]
      BY <1>7, <2>2
    <3>2. arrived[p][i] < arrived[p][j]
      BY <2>2, <3>1 DEF ProxyInv, InOrder
    <3> QED
      BY <1>7, <2>2, <3>1, <3>2
  <2>3. CASE q = p /\ j = Len(arrived[p]) + 1
    <3>1. i \in DOMAIN arrived[p]
      BY <1>7, <2>3
    <3> QED
      BY <1>5, <1>7, <1>8, <2>3, <3>1
  <2> QED
    BY <1>7, <2>1, <2>2, <2>3
<1>14. StaysBusy'
  BY <1>1 DEF ProxyInv, StaysBusy, Ahead
<1>15. Accounted'
  <2> SUFFICES ASSUME NEW q \in Paths, q[1] \notin closed
               PROVE  seen'[q] = dropped[q] + Len(arrived'[q]) + Cardinality(Waiting(q))
    BY <1>1 DEF Accounted, Waiting
  <2>1. seen[q] = dropped[q] + Len(arrived[q]) + Cardinality(Waiting(q))
    BY DEF ProxyInv, Accounted
  <2>2. Waiting(q) = {} /\ Cardinality(Waiting(q)) = 0
    BY <1>4, FS_EmptySet DEF Waiting
  <2>3. CASE q # p
    <3>1. seen'[q] = seen[q] /\ arrived'[q] = arrived[q]
      BY <1>3, <1>4, <1>6, <2>3
    <3> QED
      BY <2>1, <3>1
  <2>4. CASE q = p
    <3>1. /\ seen'[q] = seen[q] + 1
          /\ Len(arrived'[q]) = Len(arrived[q]) + 1 /\ Len(arrived[q]) \in Nat
      BY <1>3, <1>4, <1>7, <2>4
    <3>2. seen[q] \in Nat /\ dropped[q] \in Nat /\ Cardinality(Waiting(q)) \in Nat
      BY <1>5, <2>2
    <3>3. seen[q] + 1 = dropped[q] + (Len(arrived[q]) + 1) + Cardinality(Waiting(q))
      BY <2>1, <3>1, <3>2, AccountMoves
    <3> QED
      BY <3>1, <3>3
  <2> QED
    BY <2>3, <2>4
<1> QED
  BY <1>9, <1>10, <1>11, <1>12, <1>13, <1>14, <1>15 DEF ProxyInv

\* A datagram takes its turn at the link, and waits.
LEMMA TurnKeeps ==
    ASSUME ProxyInv, NEW p \in Paths, NEW size \in Sizes, DatagramReceived(p, size),
           ~ IsLost(p), p[1] \in clientKnown', shaped,
           Forward(p, seen[p] + 1, size), UNCHANGED dropped
    PROVE  ProxyInv'
<1> DEFINE begin == StartOf(p[2])
           x == [path |-> p, n |-> seen[p] + 1, size |-> size,
                 at |-> begin + size + Delay]
<1>1. /\ nextFree' = [nextFree EXCEPT ![p[2]] = begin + size]
      /\ timers' = timers \cup {x}
      /\ UNCHANGED <<arrived, shaped, now, closed>>
  BY ReceivedIsCounted DEF Forward, Bucket, FreeAfter, Queue
<1>2. /\ dropped' \in [Paths -> 0 .. MaxDatagrams]
      /\ \A q \in Paths : LossEvery # 0 => dropped'[q] = seen'[q] \div LossEvery
      /\ \A q \in Paths : dropped'[q] <= seen'[q]
  BY LossesAreCounted
<1>3. /\ seen' = [seen EXCEPT ![p] = seen[p] + 1]
      /\ seen' \in [Paths -> 0 .. MaxDatagrams]
      /\ \A q \in Paths : seen[q] <= seen'[q]
      /\ clientKnown \subseteq clientKnown' /\ clientKnown' \subseteq Flows
  BY ReceivedIsCounted
<1>4. /\ seen \in [Paths -> 0 .. MaxDatagrams] /\ dropped \in [Paths -> 0 .. MaxDatagrams]
      /\ nextFree \in [Directions -> Nat] /\ now \in Nat
      /\ arrived \in [Paths -> Seq(Nat)]
      /\ IsFiniteSet(timers)
      /\ \A y \in timers : /\ y.path \in Paths /\ y.n \in 1 .. seen[y.path]
                           /\ y.size \in Sizes /\ y.at \in Nat
  BY DEF ProxyInv, ProxyTypes, ProxyTypeOK
<1>5. /\ p[2] \in Directions /\ p[1] \in Flows
      /\ \A y \in timers : y.path[2] \in Directions
  BY <1>4 DEF Paths
<1>6. /\ size \in Nat \ {0} /\ Delay \in Nat
      /\ \A y \in timers : y.size \in Nat
      /\ \A q \in Paths : seen[q] \in Nat /\ seen'[q] \in Nat /\ dropped[q] \in Nat
  BY <1>3, <1>4, ProxyAssumption
<1>7. /\ begin \in Nat /\ begin >= now /\ begin >= nextFree[p[2]]
      /\ begin = now \/ begin = nextFree[p[2]]
  BY <1>4, <1>5 DEF StartOf, Bucket
<1>8. /\ x.path = p /\ x.n = seen[p] + 1 /\ x.size = size /\ x.at = begin + size + Delay
      /\ \A y \in timers : y.path = p => y.n < x.n
      /\ x \notin timers
  BY <1>4, <1>6
<1> HIDE DEF x, begin
<1>9. /\ nextFree'[p[2]] = begin + size
      /\ \A d \in Directions : d # p[2] => nextFree'[d] = nextFree[d]
      /\ nextFree' \in [Directions -> Nat]
  BY <1>1, <1>4, <1>5, <1>6, <1>7
<1>10. \A y \in timers : /\ y.at <= nextFree[y.path[2]] + Delay
                         /\ y.path[2] = p[2] => y.at + size <= x.at
  <2>1. \A y \in timers : y.at <= nextFree[y.path[2]] + Delay
    BY DEF ProxyInv, DueInTime
  <2>2. ASSUME NEW y \in timers, y.path[2] = p[2] PROVE y.at + size <= x.at
    <3>1. y.at <= nextFree[p[2]] + Delay /\ y.at \in Nat /\ nextFree[p[2]] \in Nat
      BY <1>4, <1>5, <2>1, <2>2
    <3> QED
      BY <1>6, <1>7, <1>8, <3>1
  <2> QED
    BY <2>1, <2>2
<1>11. ProxyTypes'
  <2>1. IsFiniteSet(timers')
    BY <1>1, <1>4, FS_AddElement
  <2>2. x.path \in Paths /\ x.n \in 1 .. seen'[x.path] /\ x.size \in Sizes /\ x.at \in Nat
    <3>1. x.path \in Paths /\ x.size \in Sizes
      BY <1>4, <1>6, <1>7, <1>8
    <3>2. x.at \in Nat
      BY <1>4, <1>6, <1>7, <1>8
    <3>3. x.n \in 1 .. seen'[x.path]
      <4>1. seen'[p] = seen[p] + 1 /\ seen[p] \in Nat
        BY <1>3, <1>4
      <4>2. x.path = p /\ x.n = seen[p] + 1
        BY <1>8
      <4> QED
        BY <4>1, <4>2
    <3> QED
      BY <3>1, <3>2, <3>3
  <2>3. \A y \in timers : y.n \in 1 .. seen'[y.path]
    BY <1>3, <1>4, <1>6
  <2>4. \A y \in timers' : /\ y.path \in Paths /\ y.n \in 1 .. seen'[y.path]
                           /\ y.size \in Sizes /\ y.at \in Nat
    BY <1>1, <1>4, <2>2, <2>3
  <2> QED
    BY <1>1, <1>2, <1>3, <1>9, <2>1, <2>4 DEF ProxyInv, ProxyTypes, ProxyTypeOK
<1>12. NothingAstray'
  BY <1>1, <1>3, <1>8 DEF ProxyInv, NothingAstray
<1>13. SeenFirst'
  <2> SUFFICES ASSUME NEW q \in Paths, NEW i \in DOMAIN arrived[q]
               PROVE  arrived[q][i] <= seen'[q]
    BY <1>1, <1>2 DEF SeenFirst
  <2>1. arrived[q][i] \in Nat /\ arrived[q][i] <= seen[q] /\ seen[q] <= seen'[q]
    BY <1>3, <1>4 DEF ProxyInv, SeenFirst
  <2> QED
    BY <1>6, <2>1
<1>14. DueInOrder'
  <2> SUFFICES ASSUME NEW g \in timers', NEW y \in timers', g.path = y.path
               PROVE  /\ g.n = y.n => g = y
                      /\ g.n < y.n => g.at < y.at
    BY DEF DueInOrder
  <2>1. CASE g \in timers /\ y \in timers
    BY <2>1 DEF ProxyInv, DueInOrder
  <2>2. CASE g = x /\ y = x
    BY <1>6, <1>8, <2>2
  <2>3. CASE g = x /\ y \in timers
    <3>1. y.n < g.n /\ y.n \in Nat /\ g.n \in Nat
      BY <1>4, <1>6, <1>8, <2>3
    <3> QED
      BY <3>1
  <2>4. CASE g \in timers /\ y = x
    <3>1. g.n < y.n /\ y.n \in Nat /\ g.n \in Nat
      BY <1>4, <1>6, <1>8, <2>4
    <3>2. g.at + size <= y.at
      BY <1>8, <1>10, <2>4
    <3>3. g.at \in Nat /\ y.at \in Nat
      <4>1. begin + size + Delay \in Nat
        BY <1>6, <1>7
      <4> QED
        BY <1>4, <1>8, <2>4, <4>1
    <3> QED
      BY <1>6, <3>1, <3>2, <3>3
  <2> QED
    BY <1>1, <2>1, <2>2, <2>3, <2>4
<1>15. DueInTime'
  <2> SUFFICES ASSUME NEW y \in timers'
               PROVE  y.at <= nextFree'[y.path[2]] + Delay
    BY DEF DueInTime
  <2>1. CASE y = x
    BY <1>6, <1>7, <1>8, <1>9, <2>1
  <2>2. CASE y \in timers /\ y.path[2] = p[2]
    <3>1. y.at <= nextFree[p[2]] + Delay /\ y.at \in Nat /\ nextFree[p[2]] \in Nat
      BY <1>4, <1>5, <1>10, <2>2
    <3> QED
      BY <1>6, <1>7, <1>9, <2>2, <3>1
  <2>3. CASE y \in timers /\ y.path[2] # p[2]
    BY <1>5, <1>9, <1>10, <2>3
  <2> QED
    BY <1>1, <2>1, <2>2, <2>3
<1>16. InOrder'
  <2> SUFFICES ASSUME NEW q \in Paths
               PROVE  /\ \A i, j \in DOMAIN arrived[q] :
                             i < j => arrived[q][i] < arrived[q][j]
                      /\ \A i \in DOMAIN arrived[q], y \in timers' :
                             y.path = q => arrived[q][i] < y.n
    BY <1>1 DEF InOrder, Waiting
  <2>1. \A i, j \in DOMAIN arrived[q] : i < j => arrived[q][i] < arrived[q][j]
    BY DEF ProxyInv, InOrder
  <2>2. ASSUME NEW i \in DOMAIN arrived[q], NEW y \in timers', y.path = q
        PROVE  arrived[q][i] < y.n
    <3>1. CASE y \in timers
      BY <2>2, <3>1 DEF ProxyInv, InOrder, Waiting
    <3>2. CASE y = x
      <4>1. arrived[p][i] \in Nat /\ arrived[p][i] <= seen[p]
        BY <1>4, <1>8, <2>2, <3>2 DEF ProxyInv, SeenFirst
      <4> QED
        BY <1>6, <1>8, <2>2, <3>2, <4>1
    <3> QED
      BY <1>1, <3>1, <3>2
  <2> QED
    BY <2>1, <2>2
<1>17. LinkIsShared'
  <2> SUFFICES ASSUME NEW g \in timers', NEW y \in timers', g # y, g.path[2] = y.path[2]
               PROVE  g.at + y.size <= y.at \/ y.at + g.size <= g.at
    BY DEF LinkIsShared
  <2>1. CASE g \in timers /\ y \in timers
    BY <2>1 DEF ProxyInv, LinkIsShared
  <2>2. CASE g = x /\ y \in timers
    BY <1>8, <1>10, <2>2
  <2>3. CASE g \in timers /\ y = x
    BY <1>8, <1>10, <2>3
  <2> QED
    BY <1>1, <2>1, <2>2, <2>3
<1>18. StaysBusy'
  <2> SUFFICES ASSUME NEW d \in Directions, NEW t \in now .. nextFree'[d]
               PROVE  nextFree'[d] - t <= Load(Ahead(d, t)')
    BY <1>1 DEF StaysBusy
  <2>1. t \in Nat /\ t >= now
    BY <1>4, <1>9
  <2>2. Sized(Ahead(d, t)) /\ Load(Ahead(d, t)) \in Nat
    BY AheadSized DEF ProxyInv
  <2>3. t \in now .. nextFree[d] => nextFree[d] - t <= Load(Ahead(d, t))
    BY DEF ProxyInv, StaysBusy
  <2>4. CASE d # p[2]
    <3>1. Ahead(d, t)' = Ahead(d, t)
      BY <1>1, <1>8, <2>4 DEF Ahead
    <3>2. nextFree'[d] = nextFree[d]
      BY <1>9, <2>4
    <3> QED
      BY <2>3, <3>1, <3>2
  <2>5. CASE d = p[2] /\ t < begin + size
    <3>1. Ahead(d, t)' = Ahead(d, t) \cup {x}
      BY <1>1, <1>6, <1>7, <1>8, <2>1, <2>5 DEF Ahead
    <3>2. x \notin Ahead(d, t)
      BY <1>8 DEF Ahead
    <3>3. Load(Ahead(d, t) \cup {x}) = Load(Ahead(d, t)) + size
      BY <1>6, <1>8, <2>2, <3>2, LoadOneMore
    <3>4. begin - t <= Load(Ahead(d, t))
      BY <1>4, <1>7, <2>1, <2>2, <2>3, <2>5
    <3>5. nextFree'[d] = begin + size
      BY <1>9, <2>5
    <3> QED
      BY <1>6, <1>7, <2>1, <2>2, <3>1, <3>3, <3>4, <3>5
  <2>6. CASE d = p[2] /\ ~ t < begin + size
    <3>1. Ahead(d, t)' = Ahead(d, t)
      BY <1>1, <1>6, <1>7, <1>8, <2>1, <2>6 DEF Ahead
    <3>2. nextFree'[d] = begin + size
      BY <1>9, <2>6
    <3> QED
      BY <1>6, <1>7, <2>1, <2>2, <2>6, <3>1, <3>2
  <2> QED
    BY <2>4, <2>5, <2>6
<1>19. Accounted'
  <2> SUFFICES ASSUME NEW q \in Paths, q[1] \notin closed
               PROVE  seen'[q] = dropped[q] + Len(arrived[q]) + Cardinality(Waiting(q)')
    BY <1>1 DEF Accounted
  <2>1. seen[q] = dropped[q] + Len(arrived[q]) + Cardinality(Waiting(q))
    BY DEF ProxyInv, Accounted
  <2>2. IsFiniteSet(Waiting(q)) /\ Cardinality(Waiting(q)) \in Nat
    <3>1. Waiting(q) \subseteq timers
      BY DEF Waiting
    <3> QED
      BY <1>4, <3>1, FS_Subset, FS_CardinalityType
  <2>3. Len(arrived[q]) \in Nat
    BY <1>4
  <2>4. CASE q # p
    <3>1. Waiting(q)' = Waiting(q)
      BY <1>1, <1>8, <2>4 DEF Waiting
    <3>2. seen'[q] = seen[q]
      BY <1>3, <1>4, <2>4
    <3>3. Cardinality(Waiting(q)') = Cardinality(Waiting(q))
      BY <3>1
    <3> QED
      BY <2>1, <3>2, <3>3
  <2>5. CASE q = p
    <3>1. Waiting(q)' = Waiting(q) \cup {x} /\ x \notin Waiting(q)
      BY <1>1, <1>8, <2>5 DEF Waiting
    <3>2. Cardinality(Waiting(q)') = Cardinality(Waiting(q)) + 1
      BY <2>2, <3>1, FS_AddElement
    <3>3. seen'[q] = seen[q] + 1 /\ seen[q] \in Nat /\ dropped[q] \in Nat
      BY <1>3, <1>4, <1>6, <2>5
    <3>4. seen[q] + 1 = dropped[q] + Len(arrived[q]) + (Cardinality(Waiting(q)) + 1)
      BY <2>1, <2>2, <2>3, <3>3, AccountMoves
    <3> QED
      BY <3>2, <3>3, <3>4
  <2> QED
    BY <2>4, <2>5
<1> QED
  BY <1>11, <1>12, <1>13, <1>14, <1>15, <1>16, <1>17, <1>18, <1>19 DEF ProxyInv

\* Every datagram received is one of these: nobody sends to a client before its
\* proxy knows it.
LEMMA ReceiveKeeps ==
    ASSUME ProxyInv, NEW p \in Paths, NEW size \in Sizes, DatagramReceived(p, size),
           p[2] = "c2s" \/ ServerSpeaks(p[1])
    PROVE  ProxyInv'
<1>1. p[1] \in clientKnown'
  <2>1. p[1] \in Flows
    BY DEF Paths
  <2>2. ServerSpeaks(p[1]) => p[1] \in clientKnown
    BY <2>1 DEF ServerSpeaks, ProxyInv, NothingAstray
  <2> QED
    BY <2>2, ReceivedIsCounted
<1>2. CASE IsLost(p)
  <2>1. Drop(p, size)
    BY <1>2 DEF DatagramReceived
  <2> QED
    BY <1>2, <2>1, DropKeeps
<1>3. CASE ~ IsLost(p)
  <2>1. Forward(p, seen[p] + 1, size) /\ UNCHANGED dropped
    BY <1>1, <1>3 DEF DatagramReceived
  <2>2. CASE shaped
    BY <1>1, <1>3, <2>1, <2>2, TurnKeeps
  <2>3. CASE ~ shaped
    BY <1>1, <1>3, <2>1, <2>3, SendOnKeeps
  <2> QED
    BY <2>2, <2>3
<1> QED
  BY <1>2, <1>3

\* A timer fires: the oldest datagram of its path is sent on.
LEMMA FireKeeps ==
    ASSUME ProxyInv, Fire
    PROVE  ProxyInv'
<1>1. PICK y \in timers :
         /\ y.at <= now
         /\ \A g \in timers : y.at <= g.at
         /\ timers' = timers \ {y}
         /\ arrived' = IF y.path[1] \in closed THEN arrived
                       ELSE [arrived EXCEPT ![y.path] = Append(@, y.n)]
  BY DEF Fire
<1>2. UNCHANGED <<shaped, now, nextFree, clientKnown, seen, dropped, closed>>
  BY DEF Fire
<1>3. /\ seen \in [Paths -> 0 .. MaxDatagrams] /\ dropped \in [Paths -> 0 .. MaxDatagrams]
      /\ nextFree \in [Directions -> Nat] /\ now \in Nat
      /\ arrived \in [Paths -> Seq(Nat)]
      /\ IsFiniteSet(timers)
      /\ \A g \in timers : /\ g.path \in Paths /\ g.n \in 1 .. seen[g.path]
                           /\ g.size \in Sizes /\ g.at \in Nat
  BY DEF ProxyInv, ProxyTypes, ProxyTypeOK
<1>4. /\ \A q \in Paths : seen[q] \in Nat /\ dropped[q] \in Nat
      /\ y.path \in Paths /\ y.n \in Nat /\ y.n <= seen[y.path]
      /\ y.path[1] \in Flows /\ y.path[2] \in Directions
  BY <1>3, ProxyAssumption DEF Paths
<1>5. \A g \in timers : g.path = y.path /\ g # y => y.n < g.n
  <2> SUFFICES ASSUME NEW g \in timers, g.path = y.path, g # y PROVE y.n < g.n
    OBVIOUS
  <2>1. /\ g.n # y.n
        /\ g.n < y.n => g.at < y.at
    BY DEF ProxyInv, DueInOrder
  <2>2. y.at <= g.at /\ y.at \in Nat /\ g.at \in Nat /\ g.n \in Nat
    BY <1>1, <1>3, <1>4, ProxyAssumption
  <2> QED
    BY <1>4, <2>1, <2>2
<1>6. \A q \in Paths : \A i \in DOMAIN arrived[q] :
          arrived[q][i] \in Nat /\ arrived[q][i] <= seen[q]
  BY <1>3 DEF ProxyInv, SeenFirst
<1>7. \A q \in Paths : q # y.path => arrived'[q] = arrived[q]
  BY <1>1, <1>3
<1>8. StaysBusy'
  <2> SUFFICES ASSUME NEW d \in Directions, NEW t \in now .. nextFree[d]
               PROVE  nextFree[d] - t <= Load(Ahead(d, t)')
    BY <1>2 DEF StaysBusy
  <2>1. ~ y.at - Delay > t
    BY <1>1, <1>3, ProxyAssumption
  <2>2. Ahead(d, t)' = Ahead(d, t)
    BY <1>1, <2>1 DEF Ahead
  <2> QED
    BY <2>2 DEF ProxyInv, StaysBusy
<1>9. CASE y.path[1] \in closed
  <2>1. arrived' = arrived
    BY <1>1, <1>9
  <2>2. ProxyTypes'
    <3>1. IsFiniteSet(timers')
      BY <1>1, <1>3, FS_Subset
    <3> QED
      BY <1>1, <1>2, <2>1, <3>1 DEF ProxyInv, ProxyTypes, ProxyTypeOK
  <2>3. NothingAstray' /\ SeenFirst' /\ DueInOrder' /\ DueInTime' /\ LinkIsShared'
    BY <1>1, <1>2, <2>1 DEF ProxyInv, NothingAstray, SeenFirst, DueInOrder, DueInTime,
                            LinkIsShared
  <2>4. InOrder'
    BY <1>1, <2>1 DEF ProxyInv, InOrder, Waiting
  <2>5. Accounted'
    <3>1. \A q \in Paths : q[1] \notin closed => Waiting(q)' = Waiting(q)
      BY <1>1, <1>9 DEF Waiting
    <3> QED
      BY <1>2, <2>1, <3>1 DEF ProxyInv, Accounted
  <2> QED
    BY <1>8, <2>2, <2>3, <2>4, <2>5 DEF ProxyInv
<1>10. CASE y.path[1] \notin closed
  <2>1. /\ arrived'[y.path] = Append(arrived[y.path], y.n)
        /\ arrived' \in [Paths -> Seq(Nat)]
    <3>1. Append(arrived[y.path], y.n) \in Seq(Nat)
      BY <1>3, <1>4
    <3> QED
      BY <1>1, <1>3, <1>4, <1>10, <3>1
  <2> DEFINE last == Len(arrived[y.path]) + 1
  <2>2. /\ DOMAIN arrived'[y.path] = DOMAIN arrived[y.path] \cup {last}
        /\ arrived'[y.path][last] = y.n
        /\ \A i \in DOMAIN arrived[y.path] :
               arrived'[y.path][i] = arrived[y.path][i] /\ i \in Nat /\ i < last
        /\ Len(arrived'[y.path]) = Len(arrived[y.path]) + 1
        /\ Len(arrived[y.path]) \in Nat
    <3> DEFINE s == arrived[y.path]
    <3>1. s \in Seq(Nat) /\ Len(s) \in Nat /\ DOMAIN s = 1 .. Len(s)
      BY <1>3, <1>4
    <3>2. arrived'[y.path] = Append(s, y.n)
      BY <2>1
    <3> HIDE DEF s
    <3>3. /\ Len(Append(s, y.n)) = Len(s) + 1
          /\ DOMAIN Append(s, y.n) = 1 .. Len(s) + 1
          /\ Append(s, y.n)[Len(s) + 1] = y.n
          /\ \A i \in 1 .. Len(s) : Append(s, y.n)[i] = s[i]
      BY <1>4, <3>1
    <3>4. \A i \in DOMAIN s : Append(s, y.n)[i] = s[i] /\ i \in Nat /\ i < Len(s) + 1
      BY <3>1, <3>3
    <3>5. DOMAIN Append(s, y.n) = DOMAIN s \cup {Len(s) + 1}
      BY <3>1, <3>3
    <3> QED
      BY <3>1, <3>2, <3>3, <3>4, <3>5 DEF s
  <2> HIDE DEF last
  <2>3. ProxyTypes'
    <3>1. IsFiniteSet(timers')
      BY <1>1, <1>3, FS_Subset
    <3> QED
      BY <1>1, <1>2, <2>1, <3>1 DEF ProxyInv, ProxyTypes, ProxyTypeOK
  <2>4. NothingAstray'
    <3> SUFFICES ASSUME NEW f \in Flows, arrived'[<<f, "c2s">>] # <<>>
                 PROVE  f \in clientKnown
      BY <1>1, <1>2 DEF ProxyInv, NothingAstray
    <3>1. <<f, "c2s">> \in Paths
      BY DEF Paths, Directions
    <3>2. CASE y.path = <<f, "c2s">>
      BY <3>2 DEF ProxyInv, NothingAstray
    <3>3. CASE y.path # <<f, "c2s">>
      BY <1>7, <3>1, <3>3 DEF ProxyInv, NothingAstray
    <3> QED
      BY <3>2, <3>3
  <2>5. SeenFirst'
    <3>1. \A i \in DOMAIN arrived'[y.path] : arrived'[y.path][i] <= seen[y.path]
      BY <1>4, <1>6, <2>2
    <3>2. \A q \in Paths : \A i \in DOMAIN arrived'[q] : arrived'[q][i] <= seen[q]
      BY <1>6, <1>7, <3>1
    <3> QED
      BY <1>2, <3>2 DEF ProxyInv, SeenFirst
  <2>6. DueInOrder' /\ DueInTime' /\ LinkIsShared'
    BY <1>1, <1>2 DEF ProxyInv, DueInOrder, DueInTime, LinkIsShared
  <2>7. InOrder'
    <3>1. ASSUME NEW i \in DOMAIN arrived'[y.path], NEW j \in DOMAIN arrived'[y.path], i < j
          PROVE  arrived'[y.path][i] < arrived'[y.path][j]
      <4>1. i \in DOMAIN arrived[y.path]
        BY <2>2, <3>1
      <4>2. CASE j = last
        BY <1>1, <1>4, <2>2, <4>1, <4>2 DEF ProxyInv, InOrder, Waiting
      <4>3. CASE j \in DOMAIN arrived[y.path]
        BY <1>4, <2>2, <3>1, <4>1, <4>3 DEF ProxyInv, InOrder
      <4> QED
        BY <2>2, <4>2, <4>3
    <3>2. ASSUME NEW i \in DOMAIN arrived'[y.path], NEW g \in timers', g.path = y.path
          PROVE  arrived'[y.path][i] < g.n
      <4>1. g \in timers /\ g # y
        BY <1>1
      <4>2. CASE i = last
        BY <1>5, <2>2, <3>2, <4>1, <4>2
      <4>3. CASE i \in DOMAIN arrived[y.path]
        BY <1>4, <2>2, <3>2, <4>1, <4>3 DEF ProxyInv, InOrder, Waiting
      <4> QED
        BY <2>2, <4>2, <4>3
    <3>3. \A q \in Paths : q # y.path =>
             /\ \A i, j \in DOMAIN arrived'[q] : i < j => arrived'[q][i] < arrived'[q][j]
             /\ \A i \in DOMAIN arrived'[q], g \in Waiting(q)' : arrived'[q][i] < g.n
      BY <1>1, <1>7 DEF ProxyInv, InOrder, Waiting
    <3> QED
      BY <3>1, <3>2, <3>3 DEF InOrder, Waiting
  <2>8. Accounted'
    <3> SUFFICES ASSUME NEW q \in Paths, q[1] \notin closed
                 PROVE  seen[q] = dropped[q] + Len(arrived'[q]) + Cardinality(Waiting(q)')
      BY <1>2 DEF Accounted
    <3>1. seen[q] = dropped[q] + Len(arrived[q]) + Cardinality(Waiting(q))
      BY DEF ProxyInv, Accounted
    <3>2. IsFiniteSet(Waiting(q)) /\ Cardinality(Waiting(q)) \in Nat
      <4>1. Waiting(q) \subseteq timers
        BY DEF Waiting
      <4> QED
        BY <1>3, <4>1, FS_Subset, FS_CardinalityType
    <3>3. CASE q # y.path
      <4>1. Waiting(q)' = Waiting(q)
        BY <1>1, <3>3 DEF Waiting
      <4>2. Cardinality(Waiting(q)') = Cardinality(Waiting(q))
        BY <4>1
      <4> QED
        BY <1>7, <3>1, <3>3, <4>2
    <3>4. CASE q = y.path
      <4>1. Waiting(q)' = Waiting(q) \ {y} /\ y \in Waiting(q)
        BY <1>1, <3>4 DEF Waiting
      <4>2. Cardinality(Waiting(q)') = Cardinality(Waiting(q)) - 1
        BY <3>2, <4>1, FS_RemoveElement
      <4>3. Len(arrived'[q]) = Len(arrived[q]) + 1 /\ Len(arrived[q]) \in Nat
        BY <2>2, <3>4
      <4>4. seen[q] \in Nat /\ dropped[q] \in Nat
        BY <1>4
      <4> DEFINE s == seen[q]  d == dropped[q]
                 a == Len(arrived[q])  w == Cardinality(Waiting(q))
      <4>5. s \in Nat /\ d \in Nat /\ a \in Nat /\ w \in Nat /\ s = d + a + w
        BY <3>1, <3>2, <4>3, <4>4
      <4>6. Len(arrived'[q]) = a + 1 /\ Cardinality(Waiting(q)') = w - 1
        BY <4>2, <4>3
      <4> HIDE DEF s, d, a, w
      <4>7. s = d + (a + 1) + (w - 1)
        BY <4>5, AccountMoves
      <4>8. s = d + Len(arrived'[q]) + Cardinality(Waiting(q)')
        BY <4>6, <4>7
      <4> QED
        BY <4>8 DEF s, d
    <3> QED
      BY <3>3, <3>4
  <2> QED
    BY <1>8, <2>3, <2>4, <2>5, <2>6, <2>7, <2>8 DEF ProxyInv
<1> QED
  BY <1>9, <1>10

\* The clock moves.
LEMMA TickKeeps ==
    ASSUME ProxyInv, Tick
    PROVE  ProxyInv'
<1>1. /\ now' = now + 1
      /\ UNCHANGED <<shaped, nextFree, clientKnown, seen, dropped, timers, arrived, closed>>
  BY DEF Tick
<1>2. ProxyTypes'
  BY <1>1 DEF ProxyInv, ProxyTypes, ProxyTypeOK
<1>3. NothingAstray' /\ SeenFirst' /\ DueInOrder' /\ DueInTime' /\ LinkIsShared'
  BY <1>1 DEF ProxyInv, NothingAstray, SeenFirst, DueInOrder, DueInTime, LinkIsShared
<1>4. InOrder' /\ Accounted'
  BY <1>1 DEF ProxyInv, InOrder, Accounted, Waiting
<1>5. StaysBusy'
  <2> SUFFICES ASSUME NEW d \in Directions, NEW t \in now + 1 .. nextFree[d]
               PROVE  nextFree[d] - t <= Load(Ahead(d, t))
    BY <1>1 DEF StaysBusy, Ahead
  <2>1. t \in now .. nextFree[d]
    BY DEF ProxyInv, ProxyTypes, ProxyTypeOK
  <2> QED
    BY <2>1 DEF ProxyInv, StaysBusy
<1> QED
  BY <1>2, <1>3, <1>4, <1>5 DEF ProxyInv

\* A proxy closes: it no longer owes anybody anything.
LEMMA CloseKeeps ==
    ASSUME ProxyInv, NEW f \in Flows, Close(f)
    PROVE  ProxyInv'
<1>1. /\ closed' = closed \cup {f}
      /\ UNCHANGED <<shaped, now, nextFree, clientKnown, seen, dropped, timers, arrived>>
  BY DEF Close
<1>2. ProxyTypes'
  BY <1>1 DEF ProxyInv, ProxyTypes, ProxyTypeOK
<1>3. NothingAstray' /\ SeenFirst' /\ DueInOrder' /\ DueInTime' /\ LinkIsShared'
  BY <1>1 DEF ProxyInv, NothingAstray, SeenFirst, DueInOrder, DueInTime, LinkIsShared
<1>4. InOrder' /\ Accounted' /\ StaysBusy'
  BY <1>1 DEF ProxyInv, InOrder, Accounted, Waiting, StaysBusy, Ahead
<1> QED
  BY <1>2, <1>3, <1>4 DEF ProxyInv

LEMMA ProxyNext_Inv == ProxyInv /\ [ProxyNext]_proxyVars => ProxyInv'
<1> SUFFICES ASSUME ProxyInv, [ProxyNext]_proxyVars
             PROVE  ProxyInv'
  OBVIOUS
<1>1. ASSUME NEW f \in Flows, NEW size \in Sizes, DatagramReceived(<<f, "c2s">>, size)
      PROVE  ProxyInv'
  <2>1. <<f, "c2s">> \in Paths
    BY DEF Paths, Directions
  <2> QED
    BY <1>1, <2>1, ReceiveKeeps
<1>2. ASSUME NEW f \in Flows, NEW size \in Sizes,
             ServerSpeaks(f), DatagramReceived(<<f, "s2c">>, size)
      PROVE  ProxyInv'
  <2>1. <<f, "s2c">> \in Paths
    BY DEF Paths, Directions
  <2> QED
    BY <1>2, <2>1, ReceiveKeeps
<1>3. CASE Fire
  BY <1>3, FireKeeps
<1>4. CASE Tick
  BY <1>4, TickKeeps
<1>5. ASSUME NEW f \in Flows, Close(f) PROVE ProxyInv'
  BY <1>5, CloseKeeps
<1>6. CASE UNCHANGED proxyVars
  <2>1. UNCHANGED <<shaped, now, nextFree, clientKnown, seen, dropped, timers, arrived, closed>>
    BY <1>6 DEF proxyVars
  <2>2. /\ ProxyTypes' /\ NothingAstray' /\ SeenFirst' /\ DueInOrder' /\ DueInTime'
        /\ LinkIsShared'
    BY <2>1 DEF ProxyInv, ProxyTypes, ProxyTypeOK, NothingAstray, SeenFirst, DueInOrder,
                DueInTime, LinkIsShared
  <2>3. InOrder' /\ Accounted' /\ StaysBusy'
    BY <2>1 DEF ProxyInv, InOrder, Accounted, Waiting, StaysBusy, Ahead
  <2> QED
    BY <2>2, <2>3 DEF ProxyInv
<1> QED
  BY <1>1, <1>2, <1>3, <1>4, <1>5, <1>6 DEF ProxyNext

\* The link waits for nothing but what is ahead, now as at any later time.
LEMMA BusyNow == ProxyInv => LinkNeverIdles
<1> SUFFICES ASSUME ProxyInv, NEW d \in Directions
             PROVE  nextFree[d] - now <= Load(Ahead(d, now))
  BY DEF LinkNeverIdles, Ahead
<1>1. now \in Nat /\ nextFree[d] \in Nat
  BY DEF ProxyInv, ProxyTypes, ProxyTypeOK
<1>2. Load(Ahead(d, now)) \in Nat
  BY AheadSized DEF ProxyInv
<1>3. CASE now <= nextFree[d]
  <2>1. now \in now .. nextFree[d]
    BY <1>1, <1>3
  <2> QED
    BY <2>1 DEF ProxyInv, StaysBusy
<1>4. CASE ~ now <= nextFree[d]
  BY <1>1, <1>2, <1>4
<1> QED
  BY <1>3, <1>4

\* LossyUdpProxy keeps the order of each path and accounts for every datagram,
\* and PathShaper schedules each direction of the shared link one datagram at a
\* time, with no gap while one waits: for any number of connections, any sizes,
\* any loss_every and any delay.
THEOREM DatagramsAreForwarded == ProxySpec => []ProxiesForward
<1>1. ProxyInv => ProxiesForward
  BY BusyNow DEF ProxyInv, ProxyTypes, ProxiesForward
<1> QED
  BY <1>1, ProxyInit_Inv, ProxyNext_Inv, PTL DEF ProxySpec

-----------------------------------------------------------------------------
(* The chunkers.                                                           *)

\* A number is a quotient and a remainder in one way only.
LEMMA RemainderIs ==
    ASSUME NEW t \in Nat \ {0}, NEW a \in Int, NEW q \in Int, NEW r \in 0 .. t - 1,
           a = q * t + r
    PROVE  a % t = r /\ a \div t = q
  OBVIOUS

\* A multiple of t does not count modulo t.
LEMMA MultiplesVanish ==
    ASSUME NEW t \in Nat \ {0}, NEW a \in Int, NEW q \in Int
    PROVE  (a + q * t) % t = a % t
<1>1. PICK d \in Int, r \in 0 .. t - 1 : a = d * t + r
  <2>1. a \div t \in Int /\ a % t \in 0 .. t - 1 /\ a = (a \div t) * t + (a % t)
    OBVIOUS
  <2> QED
    BY <2>1
<1>2. a + q * t = (d + q) * t + r
  BY <1>1
<1>3. d + q \in Int /\ a + q * t \in Int
  BY <1>1
<1>4. a % t = r
  BY <1>1, RemainderIs
<1>5. (a + q * t) % t = r
  BY <1>2, <1>3, RemainderIs
<1> QED
  BY <1>4, <1>5

\* A hash of old bytes, with the weight it has by now, and the sum of the new.
Weighed(v, u, a) == v * u + a

\* The hash w modulo t follows the hash v, with the byte y.
Follows(w, v, y, t) == w = (2 * v + y) % t

\* The same with one byte more in the sum.
LEMMA OneByteEarlier ==
    ASSUME NEW t \in Nat \ {0}, NEW u \in Nat, NEW v \in Nat, NEW w \in Nat,
           NEW y \in Nat, NEW a \in Int, Follows(w, v, y, t),
           NEW d, d = 2 * u, NEW e, e = a + y * u
    PROVE  Weighed(v, d, e) % t = Weighed(w, u, a) % t
<1> USE DEF Follows
<1>1. PICK q \in Int : 2 * v + y = q * t + w
  <2>1. /\ (2 * v + y) \div t \in Int
        /\ 2 * v + y = ((2 * v + y) \div t) * t + ((2 * v + y) % t)
    OBVIOUS
  <2> QED
    BY <2>1
<1>2. (2 * v + y) * u = (q * t + w) * u
  BY <1>1
<1>3. (2 * v + y) * u = v * (2 * u) + y * u
  OBVIOUS
<1>4. (q * t + w) * u = (q * u) * t + w * u
  BY <1>1
<1>5. v * (2 * u) \in Int /\ y * u \in Int /\ (q * u) * t \in Int /\ w * u \in Int /\ q * u \in Int
  BY <1>1
<1>6. v * (2 * u) + y * u = (q * u) * t + w * u
  BY <1>2, <1>3, <1>4
<1>7. v * (2 * u) + (a + y * u) = (w * u + a) + (q * u) * t
  <2> HIDE <1>2, <1>3, <1>4
  <2>1. PICK d1, d2, d3, d4 :
            /\ d1 = v * (2 * u) /\ d2 = y * u /\ d3 = (q * u) * t /\ d4 = w * u
            /\ d1 \in Int /\ d2 \in Int /\ d3 \in Int /\ d4 \in Int
    BY <1>5
  <2>2. d1 + d2 = d3 + d4
    BY <1>6, <2>1
  <2>3. d1 + (a + d2) = (d4 + a) + d3
    BY <2>1, <2>2
  <2> QED
    BY <2>1, <2>3
<1>8. w * u + a \in Int
  BY <1>5
<1>9. ((w * u + a) + (q * u) * t) % t = (w * u + a) % t
  BY <1>5, <1>8, MultiplesVanish
<1> QED
  BY <1>7, <1>9 DEF Weighed

\* A remainder is its own.
LEMMA RemainderOnce ==
    ASSUME NEW t \in Nat \ {0}, NEW z \in Int
    PROVE  (z % t) % t = z % t /\ z % t \in Nat
  OBVIOUS

\* The powers of two.
LEMMA PowersOfTwo ==
    /\ TwoTo \in [0 .. Bits -> Nat \ {0}] /\ TwoTo[0] = 1
    /\ \A k \in 1 .. Bits : TwoTo[k] = 2 * TwoTo[k - 1]
    /\ Target \in Nat \ {0}
<1>0. Bits \in Nat
  BY ChunkerAssumption
<1> DEFINE Eq(f) == f = [k \in 0 .. Bits |-> IF k = 0 THEN 1 ELSE 2 * f[k - 1]]
           V == Nat \ {0}
           b == [x \in (1 .. Bits) \X V |-> 2 * x[2]]
<1>1. (\A k \in 1 .. Bits, v \in V : b[<<k, v>>] = 2 * v /\ b[<<k, v>>] \in V) /\ 1 \in V
  OBVIOUS
<1> HIDE DEF b, V
<1>2. PICK f : Recurs(f, Bits, V, 1, b)
  <2>1. Steps(b, Bits, V) /\ 1 \in V
    BY <1>1 DEF Steps
  <2> QED
    BY <1>0, <2>1, Recursion
<1> USE DEF Recurs
<1>3. ASSUME NEW k \in 0 .. Bits PROVE f[k] = IF k = 0 THEN 1 ELSE 2 * f[k - 1]
  <2>1. CASE k = 0
    BY <1>2, <2>1
  <2>2. CASE k # 0
    <3>1. k \in 1 .. Bits /\ k - 1 \in 0 .. Bits
      BY <1>0, <2>2
    <3>2. f[k] = b[<<k, f[k - 1]>>] /\ f[k - 1] \in V
      BY <1>2, <3>1
    <3>3. f[k] = 2 * f[k - 1]
      BY <1>1, <3>1, <3>2
    <3> QED
      BY <2>2, <3>3
  <2> QED
    BY <2>1, <2>2
<1>4. Eq(f)
  BY <1>2, <1>3
<1> HIDE DEF Eq
<1>5. TwoTo = CHOOSE g : Eq(g)
  BY DEF TwoTo, Eq
<1>6. Eq(TwoTo)
  BY <1>4, <1>5
<1>7. DOMAIN TwoTo = 0 .. Bits
      /\ \A k \in 0 .. Bits : TwoTo[k] = IF k = 0 THEN 1 ELSE 2 * TwoTo[k - 1]
  <2> DEFINE w == TwoTo
  <2> HIDE DEF w
  <2>1. w = [k \in 0 .. Bits |-> IF k = 0 THEN 1 ELSE 2 * w[k - 1]]
    BY <1>6 DEF Eq, w
  <2>2. DOMAIN w = 0 .. Bits
        /\ \A k \in 0 .. Bits : w[k] = IF k = 0 THEN 1 ELSE 2 * w[k - 1]
    BY <2>1
  <2> QED
    BY <2>2 DEF w
<1> DEFINE P == {k \in Nat : k <= Bits => TwoTo[k] \in Nat \ {0}}
<1>8. 0 \in P
  BY <1>0, <1>7
<1>9. ASSUME NEW k \in P PROVE k + 1 \in P
  <2>1. SUFFICES ASSUME k + 1 <= Bits PROVE TwoTo[k + 1] \in Nat \ {0}
    OBVIOUS
  <2>2. k + 1 \in 0 .. Bits /\ k + 1 # 0 /\ (k + 1) - 1 = k /\ TwoTo[k] \in Nat \ {0}
    BY <1>0, <2>1
  <2>3. TwoTo[k + 1] = 2 * TwoTo[k]
    BY <1>7, <2>2
  <2> QED
    BY <2>2, <2>3
<1>10. P = Nat
  <2> HIDE DEF P
  <2>1. P \subseteq Nat
    BY DEF P
  <2> QED
    BY <1>8, <1>9, <2>1, AllOfNat
<1>11. ASSUME NEW k \in 0 .. Bits PROVE TwoTo[k] \in Nat \ {0}
  BY <1>0, <1>10
<1>12. TwoTo = [k \in 0 .. Bits |-> TwoTo[k]]
  <2> DEFINE w == TwoTo
  <2> HIDE DEF w
  <2>1. w = [k \in 0 .. Bits |-> IF k = 0 THEN 1 ELSE 2 * w[k - 1]]
    BY <1>6 DEF Eq, w
  <2>2. w = [k \in 0 .. Bits |-> w[k]]
    BY <2>1
  <2> QED
    BY <2>2 DEF w
<1>13. TwoTo \in [0 .. Bits -> Nat \ {0}]
  BY <1>11, <1>12
<1>14. TwoTo[0] = 1 /\ \A k \in 1 .. Bits : TwoTo[k] = 2 * TwoTo[k - 1]
  BY <1>0, <1>7
<1>15. Target \in Nat \ {0}
  BY <1>0, <1>13 DEF Target
<1> QED
  BY <1>13, <1>14, <1>15

\* The values of the hash after each byte of s, as the loop of cdc_chunks
\* computes them.
Rolls(f, s) ==
    /\ f \in [0 .. Len(s) -> Nat] /\ f[0] = 0
    /\ \A k \in 1 .. Len(s) : f[k] = (2 * f[k - 1] + s[k] + Golden) % Target

\* Where at least Bits bytes were hashed, the hash depends on the last ones only.
LEMMA HashOfWindow ==
    ASSUME NEW s \in Seq(Nat), NEW f, Rolls(f, s), NEW n \in Bits .. Len(s)
    PROVE  WindowHash(s, n) = f[n]
<1>0. Bits \in Nat /\ Bits >= 1 /\ n \in Nat /\ n <= Len(s) /\ Len(s) \in Nat /\ Bits <= n
  BY ChunkerAssumption
<1>1. /\ \A k \in 0 .. Bits : TwoTo[k] \in Nat \ {0}
      /\ TwoTo[0] = 1 /\ \A k \in 1 .. Bits : TwoTo[k] = 2 * TwoTo[k - 1]
      /\ Target \in Nat \ {0} /\ Target = TwoTo[Bits]
  BY PowersOfTwo, <1>0 DEF Target
<1> DEFINE x(k) == s[n - k + 1] + Golden
           Eq(g) == g = [k \in 0 .. Bits |-> IF k = 0 THEN 0 ELSE g[k - 1] + x(k) * TwoTo[k - 1]]
           c == CHOOSE g : Eq(g)
           z(k) == x(k) * TwoTo[k - 1]
           b == [y \in (1 .. Bits) \X Nat |-> y[2] + z(y[1])]
<1>2. Golden \in Nat
  BY DEF Golden
<1>3. ASSUME NEW k \in 1 .. Bits
      PROVE  x(k) \in Nat /\ k - 1 \in 0 .. Bits /\ TwoTo[k - 1] \in Nat /\ z(k) \in Nat
  <2>1. n - k + 1 \in 1 .. Len(s) /\ k - 1 \in 0 .. Bits
    BY <1>0
  <2>2. s[n - k + 1] \in Nat
    BY <2>1
  <2>3. x(k) \in Nat
    BY <1>2, <2>2
  <2>4. TwoTo[k - 1] \in Nat
    BY <1>1, <2>1
  <2> HIDE DEF x
  <2>5. z(k) \in Nat
    BY <2>3, <2>4
  <2> QED
    BY <2>1, <2>3, <2>4, <2>5
<1>4. WindowHash(s, n) = c[Bits] % Target
  BY DEF WindowHash
<1> HIDE DEF x, z
<1> DEFINE V == Nat
<1>5. (\A k \in 1 .. Bits, v \in V : b[<<k, v>>] = v + z(k) /\ b[<<k, v>>] \in V) /\ 0 \in V
  BY <1>3
<1> HIDE DEF b, V
<1>6. PICK g : Recurs(g, Bits, V, 0, b)
  <2>1. Steps(b, Bits, V) /\ 0 \in V
    BY <1>5 DEF Steps
  <2> QED
    BY <1>0, <2>1, Recursion
<1> USE DEF Recurs
<1>7. ASSUME NEW k \in 0 .. Bits
      PROVE  g[k] = IF k = 0 THEN 0 ELSE g[k - 1] + x(k) * TwoTo[k - 1]
  <2>1. CASE k = 0
    BY <1>6, <2>1
  <2>2. CASE k # 0
    <3>1. k \in 1 .. Bits /\ k - 1 \in 0 .. Bits
      BY <1>0, <2>2
    <3>2. g[k] = g[k - 1] + z(k)
      BY <1>5, <1>6, <3>1
    <3> QED
      BY <2>2, <3>2 DEF z
  <2> QED
    BY <2>1, <2>2
<1>8. Eq(g)
  BY <1>6, <1>7
<1> HIDE DEF Eq
<1>9. Eq(c)
  BY <1>8
<1> HIDE DEF c
<1>10. \A k \in 0 .. Bits : c[k] = IF k = 0 THEN 0 ELSE c[k - 1] + x(k) * TwoTo[k - 1]
  BY <1>9 DEF Eq
<1>11. \A k \in 1 .. Len(s) : f[k] = (2 * f[k - 1] + s[k] + Golden) % Target
  BY DEF Rolls
<1>f. /\ \A k \in 0 .. Len(s) : f[k] \in Nat
      /\ \A k \in 1 .. Len(s) : s[k] \in Nat
  <2>1. f \in [0 .. Len(s) -> Nat]
    BY DEF Rolls
  <2> QED
    BY <2>1
<1> DEFINE Ok(k) == /\ c[k] \in Int
                    /\ Weighed(f[n - k], TwoTo[k], c[k]) % Target = f[n] % Target
           P == {k \in Nat : k <= Bits => Ok(k)}
<1>12. 0 \in P
  <2>1. c[0] = 0 /\ f[n] \in Nat /\ n - 0 = n
    <3>1. n \in 0 .. Len(s) /\ 0 \in 0 .. Bits /\ n - 0 = n
      BY <1>0
    <3> QED
      BY <1>10, <1>f, <3>1
  <2> QED
    BY <1>1, <2>1 DEF Weighed
<1>13. ASSUME NEW k \in P PROVE k + 1 \in P
  <2>1. SUFFICES ASSUME k + 1 <= Bits PROVE Ok(k + 1)
    OBVIOUS
  <2>2. /\ k \in Nat /\ k <= Bits /\ Ok(k) /\ k + 1 \in 0 .. Bits /\ k + 1 \in 1 .. Bits
        /\ k + 1 # 0 /\ (k + 1) - 1 = k /\ k \in 0 .. Bits
    BY <1>0, <2>1
  <2>3. c[k + 1] = c[k] + x(k + 1) * TwoTo[k]
    BY <1>10, <2>2
  <2>4. TwoTo[k + 1] = 2 * TwoTo[k]
    BY <1>1, <2>2
  <2>5. n - k \in 1 .. Len(s) /\ n - (k + 1) = (n - k) - 1 /\ (n - k) - 1 \in 0 .. Len(s)
    BY <1>0, <2>1, <2>2
  <2>6. f[n - k] = (2 * f[(n - k) - 1] + x(k + 1)) % Target
    <3>1. f[n - k] = (2 * f[(n - k) - 1] + s[n - k] + Golden) % Target
      BY <1>11, <2>5
    <3>2. n - (k + 1) + 1 = n - k
      BY <1>0, <2>2
    <3>3. x(k + 1) = s[n - k] + Golden
      BY <3>2 DEF x
    <3>4. s[n - k] \in Nat /\ f[(n - k) - 1] \in Nat
      BY <2>5, <1>f
    <3>5. 2 * f[(n - k) - 1] + s[n - k] + Golden = 2 * f[(n - k) - 1] + (s[n - k] + Golden)
      BY <1>2, <3>4
    <3> QED
      BY <3>1, <3>3, <3>5
  <2>7. PICK v \in Nat, w \in Nat, t \in Nat \ {0}, y \in Nat, u \in Nat, a \in Int :
            /\ v = f[(n - k) - 1] /\ w = f[n - k] /\ t = Target /\ y = x(k + 1)
            /\ u = TwoTo[k] /\ a = c[k]
    <3>1. f[(n - k) - 1] \in Nat /\ f[n - k] \in Nat
      <4>1. n - k \in 0 .. Len(s)
        BY <2>5
      <4> QED
        BY <1>f, <2>5, <4>1
    <3>2. x(k + 1) \in Nat
      BY <1>3, <2>2
    <3>3. Target \in Nat \ {0} /\ TwoTo[k] \in Nat
      BY <1>1, <2>2
    <3>4. c[k] \in Int
      BY <2>2
    <3> QED
      BY <3>1, <3>2, <3>3, <3>4
  <2>8. c[k + 1] = a + y * u /\ TwoTo[k + 1] = 2 * u /\ f[n - (k + 1)] = v
    BY <2>3, <2>4, <2>5, <2>7
  <2>9. Follows(w, v, y, t)
    BY <2>6, <2>7 DEF Follows
  <2>10. /\ t \in Nat \ {0} /\ u \in Nat /\ v \in Nat /\ w \in Nat
         /\ y \in Nat /\ a \in Int
    BY <2>7
  <2>11. Weighed(v, TwoTo[k + 1], c[k + 1]) % t = Weighed(w, u, a) % t
    BY <2>8, <2>9, <2>10, OneByteEarlier
  <2>12. Weighed(w, u, a) % t = f[n] % t
    BY <2>2, <2>7
  <2>13. c[k + 1] \in Int
    BY <2>8, <2>10
  <2> QED
    BY <2>7, <2>8, <2>11, <2>12, <2>13
<1>14. P = Nat
  <2> HIDE DEF P
  <2>1. P \subseteq Nat
    BY DEF P
  <2> QED
    BY <1>12, <1>13, <2>1, AllOfNat
<1>15. Ok(Bits)
  <2>1. Bits \in P
    BY <1>0, <1>14
  <2>2. Bits <= Bits
    BY <1>0
  <2> QED
    BY <2>1, <2>2
<1>16. PICK v \in Nat, t \in Nat \ {0}, a \in Int : v = f[n - Bits] /\ t = Target /\ a = c[Bits]
  <2>1. n - Bits \in 0 .. Len(s)
    BY <1>0
  <2>2. f[n - Bits] \in Nat
    BY <1>f, <2>1
  <2> QED
    BY <1>1, <1>15, <2>2
<1>17. (v * t + a) % t = f[n] % t
  BY <1>1, <1>15, <1>16 DEF Weighed
<1>18. (a + v * t) % t = a % t
  <2>1. t \in Nat \ {0} /\ a \in Int /\ v \in Int
    BY <1>16
  <2> QED
    BY <2>1, MultiplesVanish
<1>19. f[n] % t = f[n]
  <2>1. n \in 1 .. Len(s) /\ n - 1 \in 0 .. Len(s)
    BY <1>0
  <2>2. f[n] = (2 * f[n - 1] + s[n] + Golden) % Target
    BY <1>11, <2>1
  <2>3. f[n - 1] \in Nat /\ s[n] \in Nat
    BY <1>f, <2>1
  <2>4. PICK m \in Int : m = 2 * f[n - 1] + s[n] + Golden
    <3>1. 2 * f[n - 1] + s[n] + Golden \in Int
      BY <1>2, <2>3
    <3> QED
      BY <3>1
  <2> QED
    BY <1>16, <2>2, <2>4, RemainderOnce
<1>20. v * t + a = a + v * t
  BY <1>16
<1> QED
  BY <1>4, <1>16, <1>17, <1>18, <1>19, <1>20

\* The bytes since the last boundary.
Part == SubSeq(data, start + 1, Len(data))

\* A chunk the rolling hash has cut.
CutWell(s) ==
    /\ Len(s) \in MinSize .. MaxSize
    /\ WindowHash(s, Len(s)) = 0 \/ Len(s) = MaxSize
    /\ \A n \in MinSize .. Len(s) - 1 : WindowHash(s, n) # 0

\* The hash is that of the bytes since the last boundary, none of which was one.
HashTracks ==
    /\ Len(Part) < MaxSize
    /\ \E f : /\ Rolls(f, Part) /\ h = f[Len(Part)]
              /\ \A n \in MinSize .. Len(Part) : f[n] # 0

ChunkerTypes ==
    /\ data \in Seq(Nat) /\ start \in 0 .. Len(data)
    /\ chunks \in Seq(Seq(Nat)) /\ ended \in BOOLEAN

ChunksCut ==
    /\ \A i \in DOMAIN chunks : chunks[i] # <<>> /\ Len(chunks[i]) <= MaxSize
    /\ \A i \in Whole : CutWell(chunks[i])

ChunkerInv ==
    /\ ChunkerTypes /\ Tiles /\ ChunksCut
    /\ ~ ended => HashTracks

\* Nothing has been hashed.
LEMMA NothingRolled == \E f : Rolls(f, <<>>) /\ f[0] = 0
<1> DEFINE f == [k \in 0 .. 0 |-> 0]
<1>1. Rolls(f, <<>>) /\ f[0] = 0
  BY DEF Rolls
<1> QED
  BY <1>1

\* One byte more is hashed.
LEMMA OneMoreRolled ==
    ASSUME NEW s \in Seq(Nat), NEW b \in Nat, NEW f, Rolls(f, s),
           NEW v, v = (2 * f[Len(s)] + b + Golden) % Target
    PROVE  \E g : /\ Rolls(g, Append(s, b)) /\ g[Len(s) + 1] = v
                  /\ \A k \in 0 .. Len(s) : g[k] = f[k]
<1> DEFINE n == Len(s)
           g == [k \in 0 .. n + 1 |-> IF k = n + 1 THEN v ELSE f[k]]
           t == Append(s, b)
<1>1. /\ n \in Nat /\ t \in Seq(Nat) /\ Len(t) = n + 1 /\ t[n + 1] = b
      /\ \A k \in 1 .. n : t[k] = s[k]
  OBVIOUS
<1>2. f \in [0 .. n -> Nat] /\ f[0] = 0
  BY DEF Rolls
<1>3. v \in Nat
  <2>1. f[n] \in Nat /\ Golden \in Nat /\ Target \in Nat \ {0}
    <3>1. n \in 0 .. n
      BY <1>1
    <3>2. f[n] \in Nat
      BY <1>2, <3>1
    <3> QED
      BY <3>2, PowersOfTwo DEF Golden
  <2>2. PICK z \in Int : z = 2 * f[n] + b + Golden
    BY <2>1
  <2> QED
    BY <2>1, <2>2, RemainderOnce
<1>4. g \in [0 .. n + 1 -> Nat] /\ g[n + 1] = v /\ \A k \in 0 .. n : g[k] = f[k]
  BY <1>1, <1>2, <1>3
<1> HIDE DEF g, t
<1>5. ASSUME NEW k \in 1 .. n + 1
      PROVE  g[k] = (2 * g[k - 1] + t[k] + Golden) % Target
  <2>1. CASE k = n + 1
    <3>1. g[k - 1] = f[n] /\ t[k] = b
      BY <1>1, <1>4, <2>1
    <3> QED
      BY <1>4, <2>1, <3>1
  <2>2. CASE k # n + 1
    <3>1. k \in 1 .. n /\ k \in 0 .. n /\ k - 1 \in 0 .. n
      BY <1>1, <2>2
    <3>2. f[k] = (2 * f[k - 1] + s[k] + Golden) % Target
      BY <3>1 DEF Rolls
    <3>3. g[k] = f[k] /\ g[k - 1] = f[k - 1] /\ t[k] = s[k]
      BY <1>1, <1>4, <3>1
    <3> QED
      BY <3>2, <3>3
  <2> QED
    BY <2>1, <2>2
<1>6. Rolls(g, t)
  <2>1. g[0] = 0
    BY <1>1, <1>2, <1>4
  <2> QED
    BY <1>1, <1>4, <1>5, <2>1 DEF Rolls
<1> QED
  BY <1>4, <1>6 DEF t

\* Nothing is cut at first.
LEMMA ChunkerInitInv == ChunkerInit => ChunkerInv
<1> SUFFICES ASSUME ChunkerInit PROVE ChunkerInv
  OBVIOUS
<1> USE DEF ChunkerInit
<1>1. ChunkerTypes
  <2>1. data = <<>> /\ chunks = <<>> /\ start = 0 /\ Len(<<>>) = 0 /\ ended = FALSE
    OBVIOUS
  <2>2. <<>> \in Seq(Nat) /\ <<>> \in Seq(Seq(Nat)) /\ 0 \in 0 .. 0
    OBVIOUS
  <2> QED
    BY <2>1, <2>2 DEF ChunkerTypes
<1>2. Tiles
  <2>1. FlattenSeq(<<>>) = <<>> /\ ToSet(<<>>) = {} /\ SubSeq(<<>>, 1, 0) = <<>>
    BY DEF FlattenSeq, ToSet
  <2> QED
    BY <2>1 DEF Tiles
<1>3. ChunksCut
  BY DEF ChunksCut, Whole
<1>4. HashTracks
  <2>1. Part = <<>> /\ Len(Part) = 0
    BY DEF Part
  <2>2. 0 < MinSize /\ 0 < MaxSize /\ MinSize \in Nat
    BY ChunkerAssumption
  <2>3. MinSize .. 0 = {}
    BY <2>2
  <2> QED
    BY <2>1, <2>2, <2>3, NothingRolled DEF HashTracks
<1> QED
  BY <1>1, <1>2, <1>3, <1>4 DEF ChunkerInv

\* A chunk more tiles the data up to its end, in bounds or not.
LEMMA TilesOneMore ==
    ASSUME NEW ss \in Seq(Seq(Nat)), NEW s \in Seq(Nat), s # <<>>, <<>> \notin ToSet(ss)
    PROVE  /\ FlattenSeq(Append(ss, s)) = FlattenSeq(ss) \o s
           /\ <<>> \notin ToSet(Append(ss, s))
           /\ Append(ss, s) \in Seq(Seq(Nat)) /\ Len(Append(ss, s)) = Len(ss) + 1
           /\ Append(ss, s)[Len(ss) + 1] = s
           /\ \A i \in 1 .. Len(ss) : Append(ss, s)[i] = ss[i]
<1>1. FlattenSeq(Append(ss, s)) = FlattenSeq(ss) \o s
  BY FlattenAppend
<1>2. /\ Append(ss, s) \in Seq(Seq(Nat)) /\ Len(Append(ss, s)) = Len(ss) + 1
      /\ Append(ss, s)[Len(ss) + 1] = s
      /\ \A i \in 1 .. Len(ss) : Append(ss, s)[i] = ss[i]
  OBVIOUS
<1>3. <<>> \notin ToSet(Append(ss, s))
  BY <1>2 DEF ToSet
<1> QED
  BY <1>1, <1>2, <1>3

\* A sequence, cut in two, and one element more.
LEMMA CutInTwo ==
    ASSUME NEW s \in Seq(Nat), NEW m \in 0 .. Len(s)
    PROVE  /\ SubSeq(s, 1, m) \o SubSeq(s, m + 1, Len(s)) = s
           /\ SubSeq(s, 1, m) \in Seq(Nat)
           /\ SubSeq(s, m + 1, Len(s)) \in Seq(Nat)
           /\ Len(SubSeq(s, m + 1, Len(s))) = Len(s) - m
           /\ \A i \in 1 .. Len(s) - m : SubSeq(s, m + 1, Len(s))[i] = s[m + i]
           /\ SubSeq(s, 1, Len(s)) = s
<1>1. m \in Nat /\ Len(s) \in Nat /\ m <= Len(s) /\ m + 1 \in Int
  OBVIOUS
<1>2. 1 \in 1 .. Len(s) + 1 /\ m \in 1 - 1 .. Len(s) /\ Len(s) \in m .. Len(s)
  BY <1>1
<1>3. SubSeq(s, 1, m) \o SubSeq(s, m + 1, Len(s)) = SubSeq(s, 1, Len(s))
  BY <1>2, ConcatAdjacentSubSeq
<1>4. SubSeq(s, 1, Len(s)) = s
  BY SubSeqFull
<1>5. \A i \in m + 1 .. Len(s) : s[i] \in Nat
  BY <1>1
<1>6. \A i \in 1 .. m : s[i] \in Nat
  BY <1>1
<1>7. SubSeq(s, 1, m) \in Seq(Nat)
  BY <1>1, <1>6, SubSeqProperties
<1>8. /\ SubSeq(s, m + 1, Len(s)) \in Seq(Nat)
      /\ Len(SubSeq(s, m + 1, Len(s))) =
            IF m + 1 <= Len(s) THEN Len(s) - (m + 1) + 1 ELSE 0
      /\ \A i \in 1 .. Len(s) - (m + 1) + 1 :
            SubSeq(s, m + 1, Len(s))[i] = s[(m + 1) + i - 1]
  <2>1. PICK k \in Int, l \in Int : k = m + 1 /\ l = Len(s)
    BY <1>1
  <2>2. \A i \in k .. l : s[i] \in Nat
    BY <1>5, <2>1
  <2>3. /\ SubSeq(s, k, l) \in Seq(Nat)
        /\ Len(SubSeq(s, k, l)) = IF k <= l THEN l - k + 1 ELSE 0
        /\ \A i \in 1 .. l - k + 1 : SubSeq(s, k, l)[i] = s[k + i - 1]
    BY <2>2, SubSeqProperties
  <2> QED
    BY <2>1, <2>3
<1>9. Len(SubSeq(s, m + 1, Len(s))) = Len(s) - m
  BY <1>1, <1>8
<1>10. \A i \in 1 .. Len(s) - m : SubSeq(s, m + 1, Len(s))[i] = s[m + i]
  <2>1. ASSUME NEW i \in 1 .. Len(s) - m PROVE SubSeq(s, m + 1, Len(s))[i] = s[m + i]
    <3>1. i \in 1 .. Len(s) - (m + 1) + 1 /\ (m + 1) + i - 1 = m + i
      BY <1>1
    <3> QED
      BY <1>8, <3>1
  <2> QED
    BY <2>1
<1> QED
  BY <1>3, <1>4, <1>7, <1>8, <1>9, <1>10

LEMMA CutAndMore ==
    ASSUME NEW s \in Seq(Nat), NEW m \in 0 .. Len(s), NEW b \in Nat
    PROVE  /\ Append(s, b) \in Seq(Nat) /\ Len(Append(s, b)) = Len(s) + 1
           /\ SubSeq(Append(s, b), 1, m) = SubSeq(s, 1, m)
           /\ SubSeq(Append(s, b), m + 1, Len(s) + 1) =
                 Append(SubSeq(s, m + 1, Len(s)), b)
<1> DEFINE t == Append(s, b)
           p == SubSeq(s, m + 1, Len(s))
           r == SubSeq(t, m + 1, Len(t))
<1>1. m \in Nat /\ Len(s) \in Nat /\ m <= Len(s)
  OBVIOUS
<1>2. /\ t \in Seq(Nat) /\ Len(t) = Len(s) + 1 /\ t[Len(s) + 1] = b
      /\ \A i \in 1 .. Len(s) : t[i] = s[i]
  OBVIOUS
<1> HIDE DEF t
<1>3. m \in 0 .. Len(t)
  BY <1>1, <1>2
<1>4. /\ p \in Seq(Nat) /\ Len(p) = Len(s) - m
      /\ \A i \in 1 .. Len(s) - m : p[i] = s[m + i]
  BY CutInTwo
<1>5. /\ r \in Seq(Nat) /\ Len(r) = Len(t) - m
      /\ \A i \in 1 .. Len(t) - m : r[i] = t[m + i]
  BY <1>2, <1>3, CutInTwo
<1> HIDE DEF p, r
<1>6. /\ Append(p, b) \in Seq(Nat) /\ Len(Append(p, b)) = Len(p) + 1
      /\ Append(p, b)[Len(p) + 1] = b
      /\ \A i \in 1 .. Len(p) : Append(p, b)[i] = p[i]
  BY <1>4
<1>7. Len(Append(p, b)) = Len(r)
  BY <1>1, <1>2, <1>4, <1>5, <1>6
<1>8. ASSUME NEW i \in 1 .. Len(r) PROVE r[i] = Append(p, b)[i]
  <2>1. r[i] = t[m + i]
    BY <1>5
  <2>2. CASE i = Len(p) + 1
    <3>1. m + i = Len(s) + 1
      BY <1>1, <1>4, <2>2
    <3> QED
      BY <1>2, <1>6, <2>1, <2>2, <3>1
  <2>3. CASE i # Len(p) + 1
    <3>0. /\ Len(r) = Len(s) + 1 - m /\ Len(p) = Len(s) - m
          /\ m \in Nat /\ Len(s) \in Nat /\ m <= Len(s)
      BY <1>1, <1>2, <1>4, <1>5
    <3>1. i \in 1 .. Len(p) /\ m + i \in 1 .. Len(s) /\ i \in 1 .. Len(s) - m
      BY <2>3, <3>0
    <3> QED
      BY <1>2, <1>4, <1>6, <2>1, <3>1
  <2> QED
    BY <2>2, <2>3
<1>9. r = Append(p, b)
  BY <1>5, <1>6, <1>7, <1>8, SeqEqual
<1>10. SubSeq(t, 1, m) = SubSeq(s, 1, m)
  <2>1. ASSUME NEW i \in 1 .. m PROVE s[i] \in Nat /\ t[i] \in Nat /\ t[i] = s[i]
    <3>1. i \in 1 .. Len(s)
      BY <1>1
    <3>2. s[i] \in Nat
      BY <3>1
    <3>3. t[i] = s[i]
      BY <1>2, <3>1
    <3> QED
      BY <3>2, <3>3
  <2>2. SubSeq(s, 1, m) \in Seq(Nat) /\ SubSeq(t, 1, m) \in Seq(Nat)
        /\ Len(SubSeq(s, 1, m)) = Len(SubSeq(t, 1, m))
        /\ \A i \in 1 .. m : SubSeq(s, 1, m)[i] = s[i] /\ SubSeq(t, 1, m)[i] = t[i]
        /\ Len(SubSeq(s, 1, m)) = m
    BY <1>1, <2>1
  <2> QED
    BY <2>1, <2>2, SeqEqual
<1> QED
  BY <1>2, <1>9, <1>10 DEF t, p, r

\* Taking a byte.
LEMMA TakeByteInv ==
    ASSUME ChunkerInv, NEW b \in Bytes, TakeByte(b)
    PROVE  ChunkerInv'
<1>0. /\ data \in Seq(Nat) /\ start \in 0 .. Len(data) /\ Len(data) \in Nat
      /\ chunks \in Seq(Seq(Nat)) /\ ended = FALSE /\ ended' = FALSE
      /\ b \in Nat /\ Bits \in Nat /\ Bits >= 1 /\ MinSize \in Nat /\ MaxSize \in Nat
      /\ MinSize >= Bits /\ MaxSize >= MinSize
  BY ChunkerAssumption DEF ChunkerInv, ChunkerTypes, TakeByte
<1> DEFINE p == Part
           q == Append(p, b)
           n == Len(p)
<1>1. data' = Append(data, b)
  BY DEF TakeByte
<1>t. /\ data' \in Seq(Nat) /\ Len(data') = Len(data) + 1
      /\ p \in Seq(Nat) /\ n = Len(data) - start
  BY <1>0, <1>1, CutInTwo, CutAndMore DEF Part
<1>n. n \in Nat /\ Len(data) + 1 - start = n + 1
  BY <1>0, <1>t
<1>q. q \in Seq(Nat) /\ Len(q) = n + 1
  <2> HIDE DEF p
  <2>1. p \in Seq(Nat) /\ b \in Nat
    BY <1>0, <1>t
  <2> QED
    BY <2>1
<1>2. q = SubSeq(data', start + 1, Len(data'))
  <2>1. Append(SubSeq(data, start + 1, Len(data)), b) =
            SubSeq(Append(data, b), start + 1, Len(data) + 1)
    BY <1>0, CutAndMore
  <2> QED
    BY <1>1, <1>t, <2>1 DEF Part
<1>3. HashTracks /\ Tiles /\ ChunksCut
  BY <1>0 DEF ChunkerInv
<1>4. PICK f : Rolls(f, p) /\ h = f[n] /\ \A k \in MinSize .. n : f[k] # 0
  BY <1>3 DEF HashTracks
<1>5. n < MaxSize
  BY <1>3 DEF HashTracks
<1>6. PICK g : /\ Rolls(g, q) /\ g[n + 1] = Hashed(b)
               /\ \A k \in 0 .. n : g[k] = f[k]
  <2>1. Hashed(b) = (2 * f[n] + b + Golden) % Target
    BY <1>4 DEF Hashed
  <2> HIDE DEF p
  <2>2. p \in Seq(Nat) /\ b \in Nat /\ Rolls(f, p)
    BY <1>0, <1>t, <1>4
  <2>3. \E g : /\ Rolls(g, Append(p, b)) /\ g[Len(p) + 1] = Hashed(b)
               /\ \A k \in 0 .. Len(p) : g[k] = f[k]
    <3>1. PICK v : v = Hashed(b)
      OBVIOUS
    <3>2. v = (2 * f[Len(p)] + b + Golden) % Target
      BY <2>1, <3>1
    <3> HIDE DEF n, q
    <3>3. \E g : /\ Rolls(g, Append(p, b)) /\ g[Len(p) + 1] = v
                 /\ \A k \in 0 .. Len(p) : g[k] = f[k]
      BY <2>2, <3>2, OneMoreRolled, SMTT(30)
    <3> QED
      BY <3>1, <3>3
  <2> QED
    BY <2>3
<1>7. \A k \in MinSize .. n : g[k] # 0
  <2>1. \A k \in MinSize .. n : k \in 0 .. n
    BY <1>0, <1>n
  <2> QED
    BY <1>4, <1>6, <2>1
<1>8. FlattenSeq(chunks) = SubSeq(data, 1, start) /\ <<>> \notin ToSet(chunks)
  BY <1>0, <1>3 DEF Tiles
<1>9. SubSeq(data', 1, start) = SubSeq(data, 1, start)
  BY <1>0, <1>1, CutAndMore
<1>10. Whole = DOMAIN chunks /\ Whole' = DOMAIN chunks'
  BY <1>0 DEF Whole
<1>11. CASE ~ Cuts(n + 1, Hashed(b))
  <2>1. chunks' = chunks /\ start' = start /\ h' = Hashed(b)
    BY <1>n, <1>11 DEF TakeByte
  <2>2. ChunkerTypes'
    <3>1. start \in 0 .. Len(data')
      BY <1>0, <1>t
    <3> QED
      BY <1>0, <1>t, <2>1, <3>1 DEF ChunkerTypes
  <2>3. Tiles'
    BY <1>0, <1>8, <1>9, <2>1 DEF Tiles
  <2>4. ChunksCut'
    BY <1>3, <1>10, <2>1 DEF ChunksCut, Whole
  <2>5. HashTracks'
    <3>1. Part' = q
      BY <1>2, <2>1 DEF Part
    <3>2. n + 1 < MaxSize /\ \A k \in MinSize .. n + 1 : g[k] # 0
      <4>1. n + 1 >= MinSize => Hashed(b) # 0 /\ n + 1 < MaxSize
        BY <1>0, <1>n, <1>11 DEF Cuts
      <4>2. n + 1 < MaxSize
        BY <1>0, <1>n, <4>1
      <4>3. ASSUME NEW k \in MinSize .. n + 1 PROVE g[k] # 0
        <5>1. CASE k = n + 1
          BY <1>0, <1>n, <1>6, <4>1, <5>1
        <5>2. CASE k # n + 1
          <6>1. k \in MinSize .. n
            <7> HIDE DEF n
            <7> QED
              BY <1>0, <1>n, <5>2
          <6> QED
            BY <1>7, <6>1
        <5> QED
          BY <5>1, <5>2
      <4> QED
        BY <4>2, <4>3
    <3> HIDE DEF q
    <3> QED
      BY <1>q, <1>6, <2>1, <3>1, <3>2 DEF HashTracks
  <2> QED
    BY <2>2, <2>3, <2>4, <2>5 DEF ChunkerInv
<1>12. CASE Cuts(n + 1, Hashed(b))
  <2>1. chunks' = Append(chunks, q) /\ start' = Len(data') /\ h' = 0
    BY <1>n, <1>2, <1>12 DEF TakeByte
  <2>2. n + 1 >= MinSize /\ (Hashed(b) = 0 \/ n + 1 >= MaxSize)
    BY <1>12 DEF Cuts
  <2>3. CutWell(q)
    <3>1. Len(q) \in MinSize .. MaxSize
      BY <1>0, <1>q, <1>n, <1>5, <2>2
    <3>2. WindowHash(q, Len(q)) = 0 \/ Len(q) = MaxSize
      <4>1. n + 1 \in Bits .. Len(q)
        BY <1>0, <1>q, <1>n, <2>2
      <4>2. WindowHash(q, n + 1) = g[n + 1]
        <5> HIDE DEF q, n
        <5> QED
          BY <1>q, <1>6, <4>1, HashOfWindow
      <4>3. n + 1 >= MaxSize => n + 1 = MaxSize
        BY <1>0, <1>n, <1>5
      <4> HIDE DEF q, n
      <4> QED
        BY <1>q, <1>6, <2>2, <4>2, <4>3
    <3>3. ASSUME NEW k \in MinSize .. Len(q) - 1 PROVE WindowHash(q, k) # 0
      <4>1. k \in Bits .. Len(q) /\ k \in MinSize .. n
        BY <1>0, <1>q, <1>n
      <4>2. WindowHash(q, k) = g[k]
        <5> HIDE DEF q, n
        <5> QED
          BY <1>q, <1>6, <4>1, HashOfWindow
      <4> QED
        BY <1>7, <4>1, <4>2
    <3> QED
      BY <3>1, <3>2, <3>3 DEF CutWell
  <2> HIDE DEF q
  <2>4. q # <<>> /\ Len(q) <= MaxSize
    BY <1>0, <1>q, <1>n, <1>5
  <2>5. /\ FlattenSeq(chunks') = SubSeq(data, 1, start) \o q
        /\ <<>> \notin ToSet(chunks')
        /\ chunks' \in Seq(Seq(Nat)) /\ Len(chunks') = Len(chunks) + 1
        /\ chunks'[Len(chunks) + 1] = q
        /\ \A i \in 1 .. Len(chunks) : chunks'[i] = chunks[i]
    <3>1. chunks \in Seq(Seq(Nat)) /\ q \in Seq(Nat) /\ q # <<>> /\ <<>> \notin ToSet(chunks)
      BY <1>0, <1>q, <1>8, <2>4
    <3>2. /\ FlattenSeq(Append(chunks, q)) = FlattenSeq(chunks) \o q
          /\ <<>> \notin ToSet(Append(chunks, q))
          /\ Append(chunks, q) \in Seq(Seq(Nat)) /\ Len(Append(chunks, q)) = Len(chunks) + 1
          /\ Append(chunks, q)[Len(chunks) + 1] = q
          /\ \A i \in 1 .. Len(chunks) : Append(chunks, q)[i] = chunks[i]
      BY <3>1, TilesOneMore
    <3> QED
      BY <1>8, <2>1, <3>2
  <2>6. SubSeq(data', 1, start) \o q = data'
    <3>1. start \in 0 .. Len(data')
      BY <1>0, <1>t
    <3> QED
      BY <1>2, <1>t, <3>1, CutInTwo
  <2>7. ChunkerTypes'
    <3>1. Len(data') \in 0 .. Len(data')
      BY <1>0, <1>t
    <3> QED
      BY <1>0, <1>t, <2>1, <2>5, <3>1 DEF ChunkerTypes
  <2>8. Tiles'
    <3>1. SubSeq(data', 1, start') = data'
      BY <1>t, <2>1, SubSeqFull
    <3> QED
      BY <1>0, <1>9, <2>5, <2>6, <3>1 DEF Tiles
  <2>9. ChunksCut'
    <3>1. ASSUME NEW i \in DOMAIN chunks'
          PROVE  chunks'[i] # <<>> /\ Len(chunks'[i]) <= MaxSize /\ CutWell(chunks'[i])
      <4>1. CASE i = Len(chunks) + 1
        BY <2>3, <2>4, <2>5, <4>1
      <4>2. CASE i # Len(chunks) + 1
        <5>1. i \in 1 .. Len(chunks) /\ i \in DOMAIN chunks
          <6>1. DOMAIN chunks' = 1 .. Len(chunks) + 1 /\ DOMAIN chunks = 1 .. Len(chunks)
                /\ Len(chunks) \in Nat
            BY <1>0, <2>5
          <6> QED
            BY <4>2, <6>1
        <5> QED
          BY <1>3, <1>10, <2>5, <5>1 DEF ChunksCut
      <4> QED
        BY <4>1, <4>2
    <3>2. \A i \in DOMAIN chunks' : chunks'[i] # <<>> /\ Len(chunks'[i]) <= MaxSize
      BY <3>1
    <3>3. \A i \in Whole' : CutWell(chunks'[i])
      BY <1>10, <3>1
    <3> QED
      BY <3>2, <3>3 DEF ChunksCut, CutWell
  <2>10. HashTracks'
    <3>1. Part' = <<>>
      BY <1>t, <2>1 DEF Part
    <3>2. MinSize .. 0 = {} /\ 0 < MaxSize /\ Len(<<>>) = 0
      BY <1>0
    <3>3. \E e : /\ Rolls(e, <<>>) /\ 0 = e[0]
                 /\ \A k \in MinSize .. 0 : e[k] # 0
      BY <3>2, NothingRolled
    <3> QED
      BY <2>1, <3>1, <3>2, <3>3 DEF HashTracks
  <2> QED
    BY <2>7, <2>8, <2>9, <2>10 DEF ChunkerInv
<1> QED
  BY <1>11, <1>12

\* The end of the data.
LEMMA EndInv ==
    ASSUME ChunkerInv, End
    PROVE  ChunkerInv'
<1>0. /\ data \in Seq(Nat) /\ start \in 0 .. Len(data) /\ Len(data) \in Nat
      /\ chunks \in Seq(Seq(Nat)) /\ ended = FALSE /\ ended' = TRUE
      /\ data' = data /\ start' = start /\ h' = h /\ MaxSize \in Nat
  BY ChunkerAssumption DEF ChunkerInv, ChunkerTypes, End
<1>1. HashTracks /\ Tiles /\ ChunksCut
  BY <1>0 DEF ChunkerInv
<1>2. FlattenSeq(chunks) = SubSeq(data, 1, start) /\ <<>> \notin ToSet(chunks)
  BY <1>0, <1>1 DEF Tiles
<1>3. /\ Part \in Seq(Nat) /\ Len(Part) = Len(data) - start /\ Len(Part) < MaxSize
      /\ SubSeq(data, 1, start) \o Part = data
  BY <1>0, <1>1, CutInTwo DEF Part, HashTracks
<1>4. Whole = DOMAIN chunks /\ DOMAIN chunks = 1 .. Len(chunks) /\ Len(chunks) \in Nat
  <2>1. DOMAIN chunks = 1 .. Len(chunks) /\ Len(chunks) \in Nat
    BY <1>0
  <2> QED
    BY <1>0, <2>1 DEF Whole
<1>5. \A i \in DOMAIN chunks : chunks[i] # <<>> /\ Len(chunks[i]) <= MaxSize /\ CutWell(chunks[i])
  BY <1>1, <1>4 DEF ChunksCut
<1>6. CASE Remains
  <2>1. chunks' = Append(chunks, Part)
    BY <1>6 DEF End, Part
  <2>2. Part # <<>>
    <3>1. Len(Part) # 0
      BY <1>0, <1>3, <1>6 DEF Remains
    <3> QED
      BY <3>1
  <2>3. /\ FlattenSeq(chunks') = SubSeq(data, 1, start) \o Part
        /\ <<>> \notin ToSet(chunks')
        /\ chunks' \in Seq(Seq(Nat)) /\ Len(chunks') = Len(chunks) + 1
        /\ chunks'[Len(chunks) + 1] = Part
        /\ \A i \in 1 .. Len(chunks) : chunks'[i] = chunks[i]
    <3>1. chunks \in Seq(Seq(Nat)) /\ Part \in Seq(Nat) /\ Part # <<>> /\ <<>> \notin ToSet(chunks)
      BY <1>0, <1>2, <1>3, <2>2
    <3>2. /\ FlattenSeq(Append(chunks, Part)) = FlattenSeq(chunks) \o Part
          /\ <<>> \notin ToSet(Append(chunks, Part))
          /\ Append(chunks, Part) \in Seq(Seq(Nat))
          /\ Len(Append(chunks, Part)) = Len(chunks) + 1
          /\ Append(chunks, Part)[Len(chunks) + 1] = Part
          /\ \A i \in 1 .. Len(chunks) : Append(chunks, Part)[i] = chunks[i]
      BY <3>1, TilesOneMore
    <3> QED
      BY <1>2, <2>1, <3>2
  <2>4. ChunkerTypes'
    BY <1>0, <2>3 DEF ChunkerTypes
  <2>5. Tiles'
    BY <1>0, <1>3, <2>3 DEF Tiles
  <2>6. ChunksCut'
    <3>1. DOMAIN chunks' = 1 .. Len(chunks) + 1
      BY <2>3
    <3>2. ASSUME NEW i \in DOMAIN chunks'
          PROVE  /\ chunks'[i] # <<>> /\ Len(chunks'[i]) <= MaxSize
                 /\ i < Len(chunks') => CutWell(chunks'[i])
      <4>1. CASE i = Len(chunks) + 1
        <5>1. ~ (i < Len(chunks')) /\ chunks'[i] = Part
          BY <1>4, <2>3, <4>1
        <5>2. Len(Part) <= MaxSize
          BY <1>0, <1>3
        <5> QED
          BY <2>2, <5>1, <5>2
      <4>2. CASE i # Len(chunks) + 1
        <5>1. i \in 1 .. Len(chunks)
          BY <1>4, <3>1, <4>2
        <5> QED
          BY <1>4, <1>5, <2>3, <5>1
      <4> QED
        BY <4>1, <4>2
    <3>3. \A i \in DOMAIN chunks' : chunks'[i] # <<>> /\ Len(chunks'[i]) <= MaxSize
      BY <3>2
    <3>4. \A i \in Whole' : CutWell(chunks'[i])
      BY <1>0, <3>2 DEF Whole
    <3> QED
      BY <3>3, <3>4 DEF ChunksCut, CutWell
  <2> QED
    BY <1>0, <2>4, <2>5, <2>6 DEF ChunkerInv
<1>7. CASE ~ Remains
  <2>1. chunks' = chunks
    BY <1>7 DEF End
  <2>2. start = Len(data)
    BY <1>0, <1>7 DEF Remains
  <2>3. ChunkerTypes'
    BY <1>0, <2>1 DEF ChunkerTypes
  <2>4. Tiles'
    BY <1>0, <1>2, <2>1, <2>2, SubSeqFull DEF Tiles
  <2>5. ChunksCut'
    <3>1. \A i \in DOMAIN chunks' : chunks'[i] # <<>> /\ Len(chunks'[i]) <= MaxSize
      BY <1>5, <2>1
    <3>2. Whole' \subseteq DOMAIN chunks
      BY <2>1 DEF Whole
    <3>3. \A i \in Whole' : CutWell(chunks'[i])
      BY <1>5, <2>1, <3>2
    <3> QED
      BY <3>1, <3>3 DEF ChunksCut, CutWell
  <2> QED
    BY <1>0, <2>3, <2>4, <2>5 DEF ChunkerInv
<1> QED
  BY <1>6, <1>7

\* Every step keeps the chunker's invariant.
LEMMA ChunkerNextInv ==
    ASSUME ChunkerInv, [ChunkerNext]_chunkerVars
    PROVE  ChunkerInv'
<1>1. ASSUME NEW b \in Bytes, TakeByte(b) PROVE ChunkerInv'
  BY <1>1, TakeByteInv
<1>2. CASE End
  BY <1>2, EndInv
<1>3. CASE UNCHANGED chunkerVars
  <2> USE <1>3 DEF chunkerVars
  <2>1. ChunkerTypes'
    BY DEF ChunkerInv, ChunkerTypes
  <2>2. Tiles'
    BY DEF ChunkerInv, Tiles
  <2>3. ChunksCut'
    <3>1. ChunksCut /\ Whole' = Whole /\ chunks' = chunks
      BY DEF ChunkerInv, Whole
    <3> QED
      BY <3>1 DEF ChunksCut, CutWell
  <2>4. ~ ended' => HashTracks'
    BY DEF ChunkerInv, HashTracks, Part
  <2> QED
    BY <2>1, <2>2, <2>3, <2>4 DEF ChunkerInv
<1> QED
  BY <1>1, <1>2, <1>3 DEF ChunkerNext

\* How many fixed chunks there are: the least number that covers the data.
LEMMA StartsCounted ==
    ASSUME NEW s \in Seq(Nat)
    PROVE  /\ Cardinality(Starts(s)) \in Nat
           /\ Len(s) <= FixedSize * Cardinality(Starts(s))
           /\ Cardinality(Starts(s)) # 0 => FixedSize * (Cardinality(Starts(s)) - 1) < Len(s)
<1>0. FixedSize \in Nat \ {0} /\ Len(s) \in Nat
  BY ChunkerAssumption
<1>1. PICK z \in Nat \ {0}, n \in Nat : z = FixedSize /\ n = Len(s)
  BY <1>0
<1>2. PICK c \in Nat : n <= z * c /\ (c # 0 => z * (c - 1) < n)
  <2>1. CASE n = 0
    BY <1>1, <2>1
  <2>2. CASE n # 0
    <3>1. PICK d \in Nat, r \in 0 .. z - 1 : n - 1 = d * z + r
      <4>1. PICK m \in Nat : m = n - 1
        BY <1>1, <2>2
      <4>2. m \div z \in Nat /\ m % z \in 0 .. z - 1 /\ m = (m \div z) * z + (m % z)
        BY <1>1, <4>1
      <4> QED
        BY <4>1, <4>2
    <3>2. z * (d + 1) = d * z + z /\ z * d = d * z
      BY <1>1, <3>1
    <3>3. PICK e \in Nat : e = d * z
      BY <1>1, <3>1
    <3>4. n <= e + z /\ e < n
      BY <1>1, <3>1, <3>3
    <3>5. n <= z * (d + 1) /\ z * ((d + 1) - 1) < n
      <4>1. (d + 1) - 1 = d
        BY <3>1
      <4> QED
        BY <3>2, <3>3, <3>4, <4>1
    <3>6. d + 1 \in Nat /\ d + 1 # 0
      BY <3>1
    <3> QED
      BY <3>5, <3>6
  <2> QED
    BY <2>1, <2>2
<1> DEFINE f == [i \in 1 .. c |-> z * (i - 1)]
<1>3. \A k \in Nat : z * (k + 1) = z * k + z
  BY <1>1
<1>4. f \in Bijection(1 .. c, Starts(s))
  <2>1. ASSUME NEW i \in 1 .. c PROVE f[i] \in Starts(s)
    <3>1. i - 1 \in Nat /\ c \in Nat /\ c # 0 /\ c - 1 \in Nat /\ i - 1 <= c - 1
      BY <1>2
    <3>2. z * (i - 1) \in Nat
      BY <1>1, <3>1
    <3>3. z * (i - 1) <= z * (c - 1)
      <4>1. PICK a \in Nat, b \in Nat, e \in Nat : a = i - 1 /\ b = c - 1 /\ b = a + e
        <5>1. (c - 1) - (i - 1) \in Nat /\ c - 1 = (i - 1) + ((c - 1) - (i - 1))
          BY <3>1
        <5> QED
          BY <3>1, <5>1
      <4>2. z * b = z * a + z * e /\ z * e \in Nat /\ z * a \in Nat
        BY <1>1, <4>1
      <4> QED
        BY <4>1, <4>2
    <3>4. z * (i - 1) < n
      <4>1. z * (c - 1) \in Nat /\ z * (c - 1) < n
        BY <1>1, <1>2, <3>1
      <4> QED
        BY <1>1, <3>2, <3>3, <4>1
    <3>5. (z * (i - 1)) % z = 0
      <4>1. PICK a \in Nat : a = i - 1
        BY <3>1
      <4>2. PICK m \in Int : m = z * a
        BY <1>1, <4>1
      <4>3. z \in Nat \ {0} /\ a \in Int /\ m = a * z + 0 /\ 0 \in 0 .. z - 1
        BY <1>1, <4>1, <4>2
      <4>4. m % z = 0
        BY <4>2, <4>3
      <4> QED
        BY <4>1, <4>2, <4>4
    <3>6. z * (i - 1) \in 0 .. Len(s) - 1
      BY <1>1, <3>2, <3>4
    <3> QED
      BY <1>1, <3>5, <3>6 DEF Starts
  <2>2. ASSUME NEW i \in 1 .. c, NEW j \in 1 .. c, f[i] = f[j] PROVE i = j
    <3>1. PICK a \in Nat, b \in Nat : a = i - 1 /\ b = j - 1 /\ z * a = z * b
      BY <1>2, <2>2
    <3>2. a = b
      BY <1>1, <3>1
    <3> QED
      BY <3>1, <3>2
  <2>3. ASSUME NEW t \in Starts(s) PROVE \E i \in 1 .. c : f[i] = t
    <3>1. t \in Nat /\ t < n /\ t % z = 0
      BY <1>1 DEF Starts
    <3>2. PICK d \in Nat : t = d * z
      <4>1. z \in Nat \ {0} /\ t \in Nat /\ t % z = 0
        BY <1>1, <3>1
      <4>2. t \div z \in Nat /\ t = (t \div z) * z + (t % z)
        BY <4>1
      <4>3. PICK d \in Nat : d = t \div z
        BY <4>2
      <4>4. t = d * z + 0
        BY <4>1, <4>2, <4>3
      <4>5. d * z + 0 = d * z
        BY <4>1, <4>3
      <4> QED
        BY <4>3, <4>4, <4>5
    <3>3. d < c
      <4>1. SUFFICES ASSUME d >= c PROVE FALSE
        BY <1>2, <3>2
      <4>2. PICK e \in Nat : d = c + e
        <5>1. d - c \in Nat /\ d = c + (d - c)
          BY <1>2, <3>2, <4>1
        <5> QED
          BY <5>1
      <4>3. d * z = z * c + z * e /\ z * e \in Nat /\ z * c \in Nat
        BY <1>1, <1>2, <4>2
      <4>4. PICK u \in Nat, v \in Nat : u = z * c /\ v = z * e
        BY <4>3
      <4>5. t = u + v /\ n <= u
        BY <1>2, <3>2, <4>3, <4>4
      <4> QED
        BY <1>1, <3>1, <4>4, <4>5
    <3>4. d + 1 \in 1 .. c /\ (d + 1) - 1 = d
      BY <1>2, <3>2, <3>3
    <3>5. f[d + 1] = z * d /\ z * d = d * z
      BY <1>1, <3>2, <3>4
    <3> QED
      BY <3>2, <3>4, <3>5
  <2> HIDE DEF f
  <2>4. f \in [1 .. c -> Starts(s)]
    BY <2>1 DEF f
  <2> QED
    BY <2>2, <2>3, <2>4 DEF Bijection, Injection, Surjection, IsInjective
<1>5. Cardinality(Starts(s)) = c
  <2>1. ExistsBijection(1 .. c, Starts(s))
    BY <1>4 DEF ExistsBijection
  <2> QED
    BY <1>2, <2>1, FS_CountingElements
<1> QED
  BY <1>1, <1>2, <1>5

\* Fixed chunks put together are the data, and all but the last are full.
LEMMA FixedTile ==
    ASSUME NEW s \in Seq(Nat)
    PROVE  /\ FlattenSeq(FixedChunks(s)) = s
           /\ \A i \in DOMAIN FixedChunks(s) :
                 IF i < Len(FixedChunks(s)) THEN Len(FixedChunks(s)[i]) = FixedSize
                                            ELSE Len(FixedChunks(s)[i]) \in 1 .. FixedSize
<1> DEFINE ff == FixedChunks(s)
<1>1. PICK z \in Nat \ {0}, n \in Nat, c \in Nat :
          z = FixedSize /\ n = Len(s) /\ c = Cardinality(Starts(s))
  <2>1. FixedSize \in Nat \ {0} /\ Len(s) \in Nat
    BY ChunkerAssumption
  <2>2. Cardinality(Starts(s)) \in Nat
    BY StartsCounted
  <2> QED
    BY <2>1, <2>2
<1>2. n <= z * c /\ (c # 0 => z * (c - 1) < n)
  BY <1>1, StartsCounted
<1> DEFINE e(k) == IF z * k < n THEN z * k ELSE n
<1>3. ASSUME NEW k \in 0 .. c - 1 PROVE z * k < n /\ z * k \in Nat
  <2>1. PICK a \in Nat : c - 1 = k + a
    <3>1. k \in Nat /\ (c - 1) - k \in Nat /\ c - 1 = k + ((c - 1) - k)
      BY <1>1
    <3> QED
      BY <3>1
  <2>2. k \in Nat /\ c # 0
    BY <1>1
  <2>3. z * (k + a) = z * k + z * a /\ z * a \in Nat /\ z * k \in Nat
    BY <1>1, <2>1, <2>2
  <2>4. PICK u \in Nat, v \in Nat : u = z * k /\ v = z * a
    BY <2>3
  <2>5. u + v < n
    BY <1>2, <2>1, <2>2, <2>3, <2>4
  <2> QED
    BY <1>1, <2>4, <2>5
<1>4. \A k \in 0 .. c - 1 : e(k) = z * k
  BY <1>3
<1>5. e(c) = n
  BY <1>1, <1>2
<1>6. ASSUME NEW k \in 0 .. c PROVE e(k) \in 0 .. n
  <2>1. k \in Nat /\ z * k \in Nat
    BY <1>1
  <2> QED
    BY <1>1, <2>1
<1>7. ASSUME NEW k \in 1 .. c
      PROVE  /\ e(k - 1) = z * (k - 1) /\ e(k - 1) < e(k)
             /\ IF k < c THEN e(k) = e(k - 1) + z
                         ELSE e(k) = n /\ n <= e(k - 1) + z
  <2>1. k - 1 \in 0 .. c - 1 /\ k \in Nat /\ c # 0
    BY <1>1
  <2>2. e(k - 1) = z * (k - 1) /\ z * (k - 1) < n /\ z * (k - 1) \in Nat
    BY <1>3, <1>4, <2>1
  <2>3. z * k = z * (k - 1) + z
    BY <1>1, <2>1
  <2>4. CASE k < c
    <3>1. k \in 0 .. c - 1
      BY <2>1, <2>4, <1>1
    <3>2. e(k) = z * k
      BY <1>4, <3>1
    <3> HIDE DEF e
    <3>3. PICK u \in Nat : u = z * (k - 1)
      BY <2>2
    <3> QED
      BY <1>1, <2>2, <2>3, <2>4, <3>2, <3>3
  <2>5. CASE ~ (k < c)
    <3>1. k = c
      BY <1>1, <2>1, <2>5
    <3>2. e(k) = n /\ n <= z * k
      BY <1>2, <1>5, <3>1
    <3> HIDE DEF e
    <3>3. PICK u \in Nat : u = z * (k - 1)
      BY <2>2
    <3> QED
      BY <1>1, <2>2, <2>3, <2>5, <3>2, <3>3
  <2> QED
    BY <2>4, <2>5
<1> HIDE DEF e
<1>8. /\ ff = [i \in 1 .. c |-> SubSeq(s, z * (i - 1) + 1, IF z * i < n THEN z * i ELSE n)]
      /\ Len(ff) = c /\ DOMAIN ff = 1 .. c
  BY <1>1 DEF FixedChunks
<1> HIDE DEF ff
<1>9. ASSUME NEW i \in 1 .. c
      PROVE  /\ ff[i] = SubSeq(s, e(i - 1) + 1, e(i))
             /\ ff[i] \in Seq(Nat) /\ Len(ff[i]) = e(i) - e(i - 1)
  <2>1. ff[i] = SubSeq(s, e(i - 1) + 1, e(i))
    BY <1>7, <1>8 DEF e
  <2>2. i - 1 \in 0 .. c /\ i \in 0 .. c
    BY <1>1
  <2>3. PICK u \in Nat, v \in Nat : u = e(i - 1) /\ v = e(i) /\ u < v /\ v <= n
    BY <1>6, <1>7, <2>2
  <2>4. \A j \in u + 1 .. v : s[j] \in Nat
    BY <1>1, <2>3
  <2>5. SubSeq(s, u + 1, v) \in Seq(Nat) /\ Len(SubSeq(s, u + 1, v)) = v - (u + 1) + 1
    BY <2>3, <2>4, SubSeqProperties
  <2>6. v - (u + 1) + 1 = v - u
    BY <2>3
  <2> QED
    BY <2>1, <2>3, <2>5, <2>6
<1>10. ff \in Seq(Seq(Nat))
  <2>1. ff \in [1 .. c -> Seq(Nat)]
    BY <1>8, <1>9
  <2> QED
    BY <1>1, <2>1
<1>11. FlattenSeq(ff) = s
  <2> DEFINE f == [k \in 0 .. c |-> SubSeq(s, 1, e(k))]
  <2>1. ASSUME NEW k \in 0 .. c PROVE SubSeq(s, 1, e(k)) \in Seq(Nat)
    <3>1. PICK v \in Nat : v = e(k) /\ v <= n
      BY <1>6
    <3>2. \A j \in 1 .. v : s[j] \in Nat
      BY <1>1, <3>1
    <3> QED
      BY <3>1, <3>2, SubSeqProperties
  <2>2. f \in [0 .. Len(ff) -> Seq(Nat)]
    BY <1>8, <2>1
  <2>3. e(0) = 0
    <3>1. z * 0 = 0
      BY <1>1
    <3> QED
      BY <1>1, <3>1 DEF e
  <2>4. f[0] = <<>>
    <3>1. 0 \in 0 .. c
      BY <1>1
    <3>2. SubSeq(s, 1, 0) = <<>>
      BY SubSeqEmpty
    <3> QED
      BY <2>3, <3>1, <3>2
  <2>5. ASSUME NEW k \in 1 .. c PROVE f[k] = f[k - 1] \o ff[k]
    <3>1. k - 1 \in 0 .. c /\ k \in 0 .. c
      BY <1>1
    <3>2. PICK u \in Nat, v \in Nat : u = e(k - 1) /\ v = e(k) /\ u < v /\ v <= n
      BY <1>6, <1>7, <3>1
    <3>3. 1 \in 1 .. Len(s) + 1 /\ u \in 1 - 1 .. Len(s) /\ v \in u .. Len(s)
      BY <1>1, <3>2
    <3>4. SubSeq(s, 1, u) \o SubSeq(s, u + 1, v) = SubSeq(s, 1, v)
      BY <3>3, ConcatAdjacentSubSeq
    <3> QED
      BY <1>9, <3>1, <3>2, <3>4
  <2> HIDE DEF f
  <2>6. Flattens(f, ff)
    BY <1>8, <2>4, <2>5 DEF Flattens
  <2>7. FlattenSeq(ff) = f[Len(ff)]
    BY <1>10, <2>2, <2>6, FlattenIs
  <2>8. f[c] = SubSeq(s, 1, n)
    BY <1>1, <1>5 DEF f
  <2> QED
    BY <1>1, <1>8, <2>7, <2>8, SubSeqFull
<1>12. ASSUME NEW i \in 1 .. c
       PROVE  IF i < c THEN Len(ff[i]) = z ELSE Len(ff[i]) \in 1 .. z
  <2>1. i - 1 \in 0 .. c /\ i \in 0 .. c
    BY <1>1
  <2>2. PICK u \in Nat, v \in Nat : u = e(i - 1) /\ v = e(i) /\ u < v
    BY <1>6, <1>7, <2>1
  <2>3. Len(ff[i]) = v - u
    BY <1>9, <2>2
  <2>4. IF i < c THEN v = u + z ELSE v <= u + z
    BY <1>7, <2>2
  <2> QED
    BY <1>1, <2>2, <2>3, <2>4
<1> QED
  BY <1>1, <1>8, <1>11, <1>12 DEF ff

\* The chunkers, for every alphabet of bytes, target and bounds: the chunks tile
\* the data, their sizes are within the bounds, a boundary depends on the bytes
\* before it only, and fixed chunks tile the data too (cdc_chunks, fixed_chunks).
THEOREM ChunksTileTheData == ChunkerSpec => []ChunksTile
<1>1. ChunkerInv => ChunksTile
  <2> SUFFICES ASSUME ChunkerInv PROVE ChunksTile
    OBVIOUS
  <2>1. Whole \subseteq DOMAIN chunks
    BY DEF Whole
  <2>2. Tiles /\ ChunksCut /\ data \in Seq(Nat) /\ Whole \subseteq DOMAIN chunks
    BY <2>1 DEF ChunkerInv, ChunkerTypes
  <2>3. SizesInBounds
    BY <2>2 DEF SizesInBounds, ChunksCut, CutWell
  <2>4. CutsByContent
    BY <2>2 DEF CutsByContent, ChunksCut, CutWell
  <2>5. FixedChunksTile
    BY <2>2, FixedTile DEF FixedChunksTile
  <2> QED
    BY <2>2, <2>3, <2>4, <2>5 DEF ChunksTile
<1> QED
  BY <1>1, ChunkerInitInv, ChunkerNextInv, PTL DEF ChunkerSpec

-----------------------------------------------------------------------------
(* The key schedule.                                                       *)

\* A sequence is p, a separator with the label l, and x.
Separated(s, p, l, x) ==
    /\ Len(s) = Len(p) + 2 + Len(x)
    /\ \A i \in 1 .. Len(p) : s[i] = p[i]
    /\ s[Len(p) + 1] = "|" /\ s[Len(p) + 2] = l
    /\ \A j \in 1 .. Len(x) : s[Len(p) + 2 + j] = x[j]

LEMMA SeparatedIs ==
    ASSUME NEW U, NEW l \in U, "|" \in U, NEW p \in Seq(U), NEW x \in Seq(U)
    PROVE  /\ (p \o <<"|", l>>) \o x \in Seq(U)
           /\ Separated((p \o <<"|", l>>) \o x, p, l, x)
<1> DEFINE d == <<"|", l>>
           v == p \o d
<1>0. d \in Seq(U)
  OBVIOUS
<1>1. Len(d) = 2 /\ d[1] = "|" /\ d[2] = l
  OBVIOUS
<1> HIDE DEF d
<1>2. v \in Seq(U)
  BY <1>0
<1>3. Len(v) = Len(p) + 2
  <2>1. Len(v) = Len(p) + Len(d)
    BY <1>0
  <2> HIDE DEF v
  <2> QED
    BY <1>1, <2>1
<1>4. \A i \in 1 .. Len(p) : v[i] = p[i]
  BY <1>0
<1>5. v[Len(p) + 1] = "|" /\ v[Len(p) + 2] = l
  <2>1. \A j \in 1 .. Len(d) : v[Len(p) + j] = d[j]
    BY <1>0
  <2> HIDE DEF v
  <2> QED
    BY <1>1, <2>1
<1> HIDE DEF v
<1>6. v \o x \in Seq(U)
  BY <1>2
<1>7. Len(v \o x) = Len(p) + 2 + Len(x)
  BY <1>2, <1>3
<1>8. \A i \in 1 .. Len(p) + 2 : (v \o x)[i] = v[i]
  BY <1>2, <1>3
<1>9. \A j \in 1 .. Len(x) : (v \o x)[Len(p) + 2 + j] = x[j]
  BY <1>2, <1>3
<1>10. Separated(v \o x, p, l, x)
  <2>1. Len(p) \in Nat
    OBVIOUS
  <2> QED
    BY <2>1, <1>4, <1>5, <1>7, <1>8, <1>9 DEF Separated
<1> QED
  BY <1>6, <1>10 DEF v, d

\* What stands before the last separator cannot end earlier in one reading
\* than in another: the label would be a separator, or a field hold one.
LEMMA SeparatorNotEarlier ==
    ASSUME NEW l, l # "|", NEW s, NEW p, NEW q, NEW x \in Printed,
           NEW y \in Printed, Len(p) \in Nat, Len(q) \in Nat,
           Separated(s, p, l, x), Separated(s, q, l, y)
    PROVE  ~ (Len(p) < Len(q))
<1> SUFFICES ASSUME Len(p) < Len(q) PROVE FALSE
  OBVIOUS
<1>1. s[Len(q) + 1] = "|" /\ s[Len(p) + 2] = l
  BY DEF Separated
<1>2. CASE Len(q) = Len(p) + 1
  <2>1. Len(q) + 1 = Len(p) + 2
    BY <1>2
  <2> QED
    BY <1>1, <2>1
<1>3. CASE Len(q) # Len(p) + 1
  <2> DEFINE j == (Len(q) + 1) - (Len(p) + 2)
  <2>1. Len(p) + 2 + Len(x) = Len(q) + 2 + Len(y)
    BY DEF Separated
  <2>2. Len(x) \in Nat /\ Len(y) \in Nat
    BY DEF Printed
  <2>3. j \in 1 .. Len(x) /\ Len(p) + 2 + j = Len(q) + 1
    BY <1>3, <2>1, <2>2
  <2> HIDE DEF j
  <2>4. s[Len(p) + 2 + j] = x[j] /\ x[j] # "|"
    BY <2>3 DEF Separated, Printed
  <2>5. x[j] = "|"
    BY <1>1, <2>3, <2>4
  <2> QED
    BY <2>4, <2>5
<1> QED
  BY <1>2, <1>3

\* Two readings that divide a sequence at the same place are the same.
LEMMA SameCut ==
    ASSUME NEW U, NEW l, NEW s,
           NEW p \in Seq(U), NEW q \in Seq(U), NEW x \in Seq(U), NEW y \in Seq(U),
           Separated(s, p, l, x), Separated(s, q, l, y), Len(p) = Len(q)
    PROVE  p = q /\ x = y
<1>1. Len(p) \in Nat /\ Len(q) \in Nat /\ Len(x) \in Nat /\ Len(y) \in Nat
  OBVIOUS
<1>2. Len(x) = Len(y)
  BY <1>1 DEF Separated
<1>3. \A i \in 1 .. Len(p) : p[i] = q[i]
  BY DEF Separated
<1>4. \A j \in 1 .. Len(x) : x[j] = y[j]
  BY <1>2 DEF Separated
<1>5. p = q
  BY <1>3, SeqEqual
<1>6. x = y
  BY <1>2, <1>4, SeqEqual
<1> QED
  BY <1>5, <1>6

\* What stands before the last separator, and what stands after it, are known
\* from the whole.
LEMMA LastSeparator ==
    ASSUME NEW U, Characters \subseteq U, NEW l, l # "|", NEW s,
           NEW p \in Seq(U), NEW q \in Seq(U), NEW x \in Printed, NEW y \in Printed,
           Separated(s, p, l, x), Separated(s, q, l, y)
    PROVE  p = q /\ x = y
<1>1. Len(p) \in Nat /\ Len(q) \in Nat
  OBVIOUS
<1>2. ~ (Len(p) < Len(q)) /\ ~ (Len(q) < Len(p))
  BY <1>1, SeparatorNotEarlier
<1>3. x \in Seq(U) /\ y \in Seq(U)
  BY DEF Printed
<1> QED
  BY <1>1, <1>2, <1>3, SameCut

LEMMA PlaceAmong ==
    ASSUME NEW a \in Nat, NEW b \in Nat, NEW i \in Nat
    PROVE  i <= a \/ i = a + 1 \/ i = a + 2 \/ (i > a + 2 /\ i <= b)
               \/ i = b + 1 \/ i = b + 2 \/ i > b + 2
OBVIOUS

LEMMA SameOfTwo ==
    ASSUME NEW a \in Nat, NEW b \in Nat, NEW c \in Nat, NEW d \in Nat,
           a < b, c < d, c + 1 \in {a + 1, b + 1}, d + 1 \in {a + 1, b + 1}
    PROVE  a = c /\ b = d
OBVIOUS

\* A sequence that is a beginning without separators and two fields without
\* separators, and in another reading has two fields after some beginning,
\* is divided at the same places in both.
LEMMA TwoSeparators ==
    ASSUME NEW k, k # "|", NEW l, l # "|", NEW s,
           NEW p, NEW r, NEW x \in Printed, NEW y \in Printed,
           NEW q, NEW t, NEW v, NEW w,
           Len(p) \in Nat, Len(q) \in Nat, Len(r) \in Nat, Len(t) \in Nat,
           Len(v) \in Nat, Len(w) \in Nat,
           \A i \in 1 .. Len(p) : p[i] # "|",
           Separated(r, p, k, x), Separated(s, r, l, y),
           Separated(t, q, k, v), Separated(s, t, l, w)
    PROVE  Len(p) = Len(q) /\ Len(r) = Len(t)
<1>1. Len(x) \in Nat /\ Len(y) \in Nat
      /\ (\A i \in 1 .. Len(x) : x[i] # "|") /\ (\A i \in 1 .. Len(y) : y[i] # "|")
  BY DEF Printed
<1>2. /\ Len(r) = Len(p) + 2 + Len(x) /\ Len(s) = Len(r) + 2 + Len(y)
      /\ Len(t) = Len(q) + 2 + Len(v) /\ Len(s) = Len(t) + 2 + Len(w)
  BY DEF Separated
<1>3. ASSUME NEW i \in 1 .. Len(s), s[i] = "|"
      PROVE  i = Len(p) + 1 \/ i = Len(r) + 1
  <2>1. CASE i <= Len(p)
    <3>1. i \in 1 .. Len(r) /\ i \in 1 .. Len(p)
      BY <1>1, <1>2, <2>1
    <3>2. s[i] = r[i] /\ r[i] = p[i] /\ p[i] # "|"
      BY <3>1 DEF Separated
    <3> QED
      BY <1>3, <3>2
  <2>2. CASE i = Len(p) + 2
    <3>1. i \in 1 .. Len(r)
      BY <1>1, <1>2, <2>2
    <3>2. s[i] = r[i] /\ r[i] = k
      BY <2>2, <3>1 DEF Separated
    <3> QED
      BY <1>3, <3>2
  <2>3. CASE i > Len(p) + 2 /\ i <= Len(r)
    <3> DEFINE j == i - (Len(p) + 2)
    <3>1. i \in 1 .. Len(r) /\ j \in 1 .. Len(x) /\ Len(p) + 2 + j = i
      BY <1>1, <1>2, <2>3
    <3> HIDE DEF j
    <3>2. s[i] = r[i] /\ r[i] = x[j] /\ x[j] # "|"
      BY <1>1, <3>1 DEF Separated
    <3> QED
      BY <1>3, <3>2
  <2>4. CASE i = Len(r) + 2
    <3>1. s[i] = l
      BY <2>4 DEF Separated
    <3> QED
      BY <1>3, <3>1
  <2>5. CASE i > Len(r) + 2
    <3> DEFINE j == i - (Len(r) + 2)
    <3>1. j \in 1 .. Len(y) /\ Len(r) + 2 + j = i
      BY <1>1, <1>2, <2>5
    <3> HIDE DEF j
    <3>2. s[i] = y[j] /\ y[j] # "|"
      BY <1>1, <3>1 DEF Separated
    <3> QED
      BY <1>3, <3>2
  <2>6. i \in Nat
    OBVIOUS
  <2>7. i <= Len(p) \/ i = Len(p) + 1 \/ i = Len(p) + 2 \/ (i > Len(p) + 2 /\ i <= Len(r))
            \/ i = Len(r) + 1 \/ i = Len(r) + 2 \/ i > Len(r) + 2
    BY <2>6, PlaceAmong
  <2> QED
    BY <2>1, <2>2, <2>3, <2>4, <2>5, <2>7
<1>4. /\ Len(q) + 1 \in 1 .. Len(t) /\ Len(q) + 1 \in 1 .. Len(s)
      /\ Len(t) + 1 \in 1 .. Len(s)
  BY <1>1, <1>2
<1>5. s[Len(q) + 1] = "|" /\ s[Len(t) + 1] = "|"
  BY <1>4 DEF Separated
<1>6. Len(q) + 1 = Len(p) + 1 \/ Len(q) + 1 = Len(r) + 1
  BY <1>3, <1>4, <1>5
<1>7. Len(t) + 1 = Len(p) + 1 \/ Len(t) + 1 = Len(r) + 1
  BY <1>3, <1>4, <1>5
<1>8. Len(p) < Len(r) /\ Len(q) < Len(t)
  BY <1>1, <1>2
<1> DEFINE a == Len(p)
           b == Len(r)
           c == Len(q)
           d == Len(t)
<1>9. /\ a \in Nat /\ b \in Nat /\ c \in Nat /\ d \in Nat
      /\ a < b /\ c < d /\ c + 1 \in {a + 1, b + 1} /\ d + 1 \in {a + 1, b + 1}
  BY <1>6, <1>7, <1>8
<1> HIDE DEF a, b, c, d
<1>10. a = c /\ b = d
  BY <1>9, SameOfTwo
<1> QED
  BY <1>10 DEF a, b, c, d

\* The fields of a context whose texts hold no separator are known from what
\* context_info makes of it.
LEMMA ContextInfoInjective ==
    ASSUME NEW c \in Contexts, NEW d \in Contexts, Separable(c),
           ContextInfo(c) = ContextInfo(d)
    PROVE  c = d
<1> DEFINE U == Characters \cup {"|", "alpn=", "epoch=", "scope=", "conn=", "stream="}
           A(e) == <<"alpn=">> \o e.alpn
           E(e) == A(e) \o <<"|", "epoch=">> \o e.epoch
           S(e) == E(e) \o <<"|", "scope=">> \o e.scope
           C(e) == S(e) \o <<"|", "conn=">> \o e.connection
           W(e) == C(e) \o <<"|", "stream=">> \o e.stream
<1>1. ASSUME NEW e \in Contexts
      PROVE  /\ e.alpn \in Seq(Characters) /\ e.epoch \in Printed
             /\ e.scope \in Seq(Characters) /\ e.connection \in Printed
             /\ e.stream \in Printed
             /\ e = [alpn |-> e.alpn, epoch |-> e.epoch, scope |-> e.scope,
                     connection |-> e.connection, stream |-> e.stream]
  BY KeyAssumption
<1>2. Characters \subseteq U /\ {"|", "alpn=", "epoch=", "scope=", "conn=", "stream="} \subseteq U
  OBVIOUS
<1> HIDE DEF U
<1>3. Seq(Characters) \subseteq Seq(U) /\ Printed \subseteq Seq(U)
  BY <1>2 DEF Printed
<1>4. ASSUME NEW e \in Contexts
      PROVE  A(e) \in Seq(U) /\ E(e) \in Seq(U) /\ S(e) \in Seq(U) /\ C(e) \in Seq(U)
  <2>1. /\ e.alpn \in Seq(U) /\ e.epoch \in Seq(U) /\ e.scope \in Seq(U)
        /\ e.connection \in Seq(U)
    BY <1>1, <1>3
  <2>2. /\ <<"alpn=">> \in Seq(U) /\ <<"|", "epoch=">> \in Seq(U)
        /\ <<"|", "scope=">> \in Seq(U) /\ <<"|", "conn=">> \in Seq(U)
    BY <1>2
  <2>3. A(e) \in Seq(U)
    BY <2>1, <2>2, ConcatProperties
  <2> HIDE DEF A
  <2>4. E(e) \in Seq(U)
    BY <2>1, <2>2, <2>3, ConcatProperties
  <2> HIDE DEF E
  <2>5. S(e) \in Seq(U)
    BY <2>1, <2>2, <2>4, ConcatProperties
  <2> HIDE DEF S
  <2>6. C(e) \in Seq(U)
    BY <2>1, <2>2, <2>5, ConcatProperties
  <2> QED
    BY <2>3, <2>4, <2>5, <2>6
<1>5. W(c) = W(d)
  BY DEF ContextInfo
<1>6. C(c) = C(d) /\ c.stream = d.stream
  <2>1. "stream=" # "|" /\ "stream=" \in U /\ "|" \in U
    BY <1>2
  <2>2. C(c) \in Seq(U) /\ C(d) \in Seq(U)
        /\ c.stream \in Printed /\ d.stream \in Printed
        /\ c.stream \in Seq(U) /\ d.stream \in Seq(U)
    BY <1>1, <1>3, <1>4
  <2> HIDE DEF C
  <2>3. Separated(W(c), C(c), "stream=", c.stream) /\ Separated(W(d), C(d), "stream=", d.stream)
    BY <2>1, <2>2, SeparatedIs
  <2>4. Separated(W(c), C(d), "stream=", d.stream)
    BY <1>5, <2>3
  <2> HIDE DEF W
  <2> QED
    BY <1>2, <2>1, <2>2, <2>3, <2>4, LastSeparator
<1>7. S(c) = S(d) /\ c.connection = d.connection
  <2>1. "conn=" # "|" /\ "conn=" \in U /\ "|" \in U
    BY <1>2
  <2>2. S(c) \in Seq(U) /\ S(d) \in Seq(U)
        /\ c.connection \in Printed /\ d.connection \in Printed
        /\ c.connection \in Seq(U) /\ d.connection \in Seq(U)
    BY <1>1, <1>3, <1>4
  <2> HIDE DEF S
  <2>3. Separated(C(c), S(c), "conn=", c.connection) /\ Separated(C(d), S(d), "conn=", d.connection)
    BY <2>1, <2>2, SeparatedIs
  <2>4. Separated(C(c), S(d), "conn=", d.connection)
    BY <1>6, <2>3
  <2> HIDE DEF C
  <2> QED
    BY <1>2, <2>1, <2>2, <2>3, <2>4, LastSeparator
<1>8. ASSUME NEW e \in Contexts
      PROVE  /\ e.scope \in Seq(U) /\ e.epoch \in Seq(U)
             /\ Len(A(e)) \in Nat /\ Len(E(e)) \in Nat
             /\ Len(e.scope) \in Nat /\ Len(e.epoch) \in Nat
             /\ Separated(S(e), E(e), "scope=", e.scope)
             /\ Separated(E(e), A(e), "epoch=", e.epoch)
  <2>1. "scope=" \in U /\ "epoch=" \in U /\ "|" \in U
    BY <1>2
  <2>2. A(e) \in Seq(U) /\ E(e) \in Seq(U) /\ e.scope \in Seq(U) /\ e.epoch \in Seq(U)
    BY <1>1, <1>3, <1>4
  <2> HIDE DEF A
  <2>3. Separated(E(e), A(e), "epoch=", e.epoch)
    BY <2>1, <2>2, SeparatedIs
  <2> HIDE DEF E
  <2>4. Separated(S(e), E(e), "scope=", e.scope)
    BY <2>1, <2>2, SeparatedIs
  <2> QED
    BY <2>2, <2>3, <2>4
<1>9. Len(A(c)) = Len(A(d)) /\ Len(E(c)) = Len(E(d))
  <2>1. \A i \in 1 .. Len(A(c)) : A(c)[i] # "|"
    <3>1. c.alpn \in Seq(U) /\ <<"alpn=">> \in Seq(U)
      BY <1>1, <1>2, <1>3
    <3>2. \A i \in 1 .. Len(c.alpn) : c.alpn[i] # "|"
      BY DEF Separable, Printed
    <3>3. /\ Len(A(c)) = 1 + Len(c.alpn) /\ A(c)[1] = "alpn="
          /\ \A i \in 1 .. Len(c.alpn) : A(c)[1 + i] = c.alpn[i]
      BY <3>1
    <3>4. Len(c.alpn) \in Nat
      BY <3>1
    <3> HIDE DEF A
    <3>5. ASSUME NEW i \in 1 .. Len(A(c)), i # 1
          PROVE  A(c)[i] # "|"
      <4>1. i - 1 \in 1 .. Len(c.alpn) /\ 1 + (i - 1) = i
        BY <3>3, <3>4, <3>5
      <4>2. A(c)[1 + (i - 1)] = c.alpn[i - 1]
        BY <3>3, <4>1
      <4>3. c.alpn[i - 1] # "|"
        BY <3>2, <4>1
      <4> QED
        BY <4>1, <4>2, <4>3
    <3>6. A(c)[1] # "|"
      BY <3>3
    <3> QED
      BY <3>5, <3>6
  <2>2. c.scope \in Printed /\ c.epoch \in Printed
    BY <1>1 DEF Separable
  <2>3. S(c) = S(d)
    BY <1>7
  <2> HIDE DEF A, E, S
  <2>4. Separated(S(c), E(d), "scope=", d.scope)
    BY <1>8, <2>3
  <2> QED
    BY <1>8, <2>1, <2>2, <2>4, TwoSeparators
<1>10. E(c) = E(d) /\ c.scope = d.scope
  <2>1. E(c) \in Seq(U) /\ E(d) \in Seq(U) /\ S(c) = S(d)
    BY <1>4, <1>7
  <2> HIDE DEF E, S
  <2>2. Separated(S(c), E(d), "scope=", d.scope)
    BY <1>8, <2>1
  <2> QED
    BY <1>8, <1>9, <2>1, <2>2, SameCut
<1>11. A(c) = A(d) /\ c.epoch = d.epoch
  <2>1. A(c) \in Seq(U) /\ A(d) \in Seq(U) /\ E(c) = E(d)
    BY <1>4, <1>10
  <2> HIDE DEF A, E
  <2>2. Separated(E(c), A(d), "epoch=", d.epoch)
    BY <1>8, <2>1
  <2> QED
    BY <1>8, <1>9, <2>1, <2>2, SameCut
<1>12. c.alpn = d.alpn
  <2>1. <<"alpn=">> \in Seq(U) /\ c.alpn \in Seq(U) /\ d.alpn \in Seq(U)
    BY <1>1, <1>2, <1>3
  <2> QED
    BY <1>11, <2>1, ConcatSimplifications
<1> QED
  BY <1>1, <1>6, <1>7, <1>10, <1>11, <1>12

\* A block that can be divided: x of the k * n numbers from 1 on is in the
\* block of its quotient.
LEMMA PlaceInBlock ==
    ASSUME NEW n \in Nat \ {0}, NEW k \in Nat, NEW x \in 1 .. n * k
    PROVE  (x - 1) \div n + 1 \in 1 .. k /\ ((x - 1) % n) + 1 \in 1 .. n
<1>1. PICK q \in Int, r \in 0 .. n - 1 : x - 1 = n * q + r
  <2>1. (x - 1) \div n \in Int /\ (x - 1) % n \in 0 .. n - 1
        /\ x - 1 = n * ((x - 1) \div n) + ((x - 1) % n)
    OBVIOUS
  <2> QED
    BY <2>1
<1>2. (x - 1) \div n = q /\ (x - 1) % n = r
  <2>1. x - 1 \in Int /\ x - 1 = q * n + r
    BY <1>1
  <2> QED
    BY <2>1, RemainderIs
<1>3. n * k \in Nat /\ n * q \in Int /\ 0 <= n * q + r /\ n * q + r < n * k
  BY <1>1
<1>4. 0 <= q
  <2> SUFFICES ASSUME q <= -1 PROVE FALSE
    BY <1>1
  <2>1. n * q <= n * (-1)
    <3>1. n * (q + 1) <= 0
      OBVIOUS
    <3> QED
      BY <3>1
  <2> QED
    BY <1>1, <1>3, <2>1
<1>5. q < k
  <2> SUFFICES ASSUME k <= q PROVE FALSE
    BY <1>1
  <2>1. n * k <= n * q
    <3>1. 0 <= n * (q - k)
      OBVIOUS
    <3> QED
      BY <3>1
  <2> QED
    BY <1>1, <1>3, <2>1
<1> QED
  BY <1>1, <1>2, <1>4, <1>5

\* The bytes of the first k blocks of s.
BytesOf(s, k) ==
    [x \in 1 .. HashLen * k |-> <<s[(x - 1) \div HashLen + 1], ((x - 1) % HashLen) + 1>>]

\* One more block.
LEMMA BytesOfMore ==
    ASSUME NEW B, NEW s \in Seq(B), NEW k \in 1 .. Len(s)
    PROVE  /\ BytesOf(s, k - 1) \in Seq(B \X (1 .. HashLen))
           /\ BytesOf(s, k) \in Seq(B \X (1 .. HashLen))
           /\ BytesOf(s, k) =
                  BytesOf(s, k - 1) \o [j \in 1 .. HashLen |-> <<s[k], j>>]
<1>1. HashLen \in Nat \ {0} /\ k \in Nat /\ k - 1 \in Nat /\ k <= Len(s) /\ Len(s) \in Nat
  BY KeyAssumption
<1> DEFINE V == B \X (1 .. HashLen)
           e == [j \in 1 .. HashLen |-> <<s[k], j>>]
           a == BytesOf(s, k - 1)
           b == BytesOf(s, k)
<1>2. ASSUME NEW i \in Nat, i <= Len(s)
      PROVE  BytesOf(s, i) \in Seq(V) /\ Len(BytesOf(s, i)) = HashLen * i
  <2>1. HashLen * i \in Nat
    BY <1>1
  <2>2. ASSUME NEW x \in 1 .. HashLen * i
        PROVE  <<s[(x - 1) \div HashLen + 1], ((x - 1) % HashLen) + 1>> \in V
    <3>1. (x - 1) \div HashLen + 1 \in 1 .. i /\ ((x - 1) % HashLen) + 1 \in 1 .. HashLen
      BY <1>1, PlaceInBlock
    <3>2. \A y \in 1 .. i : s[y] \in B
      BY <1>1, <1>2
    <3> QED
      BY <3>1, <3>2
  <2> HIDE DEF V
  <2>3. BytesOf(s, i) \in [1 .. HashLen * i -> V]
    BY <2>2 DEF BytesOf
  <2> QED
    BY <2>1, <2>3
<1>3. e \in Seq(V) /\ Len(e) = HashLen
  <2>1. e \in [1 .. HashLen -> V]
    BY <1>1
  <2> HIDE DEF V
  <2> QED
    BY <1>1, <2>1
<1> HIDE DEF V
<1>4. a \in Seq(V) /\ Len(a) = HashLen * (k - 1) /\ b \in Seq(V) /\ Len(b) = HashLen * k
  BY <1>1, <1>2
<1>5. \A x \in 1 .. HashLen * (k - 1) : a[x] = <<s[(x - 1) \div HashLen + 1], ((x - 1) % HashLen) + 1>>
  BY DEF BytesOf
<1>6. \A x \in 1 .. HashLen * k : b[x] = <<s[(x - 1) \div HashLen + 1], ((x - 1) % HashLen) + 1>>
  BY DEF BytesOf
<1> HIDE DEF a, b
<1>15. \A j \in 1 .. HashLen : e[j] = <<s[k], j>>
  OBVIOUS
<1> HIDE DEF e
<1> DEFINE u == a \o e
<1>16. a \in Seq(V) /\ e \in Seq(V)
  BY <1>3, <1>4
<1>7. u \in Seq(V)
  BY <1>16
<1>8. Len(u) = Len(a) + Len(e)
  BY <1>16
<1>9. \A x \in 1 .. Len(a) : u[x] = a[x]
  BY <1>16
<1>10. \A j \in 1 .. Len(e) : u[Len(a) + j] = e[j]
  BY <1>16
<1> HIDE DEF u
<1>11. PICK p \in Nat : p = HashLen * (k - 1) /\ HashLen * k = p + HashLen /\ p = (k - 1) * HashLen
  BY <1>1
<1>12. Len(u) = Len(b)
  BY <1>3, <1>4, <1>8, <1>11
<1>13. ASSUME NEW x \in 1 .. Len(b) PROVE u[x] = b[x]
  <2>0. x \in 1 .. HashLen * k
    BY <1>4
  <2>1. CASE x <= p
    <3>1. x \in 1 .. HashLen * (k - 1) /\ x \in 1 .. Len(a)
      BY <1>4, <1>11, <2>1
    <3> QED
      BY <1>5, <1>6, <1>9, <2>0, <3>1
  <2>2. CASE ~ (x <= p)
    <3> DEFINE j == x - p
    <3>1. j \in 1 .. HashLen /\ j \in Int /\ x = p + j
      BY <1>1, <1>4, <1>11, <2>2
    <3> HIDE DEF j
    <3>2. j - 1 \in 0 .. HashLen - 1 /\ k - 1 \in Int /\ x - 1 \in Int
          /\ x - 1 = (k - 1) * HashLen + (j - 1)
      BY <1>1, <1>11, <3>1
    <3>3. (x - 1) % HashLen = j - 1 /\ (x - 1) \div HashLen = k - 1
      BY <1>1, <3>2, RemainderIs
    <3>4. b[x] = <<s[k], j>>
      <4>1. ((x - 1) % HashLen) + 1 = j /\ (x - 1) \div HashLen + 1 = k
        BY <1>1, <3>1, <3>3
      <4> QED
        BY <1>6, <2>0, <4>1
    <3>5. u[x] = e[j]
      BY <1>3, <1>4, <1>10, <1>11, <3>1
    <3>6. e[j] = <<s[k], j>>
      BY <1>15, <3>1
    <3> QED
      BY <3>4, <3>5, <3>6
  <2> QED
    BY <2>1, <2>2
<1>14. u = b
  BY <1>4, <1>7, <1>12, <1>13, SeqEqual
<1> QED
  BY <1>4, <1>14 DEF u, a, b, e, V

\* The bytes of some blocks, each at its place.
LEMMA JoinedIs ==
    ASSUME NEW B, NEW s \in Seq(B)
    PROVE  Joined(s) = BytesOf(s, Len(s))
<1> DEFINE V == B \X (1 .. HashLen)
           ss == [i \in DOMAIN s |-> [j \in 1 .. HashLen |-> <<s[i], j>>]]
           f == [k \in 0 .. Len(s) |-> BytesOf(s, k)]
<1>0. HashLen \in Nat \ {0} /\ Len(s) \in Nat /\ DOMAIN s = 1 .. Len(s)
  BY KeyAssumption
<1>1. ss \in Seq(Seq(V)) /\ Len(ss) = Len(s)
  <2>1. ASSUME NEW i \in 1 .. Len(s) PROVE [j \in 1 .. HashLen |-> <<s[i], j>>] \in Seq(V)
    <3>1. s[i] \in B
      BY <1>0
    <3>2. [j \in 1 .. HashLen |-> <<s[i], j>>] \in [1 .. HashLen -> V]
      BY <3>1
    <3> HIDE DEF V
    <3> QED
      BY <1>0, <3>2
  <2> HIDE DEF V
  <2>2. ss \in [1 .. Len(s) -> Seq(V)]
    BY <1>0, <2>1
  <2> QED
    BY <1>0, <2>2
<1>2. BytesOf(s, 0) = <<>>
  <2>1. HashLen * 0 = 0
    BY <1>0
  <2> QED
    BY <2>1 DEF BytesOf
<1>3. \A i \in 1 .. Len(s) : ss[i] = [j \in 1 .. HashLen |-> <<s[i], j>>]
  BY <1>0
<1>4. ASSUME NEW k \in 1 .. Len(s)
      PROVE  /\ BytesOf(s, k) \in Seq(V)
             /\ BytesOf(s, k) = BytesOf(s, k - 1) \o ss[k]
  <2>1. ss[k] = [j \in 1 .. HashLen |-> <<s[k], j>>]
    BY <1>3
  <2> HIDE DEF ss
  <2>2. /\ BytesOf(s, k) \in Seq(V)
        /\ BytesOf(s, k) =
               BytesOf(s, k - 1) \o [j \in 1 .. HashLen |-> <<s[k], j>>]
    BY BytesOfMore
  <2> HIDE DEF V
  <2> QED
    BY <2>1, <2>2
<1> HIDE DEF V, ss
<1>5. f \in [0 .. Len(s) -> Seq(V)]
  <2>1. ASSUME NEW k \in 0 .. Len(s) PROVE BytesOf(s, k) \in Seq(V)
    <3>1. CASE k = 0
      <4>1. BytesOf(s, k) = <<>>
        BY <1>2, <3>1
      <4> QED
        BY <4>1
    <3>2. CASE k # 0
      <4>1. k \in 1 .. Len(s)
        BY <1>0, <3>2
      <4> QED
        BY <1>4, <4>1
    <3> QED
      BY <3>1, <3>2
  <2> QED
    BY <2>1
<1>6. Flattens(f, ss)
  <2>1. f[0] = <<>>
    BY <1>0, <1>2
  <2>2. ASSUME NEW k \in 1 .. Len(ss) PROVE f[k] = f[k - 1] \o ss[k]
    <3>1. k \in 1 .. Len(s) /\ k \in 0 .. Len(s) /\ k - 1 \in 0 .. Len(s)
      BY <1>0, <1>1
    <3> QED
      BY <1>4, <3>1
  <2> HIDE DEF f
  <2> QED
    BY <2>1, <2>2 DEF Flattens
<1>7. FlattenSeq(ss) = f[Len(ss)]
  <2> HIDE DEF f
  <2>1. f \in [0 .. Len(ss) -> Seq(V)]
    BY <1>1, <1>5
  <2> QED
    BY <1>1, <1>6, <2>1, FlattenIs
<1>8. f[Len(ss)] = BytesOf(s, Len(s))
  BY <1>0, <1>1
<1> HIDE DEF f
<1> QED
  BY <1>7, <1>8 DEF Joined, ss

\* RFC 5869's blocks are what their definition says they are.
LEMMA BlocksOfTheRfc ==
    ASSUME NEW m, NEW c
    PROVE  /\ DOMAIN T(m, c) = 1 .. MaxCounter
           /\ \A k \in 1 .. MaxCounter :
                 T(m, c)[k] = Hmac(m, IF k = 1 THEN <<>> ELSE T(m, c)[k - 1],
                                   ContextInfo(c), k)
<1>0. MaxCounter \in Nat \ {0}
  BY KeyAssumption
<1> DEFINE i == ContextInfo(c)
           Rec(f, n) == f = [k \in 0 .. n |-> IF k = 0 THEN <<>> ELSE Hmac(m, f[k - 1], i, k)]
           P == {n \in Nat : \E f : Rec(f, n)}
           t == CHOOSE f : Rec(f, MaxCounter)
<1>1. T(m, c) = [k \in 1 .. MaxCounter |-> t[k]]
  BY DEF T
<1> HIDE DEF i
<1>2. 0 \in P
  <2>1. Rec([k \in 0 .. 0 |-> <<>>], 0)
    OBVIOUS
  <2> HIDE DEF Rec
  <2> QED
    BY <2>1
<1>3. ASSUME NEW n \in P PROVE n + 1 \in P
  <2>1. PICK f : Rec(f, n)
    OBVIOUS
  <2>2. n \in Nat
    OBVIOUS
  <2> DEFINE g == [k \in 0 .. n + 1 |-> IF k = n + 1 THEN Hmac(m, f[n], i, k) ELSE f[k]]
  <2>3. \A k \in 0 .. n : f[k] = IF k = 0 THEN <<>> ELSE Hmac(m, f[k - 1], i, k)
    BY <2>1
  <2>4. ASSUME NEW k \in 0 .. n + 1
        PROVE  g[k] = IF k = 0 THEN <<>> ELSE Hmac(m, g[k - 1], i, k)
    <3>1. CASE k = n + 1
      <4>1. k # 0 /\ k - 1 \in 0 .. n + 1 /\ k - 1 # n + 1 /\ k - 1 = n
        BY <2>2, <3>1
      <4>2. g[k] = Hmac(m, f[n], i, k)
        BY <3>1
      <4>3. g[k - 1] = f[k - 1]
        BY <4>1
      <4> HIDE DEF g
      <4> QED
        BY <4>1, <4>2, <4>3
    <3>2. CASE k # n + 1
      <4>1. k \in 0 .. n
        BY <2>2, <3>2
      <4>2. g[k] = f[k]
        BY <3>2
      <4>3. ASSUME k # 0 PROVE g[k - 1] = f[k - 1]
        <5>1. k - 1 \in 0 .. n + 1 /\ k - 1 # n + 1
          BY <2>2, <4>1, <4>3
        <5> QED
          BY <5>1
      <4> HIDE DEF g
      <4> QED
        BY <2>3, <4>1, <4>2, <4>3
    <3> QED
      BY <3>1, <3>2
  <2>5. Rec(g, n + 1)
    <3> DEFINE F(k) == IF k = 0 THEN <<>> ELSE Hmac(m, g[k - 1], i, k)
    <3>1. g = [k \in 0 .. n + 1 |-> g[k]]
      OBVIOUS
    <3>2. \A k \in 0 .. n + 1 : g[k] = F(k)
      BY <2>4
    <3> HIDE DEF g, F
    <3>3. g = [k \in 0 .. n + 1 |-> F(k)]
      BY <3>1, <3>2
    <3> QED
      BY <3>3 DEF F
  <2> HIDE DEF Rec, g
  <2> QED
    BY <2>2, <2>5
<1>4. P = Nat
  <2> HIDE DEF P
  <2>1. P \subseteq Nat
    BY DEF P
  <2> QED
    BY <1>2, <1>3, <2>1, AllOfNat
<1>5. Rec(t, MaxCounter)
  <2>1. \E f : Rec(f, MaxCounter)
    BY <1>0, <1>4
  <2> HIDE DEF Rec
  <2> QED
    BY <2>1
<1> HIDE DEF t, P
<1>6. t[0] = <<>>
  BY <1>0, <1>5
<1>7. ASSUME NEW k \in 1 .. MaxCounter PROVE t[k] = Hmac(m, t[k - 1], i, k)
  <2>1. k \in 0 .. MaxCounter /\ k # 0
    BY <1>0
  <2> QED
    BY <1>5, <2>1
<1> HIDE DEF Rec
<1>8. ASSUME NEW k \in 1 .. MaxCounter
      PROVE  T(m, c)[k] = Hmac(m, IF k = 1 THEN <<>> ELSE T(m, c)[k - 1], i, k)
  <2>1. T(m, c)[k] = t[k]
    BY <1>1
  <2>2. CASE k = 1
    <3>1. k - 1 = 0
      BY <2>2
    <3> QED
      BY <1>6, <1>7, <2>1, <2>2, <3>1
  <2>3. CASE k # 1
    <3>1. k - 1 \in 1 .. MaxCounter
      BY <1>0, <2>3
    <3>2. T(m, c)[k - 1] = t[k - 1]
      BY <1>1, <3>1
    <3> QED
      BY <1>7, <2>1, <2>3, <3>2
  <2> QED
    BY <2>2, <2>3
<1> QED
  BY <1>1, <1>8 DEF i

\* Those blocks, their bytes, and the first n of them.
RfcBlocks(m, c) == {T(m, c)[k] : k \in 1 .. MaxCounter}
RfcBytes(m, c) == RfcBlocks(m, c) \X (1 .. HashLen)
FirstBlocks(m, c, n) == [k \in 1 .. n |-> T(m, c)[k]]

LEMMA FirstBlocksAreASequence ==
    ASSUME NEW m, NEW c, NEW n \in 0 .. MaxCounter
    PROVE  /\ FirstBlocks(m, c, n) \in Seq(RfcBlocks(m, c))
           /\ Len(FirstBlocks(m, c, n)) = n
           /\ \A k \in 1 .. n : FirstBlocks(m, c, n)[k] = T(m, c)[k]
           /\ FirstBlocks(m, c, MaxCounter) = T(m, c)
<1> DEFINE B == RfcBlocks(m, c)
           s == FirstBlocks(m, c, n)
<1>0. MaxCounter \in Nat \ {0} /\ n \in Nat /\ n <= MaxCounter
  BY KeyAssumption
<1>1. \A k \in 1 .. n : s[k] = T(m, c)[k] /\ s[k] \in B
  BY <1>0 DEF FirstBlocks, RfcBlocks
<1> HIDE DEF B
<1>2. s \in [1 .. n -> B]
  <2>1. s = [k \in 1 .. n |-> s[k]]
    BY DEF FirstBlocks
  <2> HIDE DEF s
  <2> QED
    BY <1>1, <2>1
<1> HIDE DEF s
<1>3. s \in Seq(B) /\ Len(s) = n
  BY <1>0, <1>2
<1>4. FirstBlocks(m, c, MaxCounter) = T(m, c)
  <2>1. T(m, c) = [k \in 1 .. MaxCounter |-> T(m, c)[k]]
    BY DEF T
  <2> QED
    BY <2>1 DEF FirstBlocks
<1> QED
  BY <1>1, <1>3, <1>4 DEF B, s

\* Fewer blocks give the beginning of what more of them give.
LEMMA JoinedBlocks ==
    ASSUME NEW m, NEW c, NEW n \in 0 .. MaxCounter
    PROVE  /\ HashLen * n \in Nat /\ HashLen * n <= HashLen * MaxCounter
           /\ Joined(FirstBlocks(m, c, n)) \in Seq(RfcBytes(m, c))
           /\ Len(Joined(FirstBlocks(m, c, n))) = HashLen * n
           /\ \A x \in 1 .. HashLen * n :
                 Joined(FirstBlocks(m, c, n))[x] = Joined(T(m, c))[x]
<1> DEFINE B == RfcBlocks(m, c)
           s == FirstBlocks(m, c, n)
           t == FirstBlocks(m, c, MaxCounter)
<1>0. /\ HashLen \in Nat \ {0} /\ MaxCounter \in Nat /\ MaxCounter \in 0 .. MaxCounter
      /\ n \in Nat /\ n <= MaxCounter
  BY KeyAssumption
<1>1. s \in Seq(B) /\ Len(s) = n /\ \A k \in 1 .. n : s[k] = T(m, c)[k]
  BY FirstBlocksAreASequence
<1>2. /\ t \in Seq(B) /\ Len(t) = MaxCounter /\ t = T(m, c)
      /\ \A k \in 1 .. MaxCounter : t[k] = T(m, c)[k]
  BY <1>0, FirstBlocksAreASequence
<1> HIDE DEF s, t, B
<1>3. Joined(s) = BytesOf(s, n) /\ Joined(t) = BytesOf(t, MaxCounter)
  BY <1>1, <1>2, JoinedIs
<1>4. /\ HashLen * n \in Nat /\ HashLen * MaxCounter \in Nat
      /\ HashLen * n <= HashLen * MaxCounter
  <2>1. 0 <= HashLen * (MaxCounter - n) /\ HashLen * n \in Nat /\ HashLen * MaxCounter \in Nat
    BY <1>0
  <2>2. HashLen * (MaxCounter - n) = HashLen * MaxCounter - HashLen * n
    BY <1>0
  <2> QED
    BY <2>1, <2>2
<1>5. ASSUME NEW x \in 1 .. HashLen * n
      PROVE  BytesOf(s, n)[x] = BytesOf(t, MaxCounter)[x] /\ BytesOf(s, n)[x] \in B \X (1 .. HashLen)
  <2>1. (x - 1) \div HashLen + 1 \in 1 .. n /\ ((x - 1) % HashLen) + 1 \in 1 .. HashLen
    BY <1>0, PlaceInBlock
  <2>2. PICK a \in 1 .. n, r \in 1 .. HashLen :
            a = (x - 1) \div HashLen + 1 /\ r = ((x - 1) % HashLen) + 1
    BY <2>1
  <2>3. BytesOf(s, n)[x] = <<s[a], r>>
    BY <2>2 DEF BytesOf
  <2>4. x \in 1 .. HashLen * MaxCounter
    BY <1>4
  <2>5. BytesOf(t, MaxCounter)[x] = <<t[a], r>>
    BY <2>2, <2>4 DEF BytesOf
  <2>6. s[a] = t[a] /\ s[a] \in B
    BY <1>0, <1>1, <1>2
  <2> QED
    BY <2>3, <2>5, <2>6
<1>6. BytesOf(s, n) \in Seq(B \X (1 .. HashLen)) /\ Len(BytesOf(s, n)) = HashLen * n
  <2>1. BytesOf(s, n) = [x \in 1 .. HashLen * n |-> BytesOf(s, n)[x]]
    BY DEF BytesOf
  <2>2. BytesOf(s, n) \in [1 .. HashLen * n -> B \X (1 .. HashLen)]
    BY <1>5, <2>1
  <2> QED
    BY <1>4, <2>2
<1> QED
  BY <1>2, <1>3, <1>4, <1>5, <1>6 DEF s, B, RfcBytes

\* What is cut from the first n blocks is what RFC 5869 cuts from all.
LEMMA SecretFromBlocks ==
    ASSUME NEW m, NEW c, NEW n \in 0 .. MaxCounter, NEW w \in 0 .. HashLen * n
    PROVE  SubSeq(Joined(FirstBlocks(m, c, n)), 1, w) = Hkdf(m, c, w)
<1> DEFINE V == RfcBytes(m, c)
           s == Joined(FirstBlocks(m, c, n))
           t == Joined(T(m, c))
<1>0. MaxCounter \in Nat /\ MaxCounter \in 0 .. MaxCounter
  BY KeyAssumption
<1>1. /\ HashLen * n \in Nat /\ HashLen * n <= HashLen * MaxCounter
      /\ s \in Seq(V) /\ Len(s) = HashLen * n
      /\ \A x \in 1 .. HashLen * n : s[x] = t[x]
  BY JoinedBlocks, Zenon
<1>2. /\ HashLen * MaxCounter \in Nat /\ t \in Seq(V) /\ Len(t) = HashLen * MaxCounter
  <2>1. FirstBlocks(m, c, MaxCounter) = T(m, c)
    BY <1>0, FirstBlocksAreASequence
  <2>2. /\ HashLen * MaxCounter \in Nat /\ Joined(FirstBlocks(m, c, MaxCounter)) \in Seq(V)
        /\ Len(Joined(FirstBlocks(m, c, MaxCounter))) = HashLen * MaxCounter
    BY <1>0, JoinedBlocks, Zenon
  <2> HIDE DEF V
  <2> QED
    BY <2>1, <2>2
<1> HIDE DEF s, t, V
<1>3. w \in Nat /\ \A x \in 1 .. w : x \in 1 .. HashLen * n /\ s[x] = t[x] /\ s[x] \in V
  BY <1>1
<1>4. /\ SubSeq(s, 1, w) \in Seq(V) /\ Len(SubSeq(s, 1, w)) = w
      /\ \A x \in 1 .. w : SubSeq(s, 1, w)[x] = s[x]
  BY <1>1, <1>3, Beginning
<1>5. /\ SubSeq(t, 1, w) \in Seq(V) /\ Len(SubSeq(t, 1, w)) = w
      /\ \A x \in 1 .. w : SubSeq(t, 1, w)[x] = t[x]
  BY <1>1, <1>2, <1>3, Beginning
<1>6. SubSeq(s, 1, w) = SubSeq(t, 1, w)
  BY <1>3, <1>4, <1>5, SeqEqual
<1> QED
  BY <1>6 DEF Hkdf, s, t

\* A secret, byte by byte; its first is the first of the first block.
ByteByByte(m, c, w) ==
    /\ w \in Nat /\ Hkdf(m, c, w) \in Seq(RfcBytes(m, c)) /\ Len(Hkdf(m, c, w)) = w
    /\ \A x \in 1 .. w : Hkdf(m, c, w)[x] = Joined(T(m, c))[x]
    /\ Joined(T(m, c))[1] = <<Hmac(m, <<>>, ContextInfo(c), 1), 1>>

LEMMA HkdfBytes ==
    ASSUME NEW m, NEW c, NEW w \in 0 .. HashLen * MaxCounter
    PROVE  ByteByByte(m, c, w)
<1> DEFINE V == RfcBytes(m, c)
           B == RfcBlocks(m, c)
           t == Joined(T(m, c))
           s == FirstBlocks(m, c, MaxCounter)
<1>0. /\ MaxCounter \in Nat \ {0} /\ MaxCounter \in 0 .. MaxCounter
      /\ HashLen \in Nat \ {0} /\ HashLen * MaxCounter \in Nat
  BY KeyAssumption
<1>1. s = T(m, c) /\ s \in Seq(B) /\ Len(s) = MaxCounter
      /\ \A k \in 1 .. MaxCounter : s[k] = T(m, c)[k]
  BY <1>0, FirstBlocksAreASequence
<1>2. Joined(s) \in Seq(V) /\ Len(Joined(s)) = HashLen * MaxCounter
  BY <1>0, JoinedBlocks
<1>3. t[1] = <<Hmac(m, <<>>, ContextInfo(c), 1), 1>>
  <2>1. t = BytesOf(s, MaxCounter)
    BY <1>1, JoinedIs
  <2>2. 1 \in 1 .. HashLen * MaxCounter
    <3>1. HashLen * MaxCounter # 0
      BY <1>0
    <3> QED
      BY <1>0, <3>1
  <2>3. (1 - 1) \div HashLen = 0 /\ (1 - 1) % HashLen = 0
    <3>1. HashLen \in Nat \ {0} /\ 1 - 1 \in Int /\ 0 \in Int /\ 0 \in 0 .. HashLen - 1
          /\ 1 - 1 = 0 * HashLen + 0
      BY <1>0
    <3> QED
      BY <3>1, RemainderIs
  <2>4. BytesOf(s, MaxCounter)[1] = <<s[1], 1>>
    <3>1. (1 - 1) \div HashLen + 1 = 1 /\ ((1 - 1) % HashLen) + 1 = 1
      BY <2>3
    <3> HIDE DEF s
    <3>2. BytesOf(s, MaxCounter)[1] = <<s[(1 - 1) \div HashLen + 1], ((1 - 1) % HashLen) + 1>>
      BY <2>2 DEF BytesOf
    <3> QED
      BY <3>1, <3>2
  <2>5. 1 \in 1 .. MaxCounter
    BY <1>0
  <2>6. T(m, c)[1] = Hmac(m, <<>>, ContextInfo(c), 1)
    BY <2>5, BlocksOfTheRfc
  <2> HIDE DEF t, s
  <2> QED
    BY <1>1, <2>1, <2>4, <2>5, <2>6
<1>4. t \in Seq(V) /\ Len(t) = HashLen * MaxCounter
  <2> HIDE DEF V, s
  <2> QED
    BY <1>1, <1>2
<1> HIDE DEF V, t
<1>5. w \in Nat /\ w <= Len(t)
  BY <1>0, <1>4
<1>6. /\ SubSeq(t, 1, w) \in Seq(V) /\ Len(SubSeq(t, 1, w)) = w
      /\ \A x \in 1 .. w : SubSeq(t, 1, w)[x] = t[x]
  BY <1>4, <1>5, Beginning
<1> QED
  BY <1>3, <1>5, <1>6 DEF ByteByByte, Hkdf, t, V

\* Secrets of different master secrets or printed contexts part at their first
\* byte.
LEMMA HkdfSeparates ==
    ASSUME NEW m, NEW l, NEW c \in Contexts, NEW d \in Contexts,
           NEW k \in 1 .. HashLen * MaxCounter, NEW n \in k .. HashLen * MaxCounter
    PROVE  /\ l = m /\ d = c => IsPrefix(Hkdf(m, c, k), Hkdf(l, d, n))
           /\ IsPrefix(Hkdf(m, c, k), Hkdf(l, d, n)) =>
                  l = m /\ ContextInfo(c) = ContextInfo(d)
<1> DEFINE a == Hkdf(m, c, k)
           b == Hkdf(l, d, n)
           V == RfcBytes(m, c) \cup RfcBytes(l, d)
<1>0. /\ k \in 0 .. HashLen * MaxCounter /\ n \in 0 .. HashLen * MaxCounter
      /\ k \in Nat /\ n \in Nat /\ k <= n /\ 1 \in 1 .. k /\ 1 \in 1 .. n
  BY KeyAssumption
<1>1. /\ a \in Seq(RfcBytes(m, c)) /\ Len(a) = k
      /\ \A x \in 1 .. k : a[x] = Joined(T(m, c))[x]
      /\ Joined(T(m, c))[1] = <<Hmac(m, <<>>, ContextInfo(c), 1), 1>>
  <2>1. ByteByByte(m, c, k)
    BY <1>0, HkdfBytes
  <2> QED
    BY <2>1 DEF ByteByByte
<1>2. /\ b \in Seq(RfcBytes(l, d)) /\ Len(b) = n
      /\ \A x \in 1 .. n : b[x] = Joined(T(l, d))[x]
      /\ Joined(T(l, d))[1] = <<Hmac(l, <<>>, ContextInfo(d), 1), 1>>
  <2>1. ByteByByte(l, d, n)
    BY <1>0, HkdfBytes
  <2> QED
    BY <2>1 DEF ByteByByte
<1> HIDE DEF a, b
<1>3. a \in Seq(V) /\ b \in Seq(V)
  BY <1>1, <1>2
<1> HIDE DEF V
<1>4. ASSUME l = m /\ d = c PROVE IsPrefix(a, b)
  <2>1. \A x \in 1 .. Len(a) : a[x] = b[x]
    BY <1>0, <1>1, <1>2, <1>4
  <2>2. Begins(a, b)
    BY <1>0, <1>1, <1>2, <2>1 DEF Begins
  <2> QED
    BY <1>3, <2>2, BeginsIsPrefix
<1>5. ASSUME IsPrefix(a, b) PROVE l = m /\ ContextInfo(c) = ContextInfo(d)
  <2>1. Begins(a, b)
    BY <1>3, <1>5, PrefixBegins
  <2>2. a[1] = b[1]
    BY <1>0, <1>1, <2>1 DEF Begins
  <2>3. <<Hmac(m, <<>>, ContextInfo(c), 1), 1>> = <<Hmac(l, <<>>, ContextInfo(d), 1), 1>>
    BY <1>0, <1>1, <1>2, <2>2
  <2>4. Hmac(m, <<>>, ContextInfo(c), 1) = Hmac(l, <<>>, ContextInfo(d), 1)
    BY <2>3
  <2> QED
    BY <2>4 DEF Hmac
<1> QED
  BY <1>4, <1>5 DEF a, b

\* What holds at every step of a derivation: the blocks made are the first of
\* RFC 5869's, and no more of them than the counter allows.
KeyInv ==
    /\ ctx \in Contexts /\ wanted \in Int
    /\ pc \in {"check", "expand", "done", "rejected"}
    /\ pc = "check" => blocks = <<>>
    /\ pc = "expand" =>
          /\ wanted > 0
          /\ \E n \in 0 .. MaxCounter - 1 : blocks = FirstBlocks(master, ctx, n)
    /\ pc = "done" =>
          /\ wanted \in 1 .. HashLen * MaxCounter
          /\ secret = Hkdf(master, ctx, wanted)
    /\ pc = "rejected" /\ Acceptable => wanted > HashLen * (MaxCounter - 1)

\* No blocks, and one more block than there are.
LEMMA BlocksGrow ==
    ASSUME NEW m, NEW c, NEW n \in 0 .. MaxCounter - 1
    PROVE  /\ FirstBlocks(m, c, 0) = <<>>
           /\ n = 0 => FirstBlocks(m, c, n) = <<>>
           /\ n # 0 => /\ FirstBlocks(m, c, n) # <<>>
                       /\ Last(FirstBlocks(m, c, n)) = T(m, c)[n]
           /\ Append(FirstBlocks(m, c, n), T(m, c)[n + 1]) = FirstBlocks(m, c, n + 1)
<1> DEFINE B == RfcBlocks(m, c)
           s == FirstBlocks(m, c, n)
           t == FirstBlocks(m, c, n + 1)
           e == T(m, c)[n + 1]
<1>0. /\ MaxCounter \in Nat \ {0} /\ n \in Nat /\ n \in 0 .. MaxCounter
      /\ n + 1 \in 0 .. MaxCounter /\ n + 1 \in 1 .. MaxCounter
  BY KeyAssumption
<1>1. s \in Seq(B) /\ Len(s) = n /\ \A k \in 1 .. n : s[k] = T(m, c)[k]
  BY <1>0, FirstBlocksAreASequence
<1>2. t \in Seq(B) /\ Len(t) = n + 1 /\ \A k \in 1 .. n + 1 : t[k] = T(m, c)[k]
  BY <1>0, FirstBlocksAreASequence
<1>3. e \in B
  BY <1>0 DEF RfcBlocks
<1>4. FirstBlocks(m, c, 0) = <<>>
  BY DEF FirstBlocks
<1> HIDE DEF s, t, e, B
<1>5. n # 0 => s # <<>> /\ Last(s) = T(m, c)[n]
  BY <1>0, <1>1 DEF Last
<1>6. Append(s, e) = t
  <2> DEFINE u == Append(s, e)
  <2>1. /\ u \in Seq(B) /\ Len(u) = n + 1 /\ u[n + 1] = e
        /\ \A k \in 1 .. n : u[k] = s[k]
    BY <1>0, <1>1, <1>3
  <2> HIDE DEF u
  <2>2. ASSUME NEW k \in 1 .. n + 1 PROVE u[k] = t[k]
    <3>1. CASE k = n + 1
      <4>1. t[k] = e /\ u[k] = e
        BY <1>0, <1>2, <2>1, <3>1 DEF e
      <4> QED
        BY <4>1
    <3>2. CASE k # n + 1
      <4>1. k \in 1 .. n
        BY <1>0, <3>2
      <4> QED
        BY <1>1, <1>2, <2>1, <4>1
    <3> QED
      BY <3>1, <3>2
  <2>3. u = t
    BY <1>2, <2>1, <2>2, SeqEqual
  <2> QED
    BY <2>3 DEF u
<1> QED
  BY <1>4, <1>5, <1>6 DEF s, t, e

LEMMA KeyInvInitially == KeyInit => KeyInv
<1> SUFFICES ASSUME KeyInit PROVE KeyInv
  OBVIOUS
<1> QED
  BY KeyAssumption DEF KeyInit, KeyInv

LEMMA KeyInvPreserved == KeyInv /\ [KeyNext]_keyVars => KeyInv'
<1> SUFFICES ASSUME KeyInv, [KeyNext]_keyVars PROVE KeyInv'
  OBVIOUS
<1>0. /\ MaxCounter \in Nat \ {0} /\ HashLen \in Nat \ {0}
      /\ 0 \in 0 .. MaxCounter - 1
  BY KeyAssumption
<1>1. CASE UNCHANGED keyVars
  BY <1>1 DEF KeyInv, keyVars, arguments, Acceptable
<1>2. CASE Check
  <2>1. blocks = FirstBlocks(master, ctx, 0)
    BY <1>0, <1>2, BlocksGrow DEF KeyInv, Check
  <2>2. Acceptable => wanted > 0
    BY DEF Acceptable
  <2>3. Acceptable' <=> Acceptable
    BY <1>2 DEF Check, Acceptable, arguments
  <2> QED
    BY <1>0, <1>2, <2>1, <2>2, <2>3 DEF KeyInv, Check, arguments
<1>3. CASE Expand
  <2>1. PICK n \in 0 .. MaxCounter - 1 : blocks = FirstBlocks(master, ctx, n)
    BY <1>3 DEF KeyInv, Expand
  <2>2. /\ n \in Nat /\ n \in 0 .. MaxCounter /\ n + 1 \in 0 .. MaxCounter
        /\ n + 1 \in 1 .. MaxCounter /\ (n + 1 = 1 <=> n = 0) /\ (n + 1) - 1 = n
    BY <1>0
  <2>3. Len(blocks) = n
    BY <2>1, <2>2, FirstBlocksAreASequence
  <2>4. Len(Joined(blocks)) = HashLen * n
    BY <2>1, <2>2, JoinedBlocks
  <2>5. Previous = IF n + 1 = 1 THEN <<>> ELSE T(master, ctx)[n]
    BY <2>1, <2>2, BlocksGrow DEF Previous
  <2>6. T(master, ctx)[n + 1] = Hmac(master, Previous, ContextInfo(ctx), Len(blocks) + 1)
    <3>1. T(master, ctx)[n + 1] =
              Hmac(master, IF n + 1 = 1 THEN <<>> ELSE T(master, ctx)[(n + 1) - 1],
                   ContextInfo(ctx), n + 1)
      BY <2>2, BlocksOfTheRfc
    <3> QED
      BY <2>2, <2>3, <2>5, <3>1
  <2>7. blocks' = FirstBlocks(master, ctx, n + 1)
    <3>1. Append(FirstBlocks(master, ctx, n), T(master, ctx)[n + 1]) = FirstBlocks(master, ctx, n + 1)
      BY BlocksGrow
    <3> QED
      BY <1>3, <2>1, <2>6, <3>1 DEF Expand
  <2>8. Len(blocks') = n + 1
    BY <2>2, <2>7, FirstBlocksAreASequence
  <2>9. master' = master /\ ctx' = ctx /\ wanted' = wanted /\ secret' = secret
    BY <1>3 DEF Expand, arguments
  <2>10. CASE n + 2 > MaxCounter
    <3>1. pc' = "rejected"
      BY <1>3, <2>2, <2>8, <2>10 DEF Expand
    <3>2. n = MaxCounter - 1
      BY <1>0, <2>10
    <3>3. HashLen * (MaxCounter - 1) < wanted
      BY <1>3, <2>4, <3>2 DEF Expand
    <3> QED
      BY <2>9, <3>1, <3>3 DEF KeyInv
  <2>11. CASE ~ (n + 2 > MaxCounter)
    <3>1. pc' = "expand"
      BY <1>3, <2>2, <2>8, <2>11 DEF Expand
    <3>2. n + 1 \in 0 .. MaxCounter - 1
      BY <1>0, <2>11
    <3>3. wanted > 0
      BY <1>3 DEF KeyInv, Expand
    <3>4. \E k \in 0 .. MaxCounter - 1 : blocks' = FirstBlocks(master', ctx', k)
      BY <2>7, <2>9, <3>2
    <3> QED
      BY <2>9, <3>1, <3>3, <3>4 DEF KeyInv
  <2> QED
    BY <2>10, <2>11
<1>4. CASE Return
  <2>1. PICK n \in 0 .. MaxCounter - 1 : blocks = FirstBlocks(master, ctx, n)
    BY <1>4 DEF KeyInv, Return
  <2>2. n \in 0 .. MaxCounter
    BY <1>0
  <2>3. /\ HashLen * n \in Nat /\ HashLen * n <= HashLen * MaxCounter
        /\ Len(Joined(blocks)) = HashLen * n
    BY <2>1, <2>2, JoinedBlocks
  <2>4. /\ wanted \in Int /\ 0 < wanted /\ wanted <= HashLen * n
        /\ secret' = SubSeq(Joined(blocks), 1, wanted)
        /\ master' = master /\ ctx' = ctx /\ wanted' = wanted /\ pc' = "done"
    BY <1>4, <2>3 DEF KeyInv, Return, arguments
  <2>5. wanted \in 0 .. HashLen * n /\ wanted \in 1 .. HashLen * MaxCounter
    <3>1. HashLen * MaxCounter \in Int
      BY <1>0
    <3> QED
      BY <2>3, <2>4, <3>1
  <2>6. secret' = Hkdf(master, ctx, wanted)
    BY <2>1, <2>2, <2>4, <2>5, SecretFromBlocks
  <2>7. secret' = Hkdf(master', ctx', wanted')
    BY <2>4, <2>6
  <2> QED
    BY <2>4, <2>5, <2>7 DEF KeyInv
<1> QED
  BY <1>1, <1>2, <1>3, <1>4 DEF KeyNext

\* Every secret derived is HKDF's, of the length asked for and refused only
\* where its last block would be needed.  Two contexts that share a secret, or
\* the beginning of one, both have the separator in their ALPN or scope, which
\* the code does not exclude; a context that has it in neither shares its
\* secrets with no context whatsoever.
THEOREM SecretsAreSeparate == KeySpec => []SecretsSeparate
<1>1. KeyInv => SecretsSeparate
  <2> SUFFICES ASSUME KeyInv PROVE SecretsSeparate
    OBVIOUS
  <2>1. SecretIsHkdf
    BY DEF KeyInv, SecretIsHkdf
  <2>2. ASSUME pc = "done", NEW m \in Masters, NEW c \in Contexts,
               NEW n \in wanted .. HashLen * MaxCounter
        PROVE  /\ m = master /\ c = ctx => IsPrefix(secret, Hkdf(m, c, n))
               /\ IsPrefix(secret, Hkdf(m, c, n)) =>
                      m = master /\ (c = ctx \/ ~ (Separable(c) \/ Separable(ctx)))
    <3>1. /\ wanted \in 1 .. HashLen * MaxCounter /\ ctx \in Contexts
          /\ secret = Hkdf(master, ctx, wanted)
      BY <2>2 DEF KeyInv
    <3>2. /\ m = master /\ c = ctx => IsPrefix(secret, Hkdf(m, c, n))
          /\ IsPrefix(secret, Hkdf(m, c, n)) =>
                 m = master /\ ContextInfo(ctx) = ContextInfo(c)
      BY <3>1, HkdfSeparates
    <3>3. ContextInfo(ctx) = ContextInfo(c) =>
              c = ctx \/ ~ (Separable(c) \/ Separable(ctx))
      BY <3>1, ContextInfoInjective
    <3> QED
      BY <3>2, <3>3
  <2> QED
    BY <2>1, <2>2 DEF SecretsSeparate, KeysSeparate
<1> QED
  BY <1>1, KeyInvInitially, KeyInvPreserved, PTL DEF KeySpec

-----------------------------------------------------------------------------
(* The wire format, and the reader of a stream.                            *)

\* s is p and then q.
Continues(s, p, q) ==
    /\ s \in Seq(Nat) /\ Len(s) = Len(p) + Len(q)
    /\ \A i \in 1 .. Len(p) : s[i] = p[i]
    /\ \A j \in 1 .. Len(q) : s[Len(p) + j] = q[j]

LEMMA ContinuesIs ==
    ASSUME NEW p \in Seq(Nat), NEW q \in Seq(Nat)
    PROVE  Continues(p \o q, p, q)
<1> DEFINE s == p \o q
<1>1. s \in Seq(Nat) /\ Len(s) = Len(p) + Len(q)
  OBVIOUS
<1>2. \A i \in 1 .. Len(p) : s[i] = p[i]
  OBVIOUS
<1>3. \A j \in 1 .. Len(q) : s[Len(p) + j] = q[j]
  OBVIOUS
<1> HIDE DEF s
<1>4. Continues(s, p, q)
  BY <1>1, <1>2, <1>3 DEF Continues
<1> QED
  BY <1>4 DEF s

\* Two sequences of the same beginning and continuation are one.
LEMMA ContinuesUnique ==
    ASSUME NEW s, NEW t, NEW p, NEW q, Len(p) \in Nat, Len(q) \in Nat,
           Continues(s, p, q), Continues(t, p, q)
    PROVE  s = t
<1>1. s \in Seq(Nat) /\ t \in Seq(Nat) /\ Len(s) = Len(t)
  BY DEF Continues
<1>2. ASSUME NEW i \in 1 .. Len(s) PROVE s[i] = t[i]
  <2>1. CASE i <= Len(p)
    BY <2>1 DEF Continues
  <2>2. CASE ~ (i <= Len(p))
    <3>1. PICK j \in Int : j = i - Len(p)
      OBVIOUS
    <3>2. j \in 1 .. Len(q) /\ i = Len(p) + j
      BY <2>2, <3>1 DEF Continues
    <3> QED
      BY <3>2 DEF Continues
  <2> QED
    BY <2>1, <2>2
<1> QED
  BY <1>1, <1>2, SeqEqual

\* The first n pairs of a sequence of numbers.
Pairs(d, n) == [k \in 1 .. 2 * n |-> d[k + 1]]

\* A list of items as it is decoded, put together again, is what it was.
LEMMA ItemsFlatten ==
    ASSUME NEW d \in Seq(Nat), NEW n \in Nat, Len(d) = 1 + n * ItemFields
    PROVE  FlattenSeq([i \in 1 .. n |-> ItemAt(d, i)]) = Pairs(d, n)
<1> DEFINE ss == [i \in 1 .. n |-> ItemAt(d, i)]
           f == [k \in 0 .. n |-> Pairs(d, k)]
<1>0. Len(d) = 2 * n + 1
  BY DEF ItemFields
<1>1. ASSUME NEW i \in 1 .. n
      PROVE  /\ ItemAt(d, i) = <<d[2 * i], d[2 * i + 1]>> /\ ItemAt(d, i) \in Seq(Nat)
  <2>1. 2 + ItemFields * (i - 1) = 2 * i /\ 3 + ItemFields * (i - 1) = 2 * i + 1
        /\ 2 * i \in 1 .. Len(d) /\ 2 * i + 1 \in 1 .. Len(d)
    BY <1>0 DEF ItemFields
  <2>2. ItemAt(d, i) = <<d[2 * i], d[2 * i + 1]>>
    BY <2>1 DEF ItemAt
  <2>3. d[2 * i] \in Nat /\ d[2 * i + 1] \in Nat
    BY <2>1
  <2> QED
    BY <2>2, <2>3
<1>2. ss \in Seq(Seq(Nat)) /\ Len(ss) = n /\ \A i \in 1 .. n : ss[i] = ItemAt(d, i)
  <2>1. ss \in [1 .. n -> Seq(Nat)]
    BY <1>1
  <2> QED
    BY <2>1
<1>3. ASSUME NEW k \in 0 .. n
      PROVE  Pairs(d, k) \in Seq(Nat) /\ Len(Pairs(d, k)) = 2 * k
             /\ \A x \in 1 .. 2 * k : Pairs(d, k)[x] = d[x + 1]
  <2>1. ASSUME NEW x \in 1 .. 2 * k PROVE d[x + 1] \in Nat
    <3>1. x + 1 \in 1 .. Len(d)
      BY <1>0
    <3> QED
      BY <3>1
  <2>2. Pairs(d, k) \in [1 .. 2 * k -> Nat]
    BY <2>1 DEF Pairs
  <2>3. 2 * k \in Nat
    OBVIOUS
  <2> QED
    BY <2>2, <2>3 DEF Pairs
<1>4. f \in [0 .. n -> Seq(Nat)]
  BY <1>3
<1>5. Flattens(f, ss)
  <2>1. f[0] = <<>>
    BY DEF Pairs
  <2>2. ASSUME NEW k \in 1 .. Len(ss) PROVE f[k] = f[k - 1] \o ss[k]
    <3>1. k \in 1 .. n /\ k \in 0 .. n /\ k - 1 \in 0 .. n /\ 2 * (k - 1) = 2 * k - 2
      BY <1>2
    <3>2. f[k] = Pairs(d, k) /\ f[k - 1] = Pairs(d, k - 1)
      BY <3>1
    <3> DEFINE p == Pairs(d, k - 1)
               q == Pairs(d, k)
               e == ItemAt(d, k)
    <3>3. p \in Seq(Nat) /\ Len(p) = 2 * k - 2 /\ \A x \in 1 .. 2 * k - 2 : p[x] = d[x + 1]
      BY <1>3, <3>1
    <3>4. q \in Seq(Nat) /\ Len(q) = 2 * k /\ \A x \in 1 .. 2 * k : q[x] = d[x + 1]
      BY <1>3, <3>1
    <3>5. e \in Seq(Nat) /\ Len(e) = 2 /\ e[1] = d[2 * k] /\ e[2] = d[2 * k + 1]
      <4>1. e = <<d[2 * k], d[2 * k + 1]>> /\ e \in Seq(Nat)
        BY <1>1, <3>1
      <4> HIDE DEF e
      <4> QED
        BY <4>1
    <3> HIDE DEF p, q, e
    <3>6. Continues(p \o e, p, e)
      BY <3>3, <3>5, ContinuesIs
    <3>7. Continues(q, p, e)
      <4>1. Len(q) = Len(p) + Len(e)
        BY <3>1, <3>3, <3>4, <3>5
      <4>2. ASSUME NEW x \in 1 .. Len(p) PROVE q[x] = p[x]
        <5>1. x \in 1 .. 2 * k - 2 /\ x \in 1 .. 2 * k
          BY <3>1, <3>3
        <5> QED
          BY <3>3, <3>4, <5>1
      <4>3. ASSUME NEW j \in 1 .. Len(e) PROVE q[Len(p) + j] = e[j]
        <5>1. CASE j = 1
          <6>1. Len(p) + j = 2 * k - 1 /\ 2 * k - 1 \in 1 .. 2 * k /\ (2 * k - 1) + 1 = 2 * k
            BY <3>1, <3>3, <5>1
          <6>2. q[2 * k - 1] = d[(2 * k - 1) + 1]
            BY <3>4, <6>1
          <6> QED
            BY <3>5, <5>1, <6>1, <6>2
        <5>2. CASE j = 2
          <6>1. Len(p) + j = 2 * k /\ 2 * k \in 1 .. 2 * k
            BY <3>1, <3>3, <5>2
          <6>2. q[2 * k] = d[2 * k + 1]
            BY <3>4, <6>1
          <6> QED
            BY <3>5, <5>2, <6>1, <6>2
        <5> QED
          BY <3>5, <5>1, <5>2
      <4> QED
        BY <3>4, <4>1, <4>2, <4>3 DEF Continues
    <3>8. q = p \o e
      <4>1. Len(p) \in Nat /\ Len(e) \in Nat
        BY <3>3, <3>5
      <4> QED
        BY <3>6, <3>7, <4>1, ContinuesUnique
    <3>9. ss[k] = e
      BY <1>2, <3>1 DEF e
    <3> QED
      BY <3>2, <3>8, <3>9 DEF p, q
  <2> HIDE DEF f, ss
  <2> QED
    BY <2>1, <2>2 DEF Flattens
<1> HIDE DEF f, ss
<1>6. FlattenSeq(ss) = f[Len(ss)]
  <2>1. f \in [0 .. Len(ss) -> Seq(Nat)]
    BY <1>2, <1>4
  <2> QED
    BY <1>2, <1>5, <2>1, FlattenIs
<1> QED
  BY <1>2, <1>6 DEF f, ss

\* l numbers after the first k of a sequence.
LEMMA Middle ==
    ASSUME NEW s \in Seq(Nat), NEW k \in Nat, NEW l \in Nat, k + l <= Len(s)
    PROVE  /\ SubSeq(s, k + 1, k + l) \in Seq(Nat)
           /\ Len(SubSeq(s, k + 1, k + l)) = l
           /\ \A i \in 1 .. l : SubSeq(s, k + 1, k + l)[i] = s[k + i]
<1>1. PICK m \in Int, n \in Int : m = k + 1 /\ n = k + l
  OBVIOUS
<1>2. \A i \in m .. n : s[i] \in Nat
  BY <1>1
<1>3. /\ SubSeq(s, m, n) \in Seq(Nat)
      /\ Len(SubSeq(s, m, n)) = IF m <= n THEN n - m + 1 ELSE 0
      /\ \A i \in 1 .. n - m + 1 : SubSeq(s, m, n)[i] = s[m + i - 1]
  BY <1>2, SubSeqProperties
<1>4. Len(SubSeq(s, m, n)) = l
  BY <1>1, <1>3
<1>5. ASSUME NEW i \in 1 .. l PROVE SubSeq(s, m, n)[i] = s[k + i]
  <2>1. i \in 1 .. n - m + 1 /\ m + i - 1 = k + i
    BY <1>1
  <2> QED
    BY <1>3, <2>1
<1> QED
  BY <1>1, <1>3, <1>4, <1>5

\* What follows the type of a body.
LEMMA AfterType ==
    ASSUME NEW b \in Seq(Nat), b # <<>>
    PROVE  /\ Len(b) \in Nat \ {0} /\ b[1] \in Nat /\ Tail(b) \in Seq(Nat)
           /\ Len(Tail(b)) = Len(b) - 1 /\ \A i \in 1 .. Len(b) - 1 : Tail(b)[i] = b[i + 1]
  OBVIOUS

LEMMA FrameCanonical ==
    ASSUME NEW b \in Seq(Nat), b # <<>>, b[1] = FRAME, DecodeFrame(Tail(b)) # Malformed
    PROVE  Body(DecodeFrame(Tail(b))) = b
<1> DEFINE d == Tail(b)
           m == DecodeFrame(d)
           sc == SubSeq(d, FrameFields + 1, PayloadStart(d))
           pl == SubSeq(d, PayloadStart(d) + 1, PayloadStart(d) + d[6])
           hd == <<FRAME, d[1], d[2], d[3], d[4], d[5], d[6]>>
<1>1. /\ Len(b) \in Nat \ {0} /\ d \in Seq(Nat) /\ Len(d) = Len(b) - 1
      /\ \A i \in 1 .. Len(b) - 1 : d[i] = b[i + 1]
  BY AfterType
<1> HIDE DEF d
<1>2. /\ Len(d) >= 6 /\ d[2] \in {0, 1} /\ d[3] \in {1, 2} /\ FrameFits(d)
      /\ m = [t |-> FRAME, seq |-> d[1], repair |-> d[2] = 1,
              kind |-> CHOOSE name \in DOMAIN KindByName : KindByName[name] = d[3],
              bound |-> d[5], scope |-> sc, payload |-> pl]
      /\ \E name \in DOMAIN KindByName : KindByName[name] = d[3]
  <2> DEFINE known == \E name \in DOMAIN KindByName : KindByName[name] = d[3]
             C == Len(d) >= 6 /\ d[2] \in {0, 1} /\ known /\ FrameFits(d)
             R == [t |-> FRAME, seq |-> d[1], repair |-> d[2] = 1,
                   kind |-> CHOOSE name \in DOMAIN KindByName : KindByName[name] = d[3],
                   bound |-> d[5], scope |-> sc, payload |-> pl]
  <2>1. m = IF C THEN R ELSE Malformed
    BY DEF DecodeFrame, FrameFields
  <2>2. m # Malformed
    BY DEF d
  <2>3. known => d[3] \in {1, 2}
    BY DEF KindByName
  <2> HIDE DEF known, R, m
  <2>4. C /\ m = R
    BY <2>1, <2>2
  <2> QED
    BY <2>3, <2>4 DEF R, known
<1>3. KindByName[m.kind] = d[3]
  <2>1. \E name \in DOMAIN KindByName : KindByName[name] = d[3]
    BY <1>2
  <2>2. m.kind = CHOOSE name \in DOMAIN KindByName : KindByName[name] = d[3]
    BY <1>2
  <2> HIDE DEF m
  <2> QED
    BY <2>1, <2>2
<1>4. /\ m.t = FRAME /\ m.seq = d[1] /\ m.repair = (d[2] = 1) /\ m.bound = d[5]
      /\ m.scope = sc /\ m.payload = pl
  <2> HIDE DEF m, sc, pl
  <2> QED
    BY <1>2
<1> HIDE DEF m
<1>20. PICK n \in Nat : n = Len(d)
  BY <1>1
<1>21. n >= 6
  BY <1>2, <1>20
<1>24. d \in Seq(Nat)
  BY <1>1
<1>22. \A i \in 1 .. n : d[i] \in Nat
  BY <1>20, <1>24
<1>5. d[1] \in Nat /\ d[2] \in Nat /\ d[3] \in Nat /\ d[4] \in Nat /\ d[5] \in Nat /\ d[6] \in Nat
  <2>1. 1 \in 1 .. n /\ 2 \in 1 .. n /\ 3 \in 1 .. n /\ 4 \in 1 .. n /\ 5 \in 1 .. n /\ 6 \in 1 .. n
    BY <1>21
  <2> QED
    BY <1>22, <2>1
<1>17. PICK a \in Nat, c \in Nat : a = d[4] /\ c = d[6]
  BY <1>5
<1>18. PayloadStart(d) = 6 + a /\ (6 + a) + c = n
  <2>1. FrameFits(d)
    BY <1>2
  <2> QED
    BY <1>17, <1>20, <2>1 DEF FrameFits, PayloadStart, FrameFields
<1>23. Len(b) = n + 1
  BY <1>1, <1>20
<1>6. sc \in Seq(Nat) /\ Len(sc) = a /\ \A i \in 1 .. a : sc[i] = d[6 + i]
  <2>1. PICK k \in Nat : k = 6
    OBVIOUS
  <2>2. k + a <= Len(d)
    BY <1>18, <1>20, <2>1
  <2>3. sc = SubSeq(d, k + 1, k + a)
    BY <1>18, <2>1 DEF FrameFields
  <2> HIDE DEF sc
  <2>4. sc \in Seq(Nat) /\ Len(sc) = a /\ \A i \in 1 .. a : sc[i] = d[k + i]
    BY <1>24, <2>2, <2>3, Middle
  <2> QED
    BY <2>1, <2>4
<1>7. pl \in Seq(Nat) /\ Len(pl) = c /\ \A i \in 1 .. c : pl[i] = d[(6 + a) + i]
  <2>1. PICK k \in Nat : k = 6 + a
    OBVIOUS
  <2>2. k + c <= Len(d)
    BY <1>18, <1>20, <2>1
  <2>3. pl = SubSeq(d, k + 1, k + c)
    BY <1>17, <1>18, <2>1
  <2> HIDE DEF pl
  <2>4. pl \in Seq(Nat) /\ Len(pl) = c /\ \A i \in 1 .. c : pl[i] = d[k + i]
    BY <1>24, <2>2, <2>3, Middle
  <2> QED
    BY <2>1, <2>4
<1> HIDE DEF sc, pl
<1>8. Body(m) = (hd \o sc) \o pl
  <2>1. (IF m.repair THEN 1 ELSE 0) = d[2]
    BY <1>2, <1>4
  <2>2. m.t # HELLO /\ m.t \notin {END_ROUND, FINISH} /\ m.t # MISSING
    BY <1>4 DEF FRAME, HELLO, END_ROUND, FINISH, MISSING
  <2> QED
    BY <1>3, <1>4, <1>6, <1>7, <1>17, <2>1, <2>2 DEF Body
<1>9. /\ hd \in Seq(Nat) /\ Len(hd) = 7
      /\ hd[1] = FRAME /\ hd[2] = d[1] /\ hd[3] = d[2] /\ hd[4] = d[3]
      /\ hd[5] = d[4] /\ hd[6] = d[5] /\ hd[7] = d[6]
  <2>1. FRAME \in Nat
    BY DEF FRAME
  <2> QED
    BY <1>5, <2>1
<1> HIDE DEF hd
<1> DEFINE v == hd \o sc
           w == v \o pl
<1>10. Continues(v, hd, sc)
  BY <1>6, <1>9, ContinuesIs
<1>11. v \in Seq(Nat)
  BY <1>10 DEF Continues
<1> HIDE DEF v
<1>12. Continues(w, v, pl)
  BY <1>7, <1>11, ContinuesIs
<1> HIDE DEF w
<1>13. w \in Seq(Nat) /\ Len(v) = 7 + a /\ Len(w) = (7 + a) + c
  BY <1>6, <1>7, <1>9, <1>10, <1>12 DEF Continues
<1>14. Len(w) = Len(b) /\ Len(b) = (7 + a) + c
  BY <1>13, <1>18, <1>23
<1>19. \A i \in 1 .. (6 + a) + c : d[i] = b[i + 1]
  <2>1. Len(b) - 1 = (6 + a) + c
    BY <1>18, <1>23
  <2> QED
    BY <1>1, <2>1
<1>15. ASSUME NEW i \in 1 .. (7 + a) + c PROVE w[i] = b[i]
  <2>1. CASE i <= 7
    <3>1. i \in 1 .. Len(v) /\ i \in 1 .. Len(hd)
      <4>1. i \in 1 .. 7 /\ i \in 1 .. 7 + a
        BY <2>1
      <4> QED
        BY <1>9, <1>13, <4>1
    <3>2. w[i] = hd[i]
      BY <1>10, <1>12, <3>1 DEF Continues
    <3>3. \A k \in 1 .. 6 : d[k] = b[k + 1]
      BY <1>19
    <3>4. /\ d[1] = b[2] /\ d[2] = b[3] /\ d[3] = b[4] /\ d[4] = b[5] /\ d[5] = b[6] /\ d[6] = b[7]
      BY <3>3
    <3>5. i \in {1, 2, 3, 4, 5, 6, 7}
      BY <2>1
    <3> QED
      BY <1>9, <3>2, <3>4, <3>5
  <2>2. CASE 7 < i /\ i <= 7 + a
    <3>1. PICK j \in Int : j = i - 7
      OBVIOUS
    <3>2. j \in 1 .. a /\ i = 7 + j /\ i \in 1 .. 7 + a
      BY <2>2, <3>1
    <3>3. v[i] = sc[j]
      BY <1>6, <1>9, <1>10, <3>2 DEF Continues
    <3>4. w[i] = v[i]
      BY <1>12, <1>13, <3>2 DEF Continues
    <3>5. 6 + j \in 1 .. (6 + a) + c /\ (6 + j) + 1 = i
      BY <3>2
    <3>6. sc[j] = d[6 + j] /\ d[6 + j] = b[(6 + j) + 1]
      BY <1>6, <1>19, <3>2, <3>5
    <3> QED
      BY <3>3, <3>4, <3>5, <3>6
  <2>3. CASE 7 + a < i
    <3>1. PICK j \in Int : j = i - (7 + a)
      OBVIOUS
    <3>2. j \in 1 .. c /\ i = (7 + a) + j
      BY <2>3, <3>1
    <3>3. w[i] = pl[j]
      BY <1>7, <1>12, <1>13, <3>2 DEF Continues
    <3>4. (6 + a) + j \in 1 .. (6 + a) + c /\ ((6 + a) + j) + 1 = i
      BY <3>2
    <3>5. pl[j] = d[(6 + a) + j] /\ d[(6 + a) + j] = b[((6 + a) + j) + 1]
      BY <1>7, <1>19, <3>2, <3>4
    <3> QED
      BY <3>3, <3>4, <3>5
  <2> QED
    BY <2>1, <2>2, <2>3
<1>16. w = b
  <2>1. \A i \in 1 .. Len(w) : w[i] = b[i]
    BY <1>14, <1>15
  <2> QED
    BY <1>13, <1>14, <2>1, SeqEqual
<1> QED
  BY <1>8, <1>16 DEF w, v, m, d

LEMMA MissingCanonical ==
    ASSUME NEW b \in Seq(Nat), b # <<>>, b[1] = MISSING, DecodeMissing(Tail(b)) # Malformed
    PROVE  Body(DecodeMissing(Tail(b))) = b
<1> DEFINE d == Tail(b)
           m == DecodeMissing(d)
           items == [i \in 1 .. d[1] |-> ItemAt(d, i)]
           hd == <<MISSING, d[1]>>
<1>1. /\ Len(b) \in Nat \ {0} /\ d \in Seq(Nat) /\ Len(d) = Len(b) - 1
      /\ \A i \in 1 .. Len(b) - 1 : d[i] = b[i + 1]
  BY AfterType
<1>2. m # Malformed
  OBVIOUS
<1> HIDE DEF d
<1>3. /\ Len(d) >= 1 /\ Len(d) = 1 + d[1] * ItemFields
      /\ m = [t |-> MISSING, items |-> items]
  BY <1>2 DEF DecodeMissing
<1>4. m.t = MISSING /\ m.items = items
  <2> HIDE DEF m, items
  <2> QED
    BY <1>3
<1> HIDE DEF m
<1>5. d \in Seq(Nat) /\ 1 \in 1 .. Len(d)
  BY <1>1, <1>3
<1>6. PICK n \in Nat : n = d[1]
  BY <1>5
<1>7. Len(d) = 1 + n * ItemFields /\ Len(d) = 2 * n + 1
  BY <1>3, <1>6 DEF ItemFields
<1>8. items = [i \in 1 .. n |-> ItemAt(d, i)] /\ Len(items) = n
  BY <1>6
<1> HIDE DEF items
<1>9. FlattenSeq(items) = Pairs(d, n)
  BY <1>5, <1>7, <1>8, ItemsFlatten
<1>10. Body(m) = hd \o Pairs(d, n)
  <2>1. m.t # HELLO /\ m.t \notin {END_ROUND, FINISH} /\ m.t # FRAME
    BY <1>4 DEF FRAME, HELLO, END_ROUND, FINISH, MISSING
  <2> QED
    BY <1>4, <1>6, <1>8, <1>9, <2>1 DEF Body
<1>11. hd \in Seq(Nat) /\ Len(hd) = 2 /\ hd[1] = MISSING /\ hd[2] = d[1]
  <2>1. MISSING \in Nat /\ d[1] \in Nat
    BY <1>6 DEF MISSING
  <2> QED
    BY <2>1
<1> HIDE DEF hd
<1> DEFINE p == Pairs(d, n)
<1>12. /\ p \in Seq(Nat) /\ Len(p) = 2 * n
       /\ \A x \in 1 .. 2 * n : p[x] = d[x + 1]
  <2>1. ASSUME NEW x \in 1 .. 2 * n PROVE d[x + 1] \in Nat
    <3>1. x + 1 \in 1 .. Len(d)
      BY <1>7
    <3> QED
      BY <1>5, <3>1
  <2>2. Pairs(d, n) \in [1 .. 2 * n -> Nat]
    BY <2>1 DEF Pairs
  <2>3. 2 * n \in Nat
    OBVIOUS
  <2> QED
    BY <2>2, <2>3 DEF Pairs
<1> HIDE DEF p
<1>13. Continues(hd \o p, hd, p)
  BY <1>11, <1>12, ContinuesIs
<1>14. Continues(b, hd, p)
  <2>1. Len(b) = 2 + 2 * n
    <3>1. Len(b) \in Nat /\ Len(b) - 1 = 2 * n + 1
      BY <1>1, <1>7
    <3> QED
      BY <3>1
  <2>2. \A x \in 1 .. 2 * n + 1 : d[x] = b[x + 1]
    <3>1. Len(b) - 1 = 2 * n + 1
      BY <2>1
    <3> QED
      BY <1>1, <3>1
  <2>3. ASSUME NEW i \in 1 .. 2 PROVE b[i] = hd[i]
    <3>1. CASE i = 1
      BY <1>11, <3>1
    <3>2. CASE i = 2
      <4>1. 1 \in 1 .. 2 * n + 1
        OBVIOUS
      <4>2. d[1] = b[1 + 1]
        BY <2>2, <4>1
      <4> QED
        BY <1>11, <3>2, <4>2
    <3> QED
      BY <3>1, <3>2
  <2>4. ASSUME NEW j \in 1 .. 2 * n PROVE b[2 + j] = p[j]
    <3>1. j + 1 \in 1 .. 2 * n + 1 /\ (j + 1) + 1 = 2 + j
      OBVIOUS
    <3>2. d[j + 1] = b[(j + 1) + 1]
      BY <2>2, <3>1
    <3> QED
      BY <1>12, <3>1, <3>2
  <2> QED
    BY <1>11, <1>12, <2>1, <2>3, <2>4 DEF Continues
<1>15. hd \o p = b
  <2>1. Len(hd) \in Nat /\ Len(p) \in Nat
    BY <1>11, <1>12
  <2> QED
    BY <1>13, <1>14, <2>1, ContinuesUnique
<1> QED
  BY <1>10, <1>15 DEF p, m, d

\* A message has one encoding, whatever the body is.
LEMMA EveryBodyCanonical ==
    ASSUME NEW b \in Seq(Nat)
    PROVE  Canonical(b)
<1> SUFFICES ASSUME Decode(b) # Malformed PROVE Body(Decode(b)) = b
  BY DEF Canonical
<1> DEFINE d == Tail(b)
<1>1. b # <<>>
  BY DEF Decode
<1>2. /\ Len(b) \in Nat \ {0} /\ d \in Seq(Nat) /\ Len(d) = Len(b) - 1
      /\ \A i \in 1 .. Len(b) - 1 : d[i] = b[i + 1]
  BY <1>1, AfterType
<1> HIDE DEF d
<1>9. Len(b) \in Nat /\ Len(d) = Len(b) - 1
  BY <1>2
<1>7. /\ HELLO # END_ROUND /\ HELLO # FINISH /\ HELLO # FRAME /\ HELLO # MISSING
      /\ FRAME # END_ROUND /\ FRAME # FINISH /\ FRAME # MISSING
      /\ MISSING # END_ROUND /\ MISSING # FINISH
  BY DEF HELLO, END_ROUND, FINISH, FRAME, MISSING
<1>8. Decode(b) =
          IF b[1] = HELLO /\ Len(d) = 3
          THEN [t |-> HELLO, version |-> d[1], chunkSize |-> d[2], frameCount |-> d[3]]
          ELSE IF b[1] \in {END_ROUND, FINISH} /\ d = <<>> THEN [t |-> b[1]]
          ELSE IF b[1] = FRAME THEN DecodeFrame(d)
          ELSE IF b[1] = MISSING THEN DecodeMissing(d) ELSE Malformed
  BY <1>1, <1>7 DEF Decode, d
<1>3. CASE b[1] = HELLO /\ Len(d) = 3
  <2>1. Decode(b) = [t |-> HELLO, version |-> d[1], chunkSize |-> d[2], frameCount |-> d[3]]
    BY <1>3, <1>8
  <2>5. PICK m : m = Decode(b)
    OBVIOUS
  <2>6. m.t = HELLO /\ m.version = d[1] /\ m.chunkSize = d[2] /\ m.frameCount = d[3]
    BY <2>1, <2>5
  <2>2. Body(Decode(b)) = <<HELLO, d[1], d[2], d[3]>>
    BY <1>7, <2>5, <2>6 DEF Body
  <2>7. Len(b) = 4
    <3>1. Len(b) - 1 = 3
      BY <1>3, <1>9, Zenon
    <3>2. \A k \in Nat : k - 1 = 3 => k = 4
      OBVIOUS
    <3> QED
      BY <1>9, <3>1, <3>2, Zenon
  <2>3. Len(b) = 4 /\ d[1] = b[2] /\ d[2] = b[3] /\ d[3] = b[4]
    <3>1. Len(b) - 1 = 3
      BY <2>7
    <3>2. \A i \in 1 .. 3 : d[i] = b[i + 1]
      BY <1>2, <3>1
    <3> QED
      BY <2>7, <3>2
  <2>4. b = <<b[1], b[2], b[3], b[4]>>
    BY <2>3
  <2> QED
    BY <1>3, <2>2, <2>3, <2>4
<1>4. CASE b[1] \in {END_ROUND, FINISH} /\ d = <<>>
  <2>1. b[1] # HELLO
    BY <1>4, <1>7
  <2>2. Decode(b) = [t |-> b[1]]
    BY <1>4, <1>8, <2>1
  <2>6. PICK m : m = Decode(b)
    OBVIOUS
  <2>7. m.t = b[1]
    BY <2>2, <2>6
  <2>3. Body(Decode(b)) = <<b[1]>>
    <3>1. m.t \in {END_ROUND, FINISH} /\ m.t # HELLO
      BY <1>4, <2>1, <2>7
    <3>2. Body(m) = <<m.t>>
      BY <1>7, <3>1 DEF Body
    <3> QED
      BY <2>6, <2>7, <3>2
  <2>4. Len(b) = 1
    <3>1. Len(d) = 0
      BY <1>4
    <3> QED
      BY <1>2, <3>1
  <2>5. b = <<b[1]>>
    BY <2>4
  <2> QED
    BY <2>3, <2>5
<1>5. CASE b[1] = FRAME
  <2>1. b[1] # HELLO /\ b[1] \notin {END_ROUND, FINISH}
    BY <1>5, <1>7
  <2>2. Decode(b) = DecodeFrame(Tail(b))
    BY <1>5, <1>8, <2>1 DEF d
  <2> QED
    BY <1>1, <1>5, <2>2, FrameCanonical
<1>6. CASE b[1] = MISSING
  <2>1. b[1] # HELLO /\ b[1] \notin {END_ROUND, FINISH} /\ b[1] # FRAME
    BY <1>6, <1>7
  <2>2. Decode(b) = DecodeMissing(Tail(b))
    BY <1>6, <1>8, <2>1 DEF d
  <2> QED
    BY <1>1, <1>6, <2>2, MissingCanonical
<1> QED
  BY <1>3, <1>4, <1>5, <1>6, <1>8

\* Pairs put together are twice as many numbers.
LEMMA PairsLength ==
    ASSUME NEW ss \in Seq(Seq(Nat)), \A i \in 1 .. Len(ss) : Len(ss[i]) = 2
    PROVE  FlattenSeq(ss) \in Seq(Nat) /\ Len(FlattenSeq(ss)) = 2 * Len(ss)
<1>1. PICK n \in Nat : n = Len(ss)
  OBVIOUS
<1>2. PICK f \in [0 .. n -> Seq(Nat)] : Flattens(f, ss) /\ FlattenSeq(ss) = f[n]
  BY <1>1, FlattenExists
<1> DEFINE P == {k \in Nat : k <= n => Len(f[k]) = 2 * k}
<1>3. 0 \in P
  <2>1. f[0] = <<>>
    BY <1>2 DEF Flattens
  <2> QED
    BY <2>1
<1>4. ASSUME NEW k \in P PROVE k + 1 \in P
  <2>1. SUFFICES ASSUME k + 1 <= n PROVE Len(f[k + 1]) = 2 * (k + 1)
    OBVIOUS
  <2>2. k \in 0 .. n /\ k + 1 \in 1 .. n /\ (k + 1) - 1 = k /\ k \in Nat
    BY <2>1
  <2>3. Len(f[k]) = 2 * k
    BY <2>2
  <2>4. f[k + 1] = f[k] \o ss[k + 1]
    BY <1>1, <1>2, <2>2 DEF Flattens
  <2>5. f[k] \in Seq(Nat) /\ ss[k + 1] \in Seq(Nat) /\ Len(ss[k + 1]) = 2
    <3>1. f[k] \in Seq(Nat)
      BY <2>2
    <3>2. k + 1 \in 1 .. Len(ss)
      BY <1>1, <2>2
    <3>3. ss[k + 1] \in Seq(Nat)
      BY <3>2
    <3> QED
      BY <3>1, <3>2, <3>3
  <2>6. Continues(f[k] \o ss[k + 1], f[k], ss[k + 1])
    BY <2>5, ContinuesIs
  <2>7. Len(f[k + 1]) = Len(f[k]) + Len(ss[k + 1])
    BY <2>4, <2>6 DEF Continues
  <2> QED
    BY <2>2, <2>3, <2>5, <2>7
<1>5. P = Nat
  <2> HIDE DEF P
  <2>1. P \subseteq Nat
    BY DEF P
  <2> QED
    BY <1>3, <1>4, <2>1, AllOfNat
<1>6. Len(f[n]) = 2 * n
  <2>1. n \in P
    <3> HIDE DEF P
    <3> QED
      BY <1>5
  <2>2. n <= n
    OBVIOUS
  <2> QED
    BY <2>1, <2>2
<1> QED
  BY <1>1, <1>2, <1>6

\* What the decoder does with the types it knows.
LEMMA DecodeIs ==
    ASSUME NEW b, b # <<>>
    PROVE  /\ b[1] = FRAME => Decode(b) = DecodeFrame(Tail(b))
           /\ b[1] = MISSING => Decode(b) = DecodeMissing(Tail(b))
           /\ b[1] = HELLO /\ Len(Tail(b)) = 3 => Decode(b).t = HELLO
           /\ b[1] \in {END_ROUND, FINISH} /\ Tail(b) = <<>> => Decode(b).t = b[1]
<1> DEFINE d == Tail(b)
           hello == [t |-> HELLO, version |-> d[1], chunkSize |-> d[2], frameCount |-> d[3]]
           end == [t |-> b[1]]
<1>1. /\ HELLO # END_ROUND /\ HELLO # FINISH /\ HELLO # FRAME /\ HELLO # MISSING
      /\ FRAME # END_ROUND /\ FRAME # FINISH /\ FRAME # MISSING
      /\ MISSING # END_ROUND /\ MISSING # FINISH
  BY DEF HELLO, END_ROUND, FINISH, FRAME, MISSING
<1>2. hello.t = HELLO /\ end.t = b[1]
  OBVIOUS
<1> HIDE DEF d
<1>3. Decode(b) =
          IF b[1] = HELLO /\ Len(d) = 3 THEN hello
          ELSE IF b[1] \in {END_ROUND, FINISH} /\ d = <<>> THEN end
          ELSE IF b[1] = FRAME THEN DecodeFrame(d)
          ELSE IF b[1] = MISSING THEN DecodeMissing(d) ELSE Malformed
  BY <1>1 DEF Decode, d
<1> HIDE DEF hello, end
<1>4. b[1] = FRAME => Decode(b) = DecodeFrame(d)
  BY <1>1, <1>3
<1>5. b[1] = MISSING => Decode(b) = DecodeMissing(d)
  BY <1>1, <1>3
<1>6. b[1] = HELLO /\ Len(d) = 3 => Decode(b).t = HELLO
  BY <1>1, <1>2, <1>3
<1>7. b[1] \in {END_ROUND, FINISH} /\ d = <<>> => Decode(b).t = b[1]
  BY <1>1, <1>2, <1>3
<1> QED
  BY <1>4, <1>5, <1>6, <1>7 DEF d

LEMMA FrameDecodes ==
    ASSUME NEW m, m.t = FRAME, m.seq \in Nat, m.bound \in Nat, m.repair \in BOOLEAN,
           m.kind \in {"FULL", "REF"}, m.scope \in Seq(Nat), m.payload \in Seq(Nat)
    PROVE  /\ Body(m) \in Seq(Nat) /\ Body(m) # <<>>
           /\ Decode(Body(m)) # Malformed
<1> DEFINE r == IF m.repair THEN 1 ELSE 0
           kk == KindByName[m.kind]
           a == Len(m.scope)
           c == Len(m.payload)
           hd == <<FRAME, m.seq, r, kk, a, m.bound, c>>
           v == hd \o m.scope
           b == v \o m.payload
           d == Tail(b)
<1>1. r \in {0, 1} /\ kk \in {1, 2} /\ a \in Nat /\ c \in Nat
  BY DEF KindByName
<1>2. \E name \in DOMAIN KindByName : KindByName[name] = kk
  BY DEF KindByName
<1>3. Body(m) = b
  <2>1. m.t # HELLO /\ m.t \notin {END_ROUND, FINISH} /\ m.t # MISSING
    BY DEF FRAME, HELLO, END_ROUND, FINISH, MISSING
  <2> QED
    BY <2>1 DEF Body
<1> HIDE DEF r, kk, a, c
<1>4. /\ hd \in Seq(Nat) /\ Len(hd) = 7 /\ hd[1] = FRAME
      /\ hd[3] = r /\ hd[4] = kk /\ hd[5] = a /\ hd[7] = c
  <2>1. FRAME \in Nat /\ r \in Nat /\ kk \in Nat
    BY <1>1 DEF FRAME
  <2> QED
    BY <1>1, <2>1
<1> HIDE DEF hd
<1>5. Continues(v, hd, m.scope)
  BY <1>4, ContinuesIs
<1>6. v \in Seq(Nat) /\ Len(v) = 7 + a /\ \A i \in 1 .. 7 : v[i] = hd[i]
  BY <1>4, <1>5 DEF Continues, a
<1> HIDE DEF v
<1>7. Continues(b, v, m.payload)
  BY <1>6, ContinuesIs
<1>8. b \in Seq(Nat) /\ Len(b) = (7 + a) + c
  BY <1>1, <1>6, <1>7 DEF Continues, c
<1>9. \A i \in 1 .. 7 : b[i] = hd[i]
  <2>1. ASSUME NEW i \in 1 .. 7 PROVE b[i] = hd[i]
    <3>1. i \in 1 .. 7 + a
      BY <1>1
    <3> QED
      BY <1>6, <1>7, <3>1 DEF Continues
  <2> QED
    BY <2>1
<1> HIDE DEF b
<1>10. b # <<>>
  <2> SUFFICES ASSUME b = <<>> PROVE FALSE
    OBVIOUS
  <2>1. Len(b) = 0
    OBVIOUS
  <2> QED
    BY <1>1, <1>8, <2>1
<1>11. /\ Len(d) = Len(b) - 1 /\ \A i \in 1 .. Len(b) - 1 : d[i] = b[i + 1]
  BY <1>8, <1>10, AfterType
<1> HIDE DEF d
<1>12. Len(d) = (6 + a) + c
  BY <1>1, <1>8, <1>11
<1>13. \A i \in 1 .. 6 : d[i] = hd[i + 1]
  <2>1. ASSUME NEW i \in 1 .. 6 PROVE d[i] = hd[i + 1]
    <3>1. i \in 1 .. Len(b) - 1 /\ i + 1 \in 1 .. 7
      BY <1>1, <1>8
    <3> QED
      BY <1>9, <1>11, <3>1
  <2> QED
    BY <2>1
<1>14. d[2] = r /\ d[3] = kk /\ d[4] = a /\ d[6] = c
  <2>1. d[2] = hd[2 + 1] /\ d[3] = hd[3 + 1] /\ d[4] = hd[4 + 1] /\ d[6] = hd[6 + 1]
    BY <1>13
  <2> QED
    BY <1>4, <2>1
<1>15. b[1] = FRAME
  BY <1>4, <1>9
<1>16. Len(d) >= FrameFields /\ FrameFits(d)
  BY <1>1, <1>12, <1>14 DEF FrameFields, FrameFits, PayloadStart
<1>17. DecodeFrame(d).t = FRAME
  <2> DEFINE R == [t |-> FRAME, seq |-> d[1], repair |-> d[2] = 1,
                   kind |-> CHOOSE name \in DOMAIN KindByName : KindByName[name] = d[3],
                   bound |-> d[5], scope |-> SubSeq(d, FrameFields + 1, PayloadStart(d)),
                   payload |-> SubSeq(d, PayloadStart(d) + 1, PayloadStart(d) + d[6])]
             known == \E name \in DOMAIN KindByName : KindByName[name] = d[3]
  <2>1. known
    BY <1>2, <1>14
  <2> HIDE DEF known
  <2>2. DecodeFrame(d) = IF Len(d) >= FrameFields /\ d[2] \in {0, 1} /\ known /\ FrameFits(d)
                         THEN R ELSE Malformed
    BY DEF DecodeFrame, known
  <2>3. R.t = FRAME
    OBVIOUS
  <2> HIDE DEF R
  <2> QED
    BY <1>1, <1>14, <1>16, <2>1, <2>2, <2>3
<1>18. Decode(b) = DecodeFrame(d)
  BY <1>10, <1>15, DecodeIs DEF d
<1>19. Decode(b) # Malformed
  BY <1>17, <1>18 DEF Malformed, FRAME
<1> QED
  BY <1>3, <1>8, <1>10, <1>19

LEMMA MissingDecodes ==
    ASSUME NEW m, m.t = MISSING, m.items \in Seq(Nat \X Nat)
    PROVE  /\ Body(m) \in Seq(Nat) /\ Body(m) # <<>>
           /\ Decode(Body(m)) # Malformed
<1> DEFINE n == Len(m.items)
           ss == m.items
           w == FlattenSeq(ss)
           hd == <<MISSING, n>>
           b == hd \o w
           d == Tail(b)
<1>1. n \in Nat
  OBVIOUS
<1>2. ss \in Seq(Seq(Nat)) /\ \A i \in 1 .. Len(ss) : Len(ss[i]) = 2
  <2>1. ASSUME NEW i \in 1 .. n PROVE ss[i] \in Seq(Nat) /\ Len(ss[i]) = 2
    <3>2. ss[i] \in Nat \X Nat
      BY <1>1
    <3> HIDE DEF ss
    <3>1. PICK x \in Nat, y \in Nat : ss[i] = <<x, y>>
      <4>1. PICK q \in Nat \X Nat : ss[i] = q
        BY <3>2
      <4>2. q[1] \in Nat /\ q[2] \in Nat /\ q = <<q[1], q[2]>>
        OBVIOUS
      <4> QED
        BY <4>1, <4>2
    <3> QED
      BY <3>1
  <2>3. DOMAIN ss = 1 .. n /\ ss = [i \in 1 .. n |-> ss[i]] /\ Len(ss) = n
    BY <1>1
  <2>2. ss \in [1 .. n -> Seq(Nat)]
    BY <2>1, <2>3
  <2>4. ss \in Seq(Seq(Nat))
    <3> HIDE DEF n, ss
    <3> QED
      BY <1>1, <2>2
  <2> QED
    BY <2>1, <2>3, <2>4
<1>3. Body(m) = b
  <2>1. m.t # HELLO /\ m.t \notin {END_ROUND, FINISH} /\ m.t # FRAME
    BY DEF FRAME, HELLO, END_ROUND, FINISH, MISSING
  <2> QED
    BY <2>1 DEF Body
<1>4. w \in Seq(Nat) /\ Len(w) = 2 * n
  BY <1>2, PairsLength
<1> HIDE DEF n, w
<1>5. hd \in Seq(Nat) /\ Len(hd) = 2 /\ hd[1] = MISSING /\ hd[2] = n
  BY <1>1 DEF MISSING
<1> HIDE DEF hd
<1>6. Continues(b, hd, w)
  BY <1>4, <1>5, ContinuesIs
<1>7. b \in Seq(Nat) /\ Len(b) = 2 + 2 * n /\ b[1] = MISSING /\ b[2] = n
  BY <1>4, <1>5, <1>6 DEF Continues
<1> HIDE DEF b
<1>8. b # <<>>
  <2> SUFFICES ASSUME b = <<>> PROVE FALSE
    OBVIOUS
  <2>1. Len(b) = 0
    OBVIOUS
  <2> QED
    BY <1>1, <1>7, <2>1
<1>9. /\ Len(d) = Len(b) - 1 /\ \A i \in 1 .. Len(b) - 1 : d[i] = b[i + 1]
  BY <1>7, <1>8, AfterType
<1> HIDE DEF d
<1>10. d[1] = n
  <2>1. 1 \in 1 .. Len(b) - 1
    BY <1>1, <1>7
  <2>2. d[1] = b[1 + 1]
    BY <1>9, <2>1
  <2> QED
    BY <1>7, <2>2
<1>11. Len(d) >= 1 /\ Len(d) = 1 + d[1] * ItemFields
  BY <1>1, <1>7, <1>9, <1>10 DEF ItemFields
<1>12. DecodeMissing(d).t = MISSING
  <2> DEFINE R == [t |-> MISSING, items |-> [i \in 1 .. d[1] |-> ItemAt(d, i)]]
  <2>1. DecodeMissing(d) = R
    BY <1>11 DEF DecodeMissing
  <2> QED
    BY <2>1
<1>13. Decode(b) = DecodeMissing(d)
  BY <1>7, <1>8, DecodeIs DEF d
<1>14. Decode(b) # Malformed
  BY <1>12, <1>13 DEF Malformed, MISSING
<1> QED
  BY <1>3, <1>7, <1>8, <1>14

\* Whatever can be sent is taken for a message.
LEMMA EveryMessageDecodes ==
    ASSUME NEW m \in Messages
    PROVE  /\ Body(m) \in Seq(Nat) /\ Body(m) # <<>>
           /\ Decode(Body(m)) # Malformed
<1>0. /\ HELLO \in Nat /\ END_ROUND \in Nat /\ FINISH \in Nat
      /\ HELLO # 0 /\ END_ROUND # 0 /\ FINISH # 0
      /\ HELLO # END_ROUND /\ HELLO # FINISH
  BY DEF HELLO, END_ROUND, FINISH
<1>1. \A x \in Fields : x \in Nat
  BY WireAssumption DEF Fields
<1>2. BoundedSeq(Fields, MaxField) \subseteq Seq(Nat)
      /\ BoundedSeq(Fields \X Fields, MaxField) \subseteq Seq(Nat \X Nat)
  <2>1. ASSUME NEW k \in 0 .. MaxField, NEW f \in [1 .. k -> Fields] PROVE f \in Seq(Nat)
    BY <1>1, WireAssumption
  <2>2. ASSUME NEW k \in 0 .. MaxField, NEW f \in [1 .. k -> Fields \X Fields]
        PROVE  f \in Seq(Nat \X Nat)
    BY <1>1, WireAssumption
  <2> QED
    BY <2>1, <2>2 DEF BoundedSeq, SeqOf
<1>3. CASE m \in [t : {HELLO}, version : Fields, chunkSize : Fields, frameCount : Fields]
  <2> DEFINE b == <<HELLO, m.version, m.chunkSize, m.frameCount>>
  <2>1. m.t = HELLO /\ m.version \in Nat /\ m.chunkSize \in Nat /\ m.frameCount \in Nat
    BY <1>1, <1>3
  <2>2. Body(m) = b
    BY <2>1 DEF Body, HELLO, END_ROUND, FINISH, FRAME, MISSING
  <2>3. b \in Seq(Nat) /\ b # <<>> /\ Len(b) = 4 /\ b[1] = HELLO
    BY <1>0, <2>1
  <2> HIDE DEF b
  <2>4. Len(Tail(b)) = 3
    <3>1. Len(Tail(b)) = Len(b) - 1
      BY <2>3, AfterType
    <3> QED
      BY <2>3, <3>1
  <2>5. Decode(b).t = HELLO
    BY <2>3, <2>4, DecodeIs
  <2>6. Decode(b) # Malformed
    BY <1>0, <2>5 DEF Malformed
  <2> QED
    BY <2>2, <2>3, <2>6
<1>4. CASE m \in [t : {END_ROUND, FINISH}]
  <2> DEFINE b == <<m.t>>
  <2>1. m.t \in {END_ROUND, FINISH}
    BY <1>4
  <2>2. Body(m) = b
    <3>1. m.t # HELLO /\ m.t # FRAME /\ m.t # MISSING
      BY <2>1 DEF HELLO, END_ROUND, FINISH, FRAME, MISSING
    <3> QED
      BY <2>1, <3>1 DEF Body
  <2>3. b \in Seq(Nat) /\ b # <<>> /\ Len(b) = 1 /\ b[1] = m.t
    BY <1>0, <2>1
  <2>4. Tail(b) = <<>>
    OBVIOUS
  <2> HIDE DEF b
  <2>5. Decode(b).t = m.t
    BY <2>1, <2>3, <2>4, DecodeIs
  <2>6. Decode(b) # Malformed
    BY <1>0, <2>1, <2>5 DEF Malformed
  <2> QED
    BY <2>2, <2>3, <2>6
<1>5. CASE m \in [t : {FRAME}, seq : Fields, repair : BOOLEAN, kind : {"FULL", "REF"},
                  bound : Fields, scope : BoundedSeq(Fields, MaxField),
                  payload : BoundedSeq(Fields, MaxField)]
  <2>1. /\ m.t = FRAME /\ m.seq \in Nat /\ m.bound \in Nat /\ m.repair \in BOOLEAN
        /\ m.kind \in {"FULL", "REF"} /\ m.scope \in Seq(Nat) /\ m.payload \in Seq(Nat)
    BY <1>1, <1>2, <1>5
  <2> QED
    BY <2>1, FrameDecodes
<1>6. CASE m \in [t : {MISSING}, items : BoundedSeq(Fields \X Fields, MaxField)]
  <2>1. m.t = MISSING /\ m.items \in Seq(Nat \X Nat)
    BY <1>2, <1>6
  <2> QED
    BY <2>1, MissingDecodes
<1> QED
  BY <1>3, <1>4, <1>5, <1>6 DEF Messages

\* What carries the first k of some bodies.
FramedOf(s, k) == FlattenSeq([i \in 1 .. k |-> Framed(s[i])])

\* A body in its frame: its length, and itself.
LEMMA FramedIs ==
    ASSUME NEW b \in Seq(Nat)
    PROVE  /\ Framed(b) \in Seq(Nat) /\ Len(Framed(b)) = 1 + Len(b)
           /\ Framed(b)[1] = Len(b) /\ \A j \in 1 .. Len(b) : Framed(b)[1 + j] = b[j]
<1> DEFINE hd == <<Len(b)>>
           f == hd \o b
<1>1. hd \in Seq(Nat) /\ Len(hd) = 1 /\ hd[1] = Len(b)
  OBVIOUS
<1> HIDE DEF hd
<1>2. Continues(f, hd, b)
  BY <1>1, ContinuesIs
<1> HIDE DEF f
<1>3. /\ f \in Seq(Nat) /\ Len(f) = 1 + Len(b)
      /\ f[1] = Len(b) /\ \A j \in 1 .. Len(b) : f[1 + j] = b[j]
  BY <1>1, <1>2 DEF Continues
<1> QED
  BY <1>3 DEF f, hd, Framed

\* One body more.
LEMMA FramedMore ==
    ASSUME NEW s \in Seq(Seq(Nat)), NEW k \in Nat, k + 1 <= Len(s)
    PROVE  /\ FramedOf(s, k) \in Seq(Nat) /\ FramedOf(s, 0) = <<>>
           /\ FramedOf(s, k + 1) \in Seq(Nat)
           /\ Continues(FramedOf(s, k + 1), FramedOf(s, k), Framed(s[k + 1]))
<1> DEFINE ss == [i \in 1 .. k |-> Framed(s[i])]
           tt == [i \in 1 .. k + 1 |-> Framed(s[i])]
           e == Framed(s[k + 1])
<1>1. \A i \in 1 .. k + 1 : s[i] \in Seq(Nat)
  <2>1. \A i \in 1 .. k + 1 : i \in 1 .. Len(s)
    OBVIOUS
  <2> QED
    BY <2>1
<1>2. \A i \in 1 .. k + 1 : Framed(s[i]) \in Seq(Nat)
  BY <1>1, FramedIs
<1>3. ss \in Seq(Seq(Nat)) /\ Len(ss) = k /\ \A i \in 1 .. k : ss[i] = Framed(s[i])
  <2>1. ss \in [1 .. k -> Seq(Nat)]
    BY <1>2
  <2> QED
    BY <2>1
<1>4. tt \in Seq(Seq(Nat)) /\ Len(tt) = k + 1 /\ \A i \in 1 .. k + 1 : tt[i] = Framed(s[i])
  <2>1. tt \in [1 .. k + 1 -> Seq(Nat)]
    BY <1>2
  <2>2. k + 1 \in Nat
    OBVIOUS
  <2> QED
    BY <2>1, <2>2
<1>5. e \in Seq(Nat)
  BY <1>2
<1> HIDE DEF ss, tt, e
<1>6. tt = Append(ss, e)
  <2> DEFINE u == Append(ss, e)
  <2>1. u \in Seq(Seq(Nat)) /\ Len(u) = k + 1 /\ u[k + 1] = e /\ \A i \in 1 .. k : u[i] = ss[i]
    BY <1>3, <1>5
  <2> HIDE DEF u
  <2>2. ASSUME NEW i \in 1 .. k + 1 PROVE tt[i] = u[i]
    <3>1. CASE i = k + 1
      BY <1>4, <2>1, <3>1 DEF e
    <3>2. CASE i # k + 1
      <4>1. i \in 1 .. k
        BY <3>2
      <4> QED
        BY <1>3, <1>4, <2>1, <4>1
    <3> QED
      BY <3>1, <3>2
  <2>3. tt = u
    BY <1>4, <2>1, <2>2, SeqEqual
  <2> QED
    BY <2>3 DEF u
<1>7. /\ FlattenSeq(tt) = FlattenSeq(ss) \o e /\ FlattenSeq(ss) \in Seq(Nat)
      /\ FlattenSeq(<<>>) = <<>>
  BY <1>3, <1>5, <1>6, FlattenAppend
<1>8. Continues(FlattenSeq(tt), FlattenSeq(ss), e)
  BY <1>5, <1>7, ContinuesIs
<1>9. FramedOf(s, 0) = <<>>
  <2>1. [i \in 1 .. 0 |-> Framed(s[i])] = <<>>
    OBVIOUS
  <2> QED
    BY <1>7, <2>1 DEF FramedOf
<1> QED
  BY <1>7, <1>8, <1>9 DEF FramedOf, ss, tt, e, Continues

\* The first k bodies, from the stream of n.
StreamStarting(s, k, n) ==
    /\ FramedOf(s, n) \in Seq(Nat)
    /\ Len(FramedOf(s, k)) <= Len(FramedOf(s, n))
    /\ \A x \in 1 .. Len(FramedOf(s, k)) : FramedOf(s, n)[x] = FramedOf(s, k)[x]

LEMMA NoBodies ==
    ASSUME NEW s
    PROVE  FramedOf(s, 0) = <<>>
<1>1. [i \in 1 .. 0 |-> Framed(s[i])] = <<>>
  OBVIOUS
<1> QED
  BY <1>1 DEF FramedOf, FlattenSeq

LEMMA StreamOfBodies ==
    ASSUME NEW s \in Seq(Seq(Nat)), NEW k \in 0 .. Len(s)
    PROVE  FramedOf(s, k) \in Seq(Nat)
<1>1. CASE k = 0
  <2>1. FramedOf(s, k) = <<>>
    BY <1>1, NoBodies
  <2> QED
    BY <2>1
<1>2. CASE k # 0
  <2>1. PICK l \in Nat : k = l + 1 /\ l + 1 <= Len(s)
    <3>1. k - 1 \in Nat /\ k = (k - 1) + 1 /\ (k - 1) + 1 <= Len(s)
      BY <1>2
    <3> QED
      BY <3>1
  <2> QED
    BY <2>1, FramedMore
<1> QED
  BY <1>1, <1>2

LEMMA StreamStarts ==
    ASSUME NEW s \in Seq(Seq(Nat)), NEW k \in 0 .. Len(s), NEW n \in k .. Len(s)
    PROVE  StreamStarting(s, k, n)
<1>0. PICK l \in Nat : l = Len(s)
  OBVIOUS
<1> DEFINE P == {i \in Nat : k + i <= l => StreamStarting(s, k, k + i)}
<1>1. 0 \in P
  <2>1. k + 0 = k /\ k \in Nat
    BY <1>0
  <2>2. StreamStarting(s, k, k)
    BY StreamOfBodies DEF StreamStarting
  <2> QED
    BY <2>1, <2>2
<1>2. ASSUME NEW i \in P PROVE i + 1 \in P
  <2>1. SUFFICES ASSUME k + (i + 1) <= l PROVE StreamStarting(s, k, k + (i + 1))
    OBVIOUS
  <2>2. PICK j \in Nat : j = k + i /\ k + (i + 1) = j + 1 /\ j + 1 <= Len(s) /\ k + i <= l
    BY <1>0, <2>1
  <2>3. StreamStarting(s, k, j)
    BY <2>2
  <2>4. /\ FramedOf(s, j + 1) \in Seq(Nat) /\ FramedOf(s, j) \in Seq(Nat)
        /\ Continues(FramedOf(s, j + 1), FramedOf(s, j), Framed(s[j + 1]))
    BY <2>2, FramedMore
  <2> DEFINE a == FramedOf(s, k)
             b == FramedOf(s, j)
             c == FramedOf(s, j + 1)
             e == Framed(s[j + 1])
  <2>5. e \in Seq(Nat)
    <3>1. j + 1 \in 1 .. Len(s)
      BY <2>2
    <3>2. s[j + 1] \in Seq(Nat)
      BY <3>1
    <3> QED
      BY <3>2, FramedIs
  <2>6. a \in Seq(Nat)
    BY StreamOfBodies
  <2>7. Len(a) <= Len(b) /\ \A x \in 1 .. Len(a) : b[x] = a[x]
    BY <2>3 DEF StreamStarting
  <2>8. c \in Seq(Nat) /\ Continues(c, b, e) /\ b \in Seq(Nat)
    BY <2>4
  <2> HIDE DEF a, b, c, e
  <2>9. Len(a) <= Len(c) /\ \A x \in 1 .. Len(a) : c[x] = a[x]
    <3>1. Len(a) \in Nat /\ Len(b) \in Nat /\ Len(e) \in Nat
      BY <2>5, <2>6, <2>8
    <3>2. Len(c) = Len(b) + Len(e) /\ \A x \in 1 .. Len(b) : c[x] = b[x]
      BY <2>8 DEF Continues
    <3>3. Len(a) <= Len(b) /\ \A x \in 1 .. Len(a) : b[x] = a[x]
      BY <2>7
    <3>4. Len(a) <= Len(c)
      BY <3>1, <3>2, <3>3
    <3>5. \A x \in 1 .. Len(a) : x \in 1 .. Len(b)
      BY <3>1, <3>3
    <3> QED
      BY <3>2, <3>3, <3>4, <3>5
  <2>10. StreamStarting(s, k, j + 1)
    BY <2>8, <2>9 DEF StreamStarting, a, c
  <2> QED
    BY <2>2, <2>10
<1>3. P = Nat
  <2> HIDE DEF P
  <2>1. P \subseteq Nat
    BY DEF P
  <2> QED
    BY <1>1, <1>2, <2>1, AllOfNat
<1>4. PICK i \in Nat : k + i = n /\ k + i <= l
  <2>1. n - k \in Nat /\ k + (n - k) = n /\ k + (n - k) <= l
    BY <1>0
  <2> QED
    BY <2>1
<1>5. i \in P
  <2> HIDE DEF P
  <2> QED
    BY <1>3
<1> QED
  BY <1>4, <1>5

\* Where the k-th body ends.
EndOf(s, k) == Len(FramedOf(s, k))

\* The frame after the k-th, in the stream of all.
LEMMA NextFrame ==
    ASSUME NEW s \in Seq(Seq(Nat)), NEW k \in Nat, k < Len(s), NEW w,
           w = FramedOf(s, Len(s))
    PROVE  /\ EndOf(s, k) \in Nat /\ Len(s[k + 1]) \in Nat
           /\ EndOf(s, k + 1) = EndOf(s, k) + 1 + Len(s[k + 1])
           /\ EndOf(s, k + 1) <= Len(w)
           /\ w[EndOf(s, k) + 1] = Len(s[k + 1])
           /\ SubSeq(w, EndOf(s, k) + 2, EndOf(s, k) + 1 + Len(s[k + 1])) = s[k + 1]
<1> DEFINE u == FramedOf(s, k)
           v == FramedOf(s, k + 1)
           b == s[k + 1]
           e == Framed(b)
<1>0. Len(s) \in Nat /\ k + 1 \in 0 .. Len(s) /\ k + 1 \in 1 .. Len(s)
      /\ Len(s) \in (k + 1) .. Len(s)
  OBVIOUS
<1>1. b \in Seq(Nat)
  BY <1>0
<1>2. /\ u \in Seq(Nat) /\ v \in Seq(Nat) /\ Continues(v, u, e)
  <2>1. k + 1 <= Len(s)
    BY <1>0
  <2> QED
    BY <2>1, FramedMore
<1>3. StreamStarting(s, k + 1, Len(s))
  BY <1>0, StreamStarts
<1>4. /\ w \in Seq(Nat) /\ Len(v) <= Len(w) /\ \A x \in 1 .. Len(v) : w[x] = v[x]
  BY <1>3 DEF StreamStarting
<1> HIDE DEF b
<1>5. /\ e \in Seq(Nat) /\ Len(e) = 1 + Len(b)
      /\ e[1] = Len(b) /\ \A j \in 1 .. Len(b) : e[1 + j] = b[j]
  BY <1>1, FramedIs
<1> HIDE DEF u, v, e
<1>6. PICK a \in Nat, c \in Nat : a = Len(u) /\ c = Len(b)
  BY <1>1, <1>2
<1>7. Len(e) = 1 + c
  BY <1>5, <1>6
<1>8. Len(v) = a + (1 + c) /\ \A j \in 1 .. 1 + c : v[a + j] = e[j]
  BY <1>2, <1>6, <1>7 DEF Continues
<1>9. ASSUME NEW j \in 1 .. 1 + c PROVE w[a + j] = e[j]
  <2>1. a + j \in 1 .. a + (1 + c)
    OBVIOUS
  <2>2. w[a + j] = v[a + j]
    BY <1>4, <1>8, <2>1
  <2> QED
    BY <1>8, <2>2
<1>10. w[a + 1] = Len(b)
  <2>1. 1 \in 1 .. 1 + c
    OBVIOUS
  <2> QED
    BY <1>5, <1>9, <2>1
<1>11. SubSeq(w, a + 2, a + 1 + c) = b
  <2>1. PICK m \in Nat : m = a + 1
    OBVIOUS
  <2>2. Len(w) \in Nat /\ m + c <= Len(w)
    <3>1. Len(w) \in Nat
      BY <1>4
    <3> QED
      BY <1>4, <1>8, <2>1, <3>1
  <2>3. /\ SubSeq(w, m + 1, m + c) \in Seq(Nat) /\ Len(SubSeq(w, m + 1, m + c)) = c
        /\ \A i \in 1 .. c : SubSeq(w, m + 1, m + c)[i] = w[m + i]
    BY <1>4, <2>2, Middle
  <2>4. ASSUME NEW i \in 1 .. c PROVE SubSeq(w, m + 1, m + c)[i] = b[i]
    <3>1. m + i = a + (1 + i) /\ 1 + i \in 1 .. 1 + c
      BY <2>1
    <3>2. w[m + i] = e[1 + i]
      BY <1>9, <3>1
    <3>3. e[1 + i] = b[i]
      BY <1>5, <1>6
    <3> QED
      BY <2>3, <3>2, <3>3
  <2>5. SubSeq(w, m + 1, m + c) = b
    BY <1>1, <1>6, <2>3, <2>4, SeqEqual
  <2>6. m + 1 = a + 2 /\ m + c = a + 1 + c
    BY <2>1
  <2> QED
    BY <2>5, <2>6
<1>12. a + (1 + c) = a + 1 + c
  OBVIOUS
<1>13. EndOf(s, k) = a /\ EndOf(s, k + 1) = a + 1 + c
  BY <1>6, <1>8, <1>12 DEF EndOf, u, v
<1>14. EndOf(s, k + 1) <= Len(w)
  BY <1>4, <1>8, <1>12, <1>13
<1>15. s[k + 1] = b
  BY DEF b
<1> QED
  BY <1>6, <1>10, <1>11, <1>13, <1>14, <1>15

\* Bodies end in their order.
LEMMA EndsInOrder ==
    ASSUME NEW s \in Seq(Seq(Nat)), NEW k \in 0 .. Len(s), NEW n \in k .. Len(s)
    PROVE  EndOf(s, k) <= EndOf(s, n) /\ EndOf(s, k) \in Nat /\ EndOf(s, n) \in Nat
<1>1. StreamStarting(s, k, n)
  BY StreamStarts
<1>2. FramedOf(s, k) \in Seq(Nat)
  BY StreamOfBodies
<1>3. FramedOf(s, n) \in Seq(Nat)
  BY <1>1 DEF StreamStarting
<1> QED
  BY <1>1, <1>2, <1>3 DEF StreamStarting, EndOf

\* A further body changes nothing of those before it.
LEMMA StreamGrows ==
    ASSUME NEW s \in Seq(Seq(Nat)), NEW b \in Seq(Nat)
    PROVE  /\ FramedOf(Append(s, b), Len(s) + 1) = FramedOf(s, Len(s)) \o Framed(b)
           /\ \A k \in 0 .. Len(s) : FramedOf(Append(s, b), k) = FramedOf(s, k)
           /\ FramedOf(Append(s, b), Len(s) + 1) \in Seq(Nat)
           /\ Len(FramedOf(s, Len(s))) <= Len(FramedOf(Append(s, b), Len(s) + 1))
<1> DEFINE t == Append(s, b)
           l == Len(s)
<1>1. /\ l \in Nat /\ t \in Seq(Seq(Nat)) /\ Len(t) = l + 1 /\ t[l + 1] = b
      /\ \A i \in 1 .. l : t[i] = s[i]
  OBVIOUS
<1> HIDE DEF t
<1>2. ASSUME NEW k \in 0 .. l PROVE FramedOf(t, k) = FramedOf(s, k)
  <2>1. \A i \in 1 .. k : i \in 1 .. l
    BY <1>1
  <2>2. \A i \in 1 .. k : t[i] = s[i]
    BY <1>1, <2>1
  <2>3. [i \in 1 .. k |-> Framed(t[i])] = [i \in 1 .. k |-> Framed(s[i])]
    BY <2>2
  <2> QED
    BY <2>3 DEF FramedOf
<1>3. /\ FramedOf(t, l) \in Seq(Nat) /\ FramedOf(t, l + 1) \in Seq(Nat)
      /\ Continues(FramedOf(t, l + 1), FramedOf(t, l), Framed(t[l + 1]))
  <2>1. l + 1 <= Len(t)
    BY <1>1
  <2> QED
    BY <1>1, <2>1, FramedMore
<1>4. FramedOf(t, l) = FramedOf(s, l)
  BY <1>1, <1>2
<1>5. Framed(b) \in Seq(Nat)
  BY FramedIs
<1>6. /\ Len(FramedOf(t, l + 1)) = Len(FramedOf(s, l)) + Len(Framed(b))
      /\ Len(FramedOf(s, l)) \in Nat /\ Len(Framed(b)) \in Nat
  BY <1>1, <1>3, <1>4, <1>5 DEF Continues
<1>7. FramedOf(t, l + 1) = FramedOf(s, l) \o Framed(b)
  <2>1. Continues(FramedOf(s, l) \o Framed(b), FramedOf(s, l), Framed(b))
    BY <1>3, <1>4, <1>5, ContinuesIs
  <2>2. Continues(FramedOf(t, l + 1), FramedOf(s, l), Framed(b))
    BY <1>1, <1>3, <1>4
  <2> QED
    BY <1>6, <2>1, <2>2, ContinuesUnique
<1> QED
  BY <1>2, <1>3, <1>6, <1>7 DEF t

\* A body that is odd, or one a reader takes for a message.
OddOrWhole(b) == b \in OddBodies \/ (Len(b) \in 1 .. MaxMessage /\ Decode(b) # Malformed)

Decodable == {Decode(b) : b \in Seq(Nat)}

\* Where a reader is that has not refused anything: before a header, or after it.
Place ==
    \/ length = 0 /\ position = EndOf(sent, Len(read))
    \/ /\ length # 0 /\ Len(read) < Len(sent) /\ length = Len(sent[Len(read) + 1])
       /\ position = EndOf(sent, Len(read)) + 1

\* What holds of the stream, however it is cut and whatever is sent.
SentInv ==
    /\ sent \in Seq(Seq(Nat)) /\ \A i \in 1 .. Len(sent) : OddOrWhole(sent[i])
    /\ stream = FramedOf(sent, Len(sent))
    /\ delivered \in 0 .. Len(stream)
    /\ body \in Seq(Nat)

ReadInv ==
    /\ position \in 0 .. delivered /\ length \in 0 .. MaxMessage
    /\ reader \in {"reading", "ended", "refused"}
    /\ read \in Seq(Decodable) /\ Len(read) <= Len(sent)
    /\ \A i \in 1 .. Len(read) : Body(read[i]) = sent[i]
    /\ reader # "refused" => Place
    /\ reader = "ended" => cut /\ delivered < position + (IF length = 0 THEN 1 ELSE length)
    /\ RefusesOnlyOdd

WireInv == SentInv /\ ReadInv

LEMMA WireInvInitially == StreamInit => WireInv
<1> SUFFICES ASSUME StreamInit PROVE WireInv
  OBVIOUS
<1>1. FramedOf(sent, 0) = <<>>
  BY NoBodies
<1>2. /\ sent = <<>> /\ stream = <<>> /\ delivered = 0 /\ position = 0 /\ length = 0
      /\ read = <<>> /\ reader = "reading" /\ body = <<>>
  BY DEF StreamInit
<1>3. Len(sent) = 0 /\ sent \in Seq(Seq(Nat)) /\ Len(read) = 0 /\ read \in Seq(Decodable)
      /\ Len(stream) = 0 /\ body \in Seq(Nat)
  BY <1>2
<1>4. SentInv
  BY <1>1, <1>2, <1>3 DEF SentInv
<1>5. Place
  <2>1. EndOf(sent, Len(read)) = 0
    BY <1>1, <1>2, <1>3 DEF EndOf
  <2> QED
    BY <1>2, <2>1 DEF Place
<1>6. 0 \in 0 .. MaxMessage /\ 0 \in 0 .. 0
  BY WireAssumption
<1>7. ReadInv
  BY <1>2, <1>3, <1>5, <1>6 DEF ReadInv, RefusesOnlyOdd
<1> QED
  BY <1>4, <1>7 DEF WireInv

\* Of what is there already, a further body changes nothing.
LEMMA WritePreserves ==
    ASSUME WireInv, NEW b \in Seq(Nat), OddOrWhole(b), Write(b), body' = body
    PROVE  WireInv'
<1>1. /\ sent' = Append(sent, b) /\ stream' = stream \o Framed(b) /\ ~ cut
      /\ delivered' = delivered /\ cut' = cut /\ position' = position /\ length' = length
      /\ read' = read /\ reader' = reader
  BY DEF Write
<1>2. sent \in Seq(Seq(Nat)) /\ stream = FramedOf(sent, Len(sent)) /\ Len(sent) \in Nat
  BY DEF WireInv, SentInv
<1>3. /\ sent' \in Seq(Seq(Nat)) /\ Len(sent') = Len(sent) + 1 /\ sent'[Len(sent) + 1] = b
      /\ \A i \in 1 .. Len(sent) : sent'[i] = sent[i]
  BY <1>1, <1>2
<1>4. /\ FramedOf(sent', Len(sent) + 1) = FramedOf(sent, Len(sent)) \o Framed(b)
      /\ \A k \in 0 .. Len(sent) : FramedOf(sent', k) = FramedOf(sent, k)
      /\ FramedOf(sent', Len(sent) + 1) \in Seq(Nat)
      /\ Len(FramedOf(sent, Len(sent))) <= Len(FramedOf(sent', Len(sent) + 1))
  BY <1>1, <1>2, StreamGrows
<1>5. stream' = FramedOf(sent', Len(sent'))
  BY <1>1, <1>2, <1>3, <1>4
<1>6. delivered' \in 0 .. Len(stream')
  <2>1. delivered \in 0 .. Len(stream)
    BY DEF WireInv, SentInv
  <2>2. Len(stream) <= Len(stream') /\ Len(stream') \in Nat
    BY <1>2, <1>3, <1>4, <1>5
  <2> QED
    BY <1>1, <2>1, <2>2
<1>7. \A i \in 1 .. Len(sent') : OddOrWhole(sent'[i])
  <2>1. ASSUME NEW i \in 1 .. Len(sent') PROVE OddOrWhole(sent'[i])
    <3>1. CASE i = Len(sent) + 1
      BY <1>3, <3>1
    <3>2. CASE i # Len(sent) + 1
      <4>1. i \in 1 .. Len(sent)
        BY <1>2, <1>3, <3>2
      <4>2. OddOrWhole(sent[i])
        BY <4>1 DEF WireInv, SentInv
      <4> QED
        BY <1>3, <4>1, <4>2
    <3> QED
      BY <3>1, <3>2
  <2> QED
    BY <2>1
<1>8. SentInv'
  BY <1>3, <1>5, <1>6, <1>7 DEF SentInv, WireInv, OddOrWhole
<1>9. PICK k \in Nat : k = Len(read) /\ k <= Len(sent)
  BY DEF WireInv, ReadInv
<1>10. EndOf(sent', k) = EndOf(sent, k)
  BY <1>2, <1>4, <1>9 DEF EndOf
<1>11. k < Len(sent) => sent'[k + 1] = sent[k + 1]
  <2> SUFFICES ASSUME k < Len(sent) PROVE sent'[k + 1] = sent[k + 1]
    OBVIOUS
  <2>1. k + 1 \in 1 .. Len(sent)
    BY <1>2, <1>9
  <2> QED
    BY <1>3, <2>1
<1>12. Place => Place'
  <2> SUFFICES ASSUME Place PROVE Place'
    OBVIOUS
  <2>1. Len(read') = k
    BY <1>1, <1>9
  <2>2. CASE length = 0 /\ position = EndOf(sent, k)
    BY <1>1, <1>10, <2>1, <2>2 DEF Place
  <2>3. CASE /\ length # 0 /\ k < Len(sent) /\ length = Len(sent[k + 1])
             /\ position = EndOf(sent, k) + 1
    <3>1. k < Len(sent')
      BY <1>2, <1>3, <2>3
    <3> QED
      BY <1>1, <1>10, <1>11, <2>1, <2>3, <3>1 DEF Place
  <2> QED
    BY <1>9, <2>2, <2>3 DEF Place
<1>13. RefusesOnlyOdd'
  <2>1. reader = "refused" => k < Len(sent) /\ sent[k + 1] \in OddBodies
    BY <1>9 DEF WireInv, ReadInv, RefusesOnlyOdd
  <2>2. Len(read') = k
    BY <1>1, <1>9
  <2>3. reader' = "refused" => k < Len(sent') /\ sent'[k + 1] \in OddBodies
    BY <1>1, <1>2, <1>3, <1>11, <2>1
  <2> QED
    BY <2>2, <2>3 DEF RefusesOnlyOdd
<1>14. /\ position' \in 0 .. delivered' /\ length' \in 0 .. MaxMessage
       /\ reader' \in {"reading", "ended", "refused"}
       /\ read' \in Seq(Decodable) /\ Len(read') <= Len(sent')
  BY <1>1, <1>2, <1>3, <1>9 DEF WireInv, ReadInv
<1>15. \A i \in 1 .. Len(read') : Body(read'[i]) = sent'[i]
  <2>1. ASSUME NEW i \in 1 .. k PROVE Body(read[i]) = sent'[i]
    <3>1. i \in 1 .. Len(sent) /\ i \in 1 .. Len(read)
      BY <1>2, <1>9
    <3> QED
      BY <1>3, <3>1 DEF WireInv, ReadInv
  <2> QED
    BY <1>1, <1>9, <2>1
<1>16. reader' = "ended" => cut' /\ delivered' < position' + (IF length' = 0 THEN 1 ELSE length')
  BY <1>1 DEF WireInv, ReadInv
<1>17. reader' # "refused" => Place'
  BY <1>1, <1>12 DEF WireInv, ReadInv
<1> QED
  BY <1>8, <1>13, <1>14, <1>15, <1>16, <1>17 DEF WireInv, ReadInv

\* The frame after the k-th, in w.
NextIs(s, k, w) ==
    /\ EndOf(s, k + 1) = EndOf(s, k) + 1 + Len(s[k + 1])
    /\ w[EndOf(s, k) + 1] = Len(s[k + 1])
    /\ SubSeq(w, EndOf(s, k) + 2, EndOf(s, k) + 1 + Len(s[k + 1])) = s[k + 1]

LEMMA FrameOfStream ==
    ASSUME NEW s \in Seq(Seq(Nat)), NEW k \in Nat, k < Len(s), NEW w,
           w = FramedOf(s, Len(s))
    PROVE  NextIs(s, k, w)
BY NextFrame DEF NextIs

\* What the reader meets next, where it has not refused anything.
LEMMA NextOfStream ==
    ASSUME WireInv, reader # "refused", NEW k \in Nat, k = Len(read), NEW e \in Nat,
           e = EndOf(sent, k), delivered > position
    PROVE  /\ k < Len(sent) /\ sent[k + 1] \in Seq(Nat) /\ OddOrWhole(sent[k + 1])
           /\ EndOf(sent, k + 1) = e + 1 + Len(sent[k + 1])
           /\ stream[e + 1] = Len(sent[k + 1])
           /\ SubSeq(stream, e + 2, e + 1 + Len(sent[k + 1])) = sent[k + 1]
<1>1. /\ sent \in Seq(Seq(Nat)) /\ stream = FramedOf(sent, Len(sent)) /\ Len(sent) \in Nat
      /\ delivered \in 0 .. Len(stream) /\ Len(stream) = EndOf(sent, Len(sent))
      /\ position \in 0 .. delivered /\ Place /\ k <= Len(sent)
  BY DEF WireInv, SentInv, ReadInv, EndOf
<1>2. k < Len(sent)
  <2>1. SUFFICES ASSUME k = Len(sent) PROVE FALSE
    BY <1>1
  <2>2. CASE length = 0 /\ position = EndOf(sent, k)
    <3>1. position = Len(stream)
      BY <1>1, <2>1, <2>2
    <3>2. Len(stream) \in Nat
      BY <3>1, <2>2
    <3> QED
      BY <1>1, <3>1, <3>2
  <2>3. CASE length # 0 /\ k < Len(sent)
    BY <1>1, <2>1, <2>3
  <2> QED
    BY <1>1, <2>2, <2>3 DEF Place
<1>3. k + 1 \in 1 .. Len(sent)
  BY <1>1, <1>2
<1>4. sent[k + 1] \in Seq(Nat)
  BY <1>1, <1>3
<1>5. OddOrWhole(sent[k + 1])
  BY <1>3 DEF WireInv, SentInv
<1>6. /\ EndOf(sent, k + 1) = EndOf(sent, k) + 1 + Len(sent[k + 1])
      /\ stream[EndOf(sent, k) + 1] = Len(sent[k + 1])
      /\ SubSeq(stream, EndOf(sent, k) + 2, EndOf(sent, k) + 1 + Len(sent[k + 1])) = sent[k + 1]
  <2>1. sent \in Seq(Seq(Nat)) /\ stream = FramedOf(sent, Len(sent))
    BY <1>1
  <2>2. NextIs(sent, k, stream)
    BY <1>2, <2>1, FrameOfStream
  <2> QED
    BY <2>2 DEF NextIs
<1> QED
  BY <1>2, <1>4, <1>5, <1>6

\* A piece more, or none ever.
LEMMA FeedPreserves ==
    ASSUME WireInv, Feed \/ Cut, body' = body
    PROVE  WireInv'
<1>1. /\ ~ cut /\ sent' = sent /\ stream' = stream /\ position' = position
      /\ length' = length /\ read' = read /\ reader' = reader
      /\ \/ delivered' = delivered
         \/ delivered < Len(stream) /\ delivered' = delivered + 1
  BY DEF Feed, Cut
<1>2. /\ sent \in Seq(Seq(Nat)) /\ stream = FramedOf(sent, Len(sent)) /\ Len(sent) \in Nat
      /\ delivered \in 0 .. Len(stream) /\ position \in 0 .. delivered
      /\ reader # "ended"
  BY <1>1 DEF WireInv, SentInv, ReadInv
<1>3. Len(stream) \in Nat
  <2>1. FramedOf(sent, Len(sent)) \in Seq(Nat)
    BY <1>2, StreamOfBodies
  <2> QED
    BY <1>2, <2>1
<1>4. delivered' \in 0 .. Len(stream') /\ position' \in 0 .. delivered'
  BY <1>1, <1>2, <1>3
<1>5. SentInv'
  BY <1>1, <1>4 DEF WireInv, SentInv
<1>6. Place => Place'
  BY <1>1 DEF Place
<1>7. RefusesOnlyOdd'
  BY <1>1 DEF WireInv, ReadInv, RefusesOnlyOdd
<1>8. reader' # "ended"
  BY <1>1, <1>2
<1>9. ReadInv'
  BY <1>1, <1>4, <1>6, <1>7, <1>8 DEF WireInv, ReadInv
<1> QED
  BY <1>5, <1>9 DEF WireInv

\* A header is read where one is.
LEMMA ReadHeaderPreserves ==
    ASSUME WireInv, ReadHeader, body' = body
    PROVE  WireInv'
<1>1. /\ length = 0 /\ reader = "reading" /\ delivered - position >= 1
      /\ position' = position + 1 /\ sent' = sent /\ stream' = stream
      /\ delivered' = delivered /\ cut' = cut /\ read' = read
      /\ IF stream[position + 1] \in 1 .. MaxMessage
         THEN length' = stream[position + 1] /\ reader' = reader
         ELSE reader' = "refused" /\ length' = length
  BY DEF ReadHeader, Exactly, AfterHeader
<1>2. PICK k \in Nat : k = Len(read) /\ k <= Len(sent)
  BY DEF WireInv, ReadInv
<1>3. /\ position \in Nat /\ delivered \in Nat /\ position = EndOf(sent, k)
  <2>1. delivered \in Nat
    <3>1. /\ sent \in Seq(Seq(Nat)) /\ Len(sent) \in 0 .. Len(sent)
          /\ stream = FramedOf(sent, Len(sent)) /\ delivered \in 0 .. Len(stream)
      BY DEF WireInv, SentInv
    <3>2. stream \in Seq(Nat)
      BY <3>1, StreamOfBodies
    <3> QED
      BY <3>1, <3>2
  <2>2. position \in 0 .. delivered /\ Place
    BY <1>1 DEF WireInv, ReadInv
  <2> QED
    BY <1>1, <1>2, <2>1, <2>2 DEF Place
<1>4. delivered > position
  BY <1>1, <1>3
<1>5. /\ k < Len(sent) /\ sent[k + 1] \in Seq(Nat) /\ OddOrWhole(sent[k + 1])
      /\ stream[position + 1] = Len(sent[k + 1])
  <2>1. reader # "refused"
    BY <1>1
  <2> QED
    BY <1>2, <1>3, <1>4, <2>1, NextOfStream
<1>6. position' \in 0 .. delivered'
  BY <1>1, <1>3
<1>7. SentInv'
  BY <1>1 DEF WireInv, SentInv
<1>8. CASE stream[position + 1] \in 1 .. MaxMessage
  <2>1. length' = Len(sent[k + 1]) /\ length' \in 1 .. MaxMessage /\ reader' = "reading"
    BY <1>1, <1>5, <1>8
  <2>2. length' # 0 /\ length' \in 0 .. MaxMessage
    BY <2>1
  <2>3. Place'
    BY <1>1, <1>2, <1>3, <1>5, <2>1, <2>2 DEF Place
  <2>4. RefusesOnlyOdd'
    BY <2>1 DEF RefusesOnlyOdd
  <2>5. ReadInv'
    BY <1>1, <1>6, <2>1, <2>2, <2>3, <2>4 DEF WireInv, ReadInv
  <2> QED
    BY <1>7, <2>5 DEF WireInv
<1>9. CASE stream[position + 1] \notin 1 .. MaxMessage
  <2>1. reader' = "refused" /\ length' = length
    BY <1>1, <1>9
  <2>2. sent[k + 1] \in OddBodies
    BY <1>5, <1>9 DEF OddOrWhole
  <2>3. RefusesOnlyOdd'
    BY <1>1, <1>2, <1>5, <2>2 DEF RefusesOnlyOdd
  <2>4. ReadInv'
    BY <1>1, <1>6, <2>1, <2>3 DEF WireInv, ReadInv
  <2> QED
    BY <1>7, <2>4 DEF WireInv
<1> QED
  BY <1>8, <1>9

\* The body that is read is the next that was written, and it is the body of
\* what is returned for it.
LEMMA ReadBodyPreserves ==
    ASSUME WireInv, ReadBody, body' = body
    PROVE  WireInv'
<1> DEFINE b == SubSeq(stream, position + 1, position + length)
<1>1. /\ length # 0 /\ reader = "reading" /\ delivered - position >= length
      /\ position' = position + length /\ length' = 0 /\ sent' = sent /\ stream' = stream
      /\ delivered' = delivered /\ cut' = cut
      /\ IF Decode(b) = Malformed
         THEN reader' = "refused" /\ read' = read
         ELSE read' = Append(read, Decode(b)) /\ reader' = reader
  BY DEF ReadBody, Exactly
<1> HIDE DEF b
<1>2. PICK k \in Nat : k = Len(read) /\ k <= Len(sent)
  BY DEF WireInv, ReadInv
<1>3. /\ delivered \in Nat /\ position \in Nat /\ length \in Nat
      /\ length = Len(sent[k + 1]) /\ position = EndOf(sent, k) + 1
      /\ sent \in Seq(Seq(Nat)) /\ Len(sent) \in Nat
  <2>1. /\ sent \in Seq(Seq(Nat)) /\ Len(sent) \in 0 .. Len(sent)
        /\ stream = FramedOf(sent, Len(sent)) /\ delivered \in 0 .. Len(stream)
    BY DEF WireInv, SentInv
  <2>2. stream \in Seq(Nat)
    BY <2>1, StreamOfBodies
  <2>3. position \in 0 .. delivered /\ Place /\ length \in 0 .. MaxMessage
    BY <1>1 DEF WireInv, ReadInv
  <2> QED
    BY <1>1, <1>2, <2>1, <2>2, <2>3 DEF Place
<1>4. delivered > position
  BY <1>1, <1>3
<1>5. PICK e \in Nat : e = EndOf(sent, k) /\ position = e + 1
  <2>1. EndOf(sent, k) \in Nat
    <3>1. k \in 0 .. Len(sent)
      BY <1>2, <1>3
    <3>2. FramedOf(sent, k) \in Seq(Nat)
      BY <1>3, <3>1, StreamOfBodies
    <3> QED
      BY <3>2 DEF EndOf
  <2> QED
    BY <1>3, <2>1
<1>6. /\ k < Len(sent) /\ sent[k + 1] \in Seq(Nat) /\ OddOrWhole(sent[k + 1])
      /\ EndOf(sent, k + 1) = e + 1 + Len(sent[k + 1])
      /\ SubSeq(stream, e + 2, e + 1 + Len(sent[k + 1])) = sent[k + 1]
  <2>1. reader # "refused"
    BY <1>1
  <2> QED
    BY <1>2, <1>4, <1>5, <2>1, NextOfStream
<1>7. b = sent[k + 1]
  <2>1. position + 1 = e + 2 /\ position + length = e + 1 + Len(sent[k + 1])
    BY <1>3, <1>5
  <2> QED
    BY <1>6, <2>1 DEF b
<1>8. position' = EndOf(sent, k + 1) /\ position' \in 0 .. delivered'
  <2>1. position + length = e + 1 + length
    BY <1>3, <1>5
  <2>2. position' = EndOf(sent, k + 1)
    BY <1>1, <1>3, <1>6, <2>1
  <2>3. position + length \in 0 .. delivered
    <3>1. /\ delivered \in Nat /\ position \in Nat /\ length \in Nat
          /\ delivered - position >= length
      BY <1>1, <1>3
    <3>2. position + length \in Nat /\ position + length <= delivered
      BY <3>1
    <3> QED
      BY <3>2
  <2> QED
    BY <1>1, <2>2, <2>3
<1>9. SentInv'
  BY <1>1 DEF WireInv, SentInv
<1>10. length' \in 0 .. MaxMessage
  BY <1>1, WireAssumption
<1>11. CASE Decode(b) = Malformed
  <2>1. reader' = "refused" /\ read' = read
    BY <1>1, <1>11
  <2>2. sent[k + 1] \in OddBodies
    BY <1>6, <1>7, <1>11 DEF OddOrWhole
  <2>3. RefusesOnlyOdd'
    BY <1>1, <1>2, <1>6, <2>1, <2>2 DEF RefusesOnlyOdd
  <2>4. ReadInv'
    BY <1>1, <1>8, <1>10, <2>1, <2>3 DEF WireInv, ReadInv
  <2> QED
    BY <1>9, <2>4 DEF WireInv
<1>12. CASE Decode(b) # Malformed
  <2> DEFINE m == Decode(b)
  <2>1. reader' = "reading" /\ read' = Append(read, m)
    BY <1>1, <1>12
  <2>2. m \in Decodable
    BY <1>6, <1>7 DEF Decodable
  <2>3. Body(m) = sent[k + 1]
    <3>1. Canonical(b)
      BY <1>6, <1>7, EveryBodyCanonical
    <3> QED
      BY <1>7, <1>12, <3>1 DEF Canonical
  <2> HIDE DEF m
  <2>4. read \in Seq(Decodable)
    BY DEF WireInv, ReadInv
  <2>5. /\ read' \in Seq(Decodable) /\ Len(read') = k + 1 /\ read'[k + 1] = m
        /\ \A i \in 1 .. k : read'[i] = read[i]
    BY <1>2, <2>1, <2>2, <2>4
  <2>6. \A i \in 1 .. Len(read') : Body(read'[i]) = sent'[i]
    <3>1. ASSUME NEW i \in 1 .. k + 1 PROVE Body(read'[i]) = sent[i]
      <4>1. CASE i = k + 1
        BY <2>3, <2>5, <4>1
      <4>2. CASE i # k + 1
        <5>1. i \in 1 .. k
          BY <4>2
        <5>2. Body(read[i]) = sent[i]
          BY <1>2, <5>1 DEF WireInv, ReadInv
        <5> QED
          BY <2>5, <5>1, <5>2
      <4> QED
        BY <4>1, <4>2
    <3> QED
      BY <1>1, <2>5, <3>1
  <2>7. Place'
    BY <1>1, <1>8, <2>5 DEF Place
  <2>8. RefusesOnlyOdd'
    BY <2>1 DEF RefusesOnlyOdd
  <2>9. Len(read') <= Len(sent')
    BY <1>1, <1>2, <1>3, <1>6, <2>5
  <2>10. ReadInv'
    BY <1>1, <1>8, <1>10, <2>1, <2>5, <2>6, <2>7, <2>8, <2>9 DEF ReadInv
  <2> QED
    BY <1>9, <2>10 DEF WireInv
<1> QED
  BY <1>11, <1>12

\* The reader ends where what it waits for will not come.
LEMMA ReadEndsPreserves ==
    ASSUME WireInv, ReadEnds, body' = body
    PROVE  WireInv'
<1>1. /\ reader = "reading" /\ cut /\ reader' = "ended" /\ sent' = sent /\ stream' = stream
      /\ delivered' = delivered /\ cut' = cut /\ position' = position
      /\ length' = length /\ read' = read
      /\ ~ (delivered - position >= (IF length = 0 THEN 1 ELSE length))
  BY DEF ReadEnds, Starved, Exactly
<1>2. SentInv'
  BY <1>1 DEF WireInv, SentInv
<1>3. delivered \in Nat /\ position \in Nat /\ length \in Nat
  <2>1. /\ sent \in Seq(Seq(Nat)) /\ Len(sent) \in 0 .. Len(sent)
        /\ stream = FramedOf(sent, Len(sent)) /\ delivered \in 0 .. Len(stream)
    BY DEF WireInv, SentInv
  <2>2. stream \in Seq(Nat)
    BY <2>1, StreamOfBodies
  <2>3. position \in 0 .. delivered /\ length \in 0 .. MaxMessage
    BY DEF WireInv, ReadInv
  <2> QED
    BY <2>1, <2>2, <2>3
<1>4. delivered < position + (IF length = 0 THEN 1 ELSE length)
  BY <1>1, <1>3
<1>5. Place
  BY <1>1 DEF WireInv, ReadInv
<1>6. Place'
  BY <1>1, <1>5 DEF Place
<1>7. RefusesOnlyOdd'
  BY <1>1 DEF RefusesOnlyOdd
<1>8. ReadInv'
  BY <1>1, <1>4, <1>6, <1>7 DEF WireInv, ReadInv
<1> QED
  BY <1>2, <1>8 DEF WireInv

\* Every step keeps reader and stream together.
LEMMA WireInvPreserved == WireInv /\ [WireNext]_wireVars => WireInv'
<1> SUFFICES ASSUME WireInv, [WireNext]_wireVars PROVE WireInv'
  OBVIOUS
<1>1. ASSUME StreamNext, body' = body PROVE WireInv'
  <2>1. ASSUME NEW m \in Sendable, Send(m) PROVE WireInv'
    <3>1. m \in Messages /\ Write(Body(m)) /\ Len(Body(m)) <= MaxMessage
      BY <2>1, StreamAssumption DEF Send, Encodable
    <3>2. /\ Body(m) \in Seq(Nat) /\ Body(m) # <<>> /\ Decode(Body(m)) # Malformed
      BY <3>1, EveryMessageDecodes
    <3>3. Len(Body(m)) \in 1 .. MaxMessage
      <4>1. Len(Body(m)) \in Nat \ {0}
        BY <3>2, AfterType
      <4> QED
        BY <3>1, <4>1, WireAssumption
    <3>4. OddOrWhole(Body(m))
      BY <3>2, <3>3 DEF OddOrWhole
    <3> QED
      BY <1>1, <3>1, <3>2, <3>4, WritePreserves
  <2>2. ASSUME NEW b \in OddBodies, Write(b) PROVE WireInv'
    <3>1. b \in Seq(Nat) /\ OddOrWhole(b)
      BY StreamAssumption DEF OddOrWhole
    <3> QED
      BY <1>1, <2>2, <3>1, WritePreserves
  <2>3. CASE Feed
    BY <1>1, <2>3, FeedPreserves
  <2>4. CASE Cut
    BY <1>1, <2>4, FeedPreserves
  <2>5. CASE ReadHeader
    BY <1>1, <2>5, ReadHeaderPreserves
  <2>6. CASE ReadBody
    BY <1>1, <2>6, ReadBodyPreserves
  <2>7. CASE ReadEnds
    BY <1>1, <2>7, ReadEndsPreserves
  <2> QED
    BY <1>1, <2>1, <2>2, <2>3, <2>4, <2>5, <2>6, <2>7 DEF StreamNext
<1>2. ASSUME UNCHANGED streamVars, body' \in Seq(Nat) PROVE WireInv'
  <2>1. /\ sent' = sent /\ stream' = stream /\ delivered' = delivered /\ cut' = cut
        /\ position' = position /\ length' = length /\ read' = read /\ reader' = reader
    BY <1>2 DEF streamVars
  <2>2. SentInv'
    BY <1>2, <2>1 DEF WireInv, SentInv
  <2>3. Place => Place'
    BY <2>1 DEF Place
  <2>4. RefusesOnlyOdd'
    BY <2>1 DEF WireInv, ReadInv, RefusesOnlyOdd
  <2>5. ReadInv'
    BY <2>1, <2>3, <2>4 DEF WireInv, ReadInv
  <2> QED
    BY <2>2, <2>5 DEF WireInv
<1>3. CASE StreamNext /\ UNCHANGED body
  BY <1>1, <1>3
<1>4. CASE Grow /\ UNCHANGED streamVars
  <2>1. PICK u \in Nat : body' = Append(body, u)
    BY <1>4, StreamAssumption DEF Grow
  <2>2. body' \in Seq(Nat)
    BY <2>1 DEF WireInv, SentInv
  <2> QED
    BY <1>2, <1>4, <2>2
<1>5. CASE UNCHANGED wireVars
  <2>1. UNCHANGED streamVars /\ body' = body
    BY <1>5 DEF wireVars
  <2>2. body' \in Seq(Nat)
    BY <2>1 DEF WireInv, SentInv
  <2> QED
    BY <1>2, <2>1, <2>2
<1> QED
  BY <1>3, <1>4, <1>5 DEF WireNext

\* In step is what a reader so placed is.
LEMMA WireInvInStep == WireInv => WireInStep
<1> SUFFICES ASSUME WireInv PROVE WireInStep
  OBVIOUS
<1>1. /\ sent \in Seq(Seq(Nat)) /\ stream = FramedOf(sent, Len(sent)) /\ Len(sent) \in Nat
      /\ delivered \in 0 .. Len(stream) /\ body \in Seq(Nat)
      /\ position \in 0 .. delivered /\ length \in 0 .. MaxMessage
      /\ reader \in {"reading", "ended", "refused"}
  BY DEF WireInv, SentInv, ReadInv
<1>2. PICK k \in Nat : k = Len(read) /\ k <= Len(sent) /\ DOMAIN read = 1 .. k
  BY DEF WireInv, ReadInv
<1>3. \A n : Written(n) = FramedOf(sent, n) /\ Limits(n) = EndOf(sent, n)
  BY DEF Written, Limits, FramedOf, EndOf
<1>4. Len(stream) \in Nat
  <2>1. FramedOf(sent, Len(sent)) \in Seq(Nat)
    BY <1>1, StreamOfBodies
  <2> QED
    BY <1>1, <2>1
<1>5. StreamTypeOK
  BY <1>1, <1>3, <1>4 DEF StreamTypeOK
<1>6. InStep
  BY <1>2 DEF InStep, WireInv, ReadInv
<1>7. NothingWholeIsLost
  <2> SUFFICES ASSUME reader = "ended", NEW n \in 1 .. Len(sent),
                      EndOf(sent, n) <= delivered, ~ (n <= k)
               PROVE  FALSE
    BY <1>2, <1>3 DEF NothingWholeIsLost
  <2>1. k < Len(sent) /\ k + 1 \in 0 .. Len(sent) /\ n \in (k + 1) .. Len(sent)
        /\ k \in 0 .. Len(sent)
    BY <1>1, <1>2
  <2>2. /\ EndOf(sent, k) \in Nat /\ Len(sent[k + 1]) \in Nat
        /\ EndOf(sent, k + 1) = EndOf(sent, k) + 1 + Len(sent[k + 1])
    BY <1>1, <2>1, NextFrame
  <2>3. EndOf(sent, k + 1) <= EndOf(sent, n) /\ EndOf(sent, n) \in Nat
    BY <1>1, <2>1, EndsInOrder
  <2>4. Place /\ delivered < position + (IF length = 0 THEN 1 ELSE length)
    BY DEF WireInv, ReadInv
  <2>5. delivered \in Nat
    BY <1>1, <1>4
  <2>6. CASE length = 0 /\ position = EndOf(sent, k)
    BY <2>2, <2>3, <2>4, <2>5, <2>6
  <2>7. CASE length # 0 /\ length = Len(sent[k + 1]) /\ position = EndOf(sent, k) + 1
    BY <2>2, <2>3, <2>4, <2>5, <2>7
  <2> QED
    BY <1>2, <2>4, <2>6, <2>7 DEF Place
<1>8. RefusesOnlyOdd
  BY DEF WireInv, ReadInv
<1>9. Canonical(body)
  BY <1>1, EveryBodyCanonical
<1> QED
  BY <1>5, <1>6, <1>7, <1>8, <1>9 DEF WireInStep

\* The reader of a stream in pieces stays in step with its writer, whatever is
\* sent, wherever the stream is divided and wherever it is cut: what read_message
\* returns is what send_message wrote, nothing that arrived whole is lost, only
\* what encode_message did not make is refused, and no body is taken that is not
\* the encoding of what is returned for it.
THEOREM ReaderStaysInStep == WireSpec => []WireInStep
<1>1. StreamInit => WireInv
  BY WireInvInitially
<1>2. WireInv /\ [WireNext]_wireVars => WireInv'
  BY WireInvPreserved
<1>3. WireInv => WireInStep
  BY WireInvInStep
<1> QED
  BY <1>1, <1>2, <1>3, PTL DEF WireSpec
=============================================================================
