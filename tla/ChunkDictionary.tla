-------------------------- MODULE ChunkDictionary --------------------------
(***************************************************************************)
(* Chunks, their ids, and the bounded LRU dictionary both ends keep        *)
(* (redulink_model.py: make_chunks, cid, touch_lru; redulink_secure.py:    *)
(* secure_cid; the aioquic prototype: build_secure_dictionary,             *)
(* thin_dictionary).                                                       *)
(*                                                                         *)
(* A chunk is an atom: its bytes matter only through its id and its        *)
(* length.  The OrderedDict is a sequence of entries, least recently used  *)
(* first.                                                                  *)
(***************************************************************************)
EXTENDS Integers, Sequences, FiniteSets, Functions, SequencesExt

CONSTANTS Chunks,   \* the chunks make_chunks can yield
          Cids,     \* the chunk ids that can appear in a frame
          CidOf,    \* secure_cid under the keys of the session
          LengthOf  \* the length of a chunk in bytes

\* Truncated HMAC-SHA256 is taken to be free of collisions, as the design
\* takes it, and no chunker yields an empty chunk.
ASSUME CidAssumption == CidOf \in [Chunks -> Cids] /\ IsInjective(CidOf)
ASSUME LengthAssumption == LengthOf \in [Chunks -> Nat \ {0}]

\* The offset after the chunk c that starts at n.
Advanced(n, c) == n + LengthOf[c]

Entries == [cid : Cids, chunk : Chunks]

EntryOf(c) == [cid |-> CidOf[c], chunk |-> c]

Keys(d) == {d[i].cid : i \in DOMAIN d}

Position(d, k) == CHOOSE i \in DOMAIN d : d[i].cid = k

Lookup(d, k) == d[Position(d, k)].chunk

\* Seeded defect: one entry too many is kept.
NewestAndOne(d, n) ==
    IF Len(d) > n + 1 THEN SubSeq(d, Len(d) - n, Len(d)) ELSE d

\* The newest n entries of d.
Newest(d, n) == IF Len(d) > n THEN SubSeq(d, Len(d) - n + 1, Len(d)) ELSE d

\* The entries of d but the one with key k, if there is one.
Others(d, k) == IF k \in Keys(d) THEN RemoveAt(d, Position(d, k)) ELSE d

\* touch_lru: the entry becomes the newest, and the oldest entries go until
\* at most max are left.
TouchLru(d, k, c, max) ==
    Newest(Append(Others(d, k), [cid |-> k, chunk |-> c]), max)

\* Every entry is filed under the id of its chunk, and no key occurs twice.
Authentic(d) ==
    /\ \A i \in DOMAIN d : d[i].cid = CidOf[d[i].chunk]
    /\ \A i, j \in DOMAIN d : d[i].cid = d[j].cid => i = j

\* What _dictionary_from_bytes and build_secure_dictionary can return: the
\* distinct chunks of some warm bytes, by their last occurrence.
WarmDictionaries(max) ==
    {[i \in DOMAIN s |-> EntryOf(s[i])] :
        s \in {t \in BoundedSeq(Chunks, max) : IsInjective(t)}}

\* The increasing enumeration of a finite set P of positions, the one element
\* of this set.
Enumerations(P) ==
    {f \in [1 .. Cardinality(P) -> P] :
        \A i, j \in 1 .. Cardinality(P) : i < j => f[i] < f[j]}

\* What a sequence holds at the positions P, in order.  A set of one sequence.
Kept(d, P) == {[n \in DOMAIN f |-> d[f[n]]] : f \in Enumerations(P)}

\* The entries whose place is no multiple of missingEvery, if that is positive;
\* if that spares all of a dictionary, the oldest one is dropped.
Spared(d, missingEvery) ==
    LET kept == {i \in DOMAIN d : missingEvery <= 0 \/ i % missingEvery # 0}
    IN  IF kept = DOMAIN d THEN kept \ {1} ELSE kept

\* thin_dictionary of the aioquic prototype.
Thinned(d, missingEvery) == Kept(d, Spared(d, missingEvery))
=============================================================================
