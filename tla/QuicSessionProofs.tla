-------------------------- MODULE QuicSessionProofs --------------------------
(***************************************************************************)
(* Safety of the QUIC receiver, for every number of streams, every set of  *)
(* chunks and messages, and every capacity: whatever an arbitrary peer     *)
(* sends, the partial reconstruction stays consistent.  Then the run of    *)
(* the aioquic experiment, for every input, warm dictionary, thinning and  *)
(* capacity, and wherever the connection is lost: the client never asks    *)
(* what the server must refuse, the server never misses what the client    *)
(* cannot repair, both count the same, and a run that ends well has        *)
(* transferred the input.                                                  *)
(***************************************************************************)
EXTENDS QuicSession, EncodingProofs

-----------------------------------------------------------------------------
(* The receiver.                                                           *)

\* After a STATS there is nothing left to do: no frame can be accepted.
NothingAfterReport ==
    \A s \in Streams :
        Reported(s) => roundEnded /\ DOMAIN pendingRepairs = {}

\* The inductive invariant.  CursorPartition needs the types, PromisesKept
\* needs the partition (an initial frame must not hit a promised number), and
\* ReportIsTrue needs all of them and the last conjunct.
Consistent ==
    DictionarySound /\ CursorPartition /\ PromisesKept /\ OffsetsContiguous

IInv == TypeOK /\ Consistent /\ NothingAfterReport /\ ReportIsTrue

-----------------------------------------------------------------------------
(* Lemmas about the operators.                                             *)

\* Setting a key of a function-valued variable.
LEMMA PutFacts ==
    ASSUME NEW f, NEW k, NEW v
    PROVE  /\ DOMAIN Put(f, k, v) = DOMAIN f \cup {k}
           /\ Put(f, k, v)[k] = v
           /\ \A x \in DOMAIN f : x # k => Put(f, k, v)[x] = f[x]
BY DEF Put

\* The type of a function after a key is set.
LEMMA PutType ==
    ASSUME NEW S, NEW f, f \in [DOMAIN f -> S], NEW k, NEW v \in S
    PROVE  Put(f, k, v) \in [DOMAIN Put(f, k, v) -> S]
BY DEF Put

\* Deleting a key of a function-valued variable.
LEMMA DropFacts ==
    ASSUME NEW f, NEW k
    PROVE  /\ DOMAIN Drop(f, k) = DOMAIN f \ {k}
           /\ \A x \in DOMAIN f \ {k} : Drop(f, k)[x] = f[x]
BY DEF Drop, Restrict

\* The type of a function after a key is deleted.
LEMMA DropType ==
    ASSUME NEW S, NEW f, f \in [DOMAIN f -> S], NEW k
    PROVE  Drop(f, k) \in [DOMAIN Drop(f, k) -> S]
BY DEF Drop, Restrict

\* The fields of a FRAME message.
LEMMA FrameFields ==
    ASSUME NEW m \in MessageType, m.t = "FRAME"
    PROVE  /\ m.seq \in Nat /\ m.repair \in BOOLEAN /\ m.frame \in Frames
           /\ m.frame.cid \in Cids /\ m.frame.length \in Nat
           /\ m.frame.offset \in Nat /\ m.frame.nonce \in Nat
           /\ m.frame.payload \in Chunks \cup {NoPayload}
BY DEF MessageType, Frames

\* Adding a nonce keeps the window a window.
LEMMA BurnType ==
    ASSUME seenNonces \in Windows, NEW m, m.frame.nonce \in Nat, BurnNonce(m)
    PROVE  seenNonces' \in Windows
BY DEF BurnNonce, Remember, Windows, Later

\* Counting an outcome keeps the counters' type.
LEMMA CountType ==
    ASSUME counts \in [Streams -> [Outcomes -> Nat]], NEW s \in Streams,
           NEW o \in Outcomes, Count(s, o)
    PROVE  counts' \in [Streams -> [Outcomes -> Nat]]
BY DEF Count

\* Sending keeps the type of the replies and adds one to the stream's.
LEMMA SendFacts ==
    ASSUME replies \in [Streams -> Seq(Replies)], NEW s \in Streams,
           NEW r \in Replies, Send(s, r)
    PROVE  /\ replies' \in [Streams -> Seq(Replies)]
           /\ \A u \in Streams \ {s} : replies'[u] = replies[u]
           /\ Len(replies'[s]) = Len(replies[s]) + 1
           /\ \A i \in 1 .. Len(replies[s]) : replies'[s][i] = replies[s][i]
           /\ replies'[s][Len(replies[s]) + 1] = r
           /\ DOMAIN replies'[s] = 1 .. Len(replies[s]) + 1
           /\ DOMAIN replies[s] = 1 .. Len(replies[s])
           /\ Len(replies[s]) \in Nat
<1>1. replies[s] \in Seq(Replies) /\ replies'[s] = Append(replies[s], r)
  BY DEF Send
<1>2. replies' \in [Streams -> Seq(Replies)]
  BY <1>1, AppendProperties DEF Send
<1>3. /\ Len(replies'[s]) = Len(replies[s]) + 1
      /\ \A i \in 1 .. Len(replies[s]) : replies'[s][i] = replies[s][i]
      /\ replies'[s][Len(replies[s]) + 1] = r
  BY <1>1, AppendProperties
<1>4. /\ DOMAIN replies[s] = 1 .. Len(replies[s]) /\ Len(replies[s]) \in Nat
      /\ DOMAIN replies'[s] = 1 .. Len(replies'[s])
  BY <1>1, <1>2, LenProperties
<1> QED
  BY <1>2, <1>3, <1>4 DEF Send

-----------------------------------------------------------------------------
(* What a frame that passes the checks of accept_frame means.              *)

\* An initial frame names the next number, which nothing else occupies.
LEMMA InitialAdmitted ==
    ASSUME IInv, NEW s \in Streams, NEW m \in MessageType, Admitted(s, m),
           ~ m.repair
    PROVE  /\ m.seq = nextInitialSeq /\ ~ roundEnded
           /\ m.seq \notin DOMAIN delivered
           /\ m.seq \notin DOMAIN pendingRepairs
           /\ m.seq \notin DOMAIN promised
           /\ m.frame.offset = nextInitialOffset
<1>1. /\ m.seq = nextInitialSeq /\ ~ roundEnded
      /\ m.frame.offset = nextInitialOffset
  BY DEF Admitted, Expected, Verified, ExpectedOffset
<1>2. nextInitialSeq \in Nat /\ DOMAIN promised = 0 .. nextInitialSeq - 1
  BY DEF IInv, TypeOK
<1>3. nextInitialSeq \notin 0 .. nextInitialSeq - 1
  BY <1>2
<1> QED
  BY <1>1, <1>2, <1>3 DEF IInv, Consistent, CursorPartition

\* A repair names a pending reference and repeats what it promised.
LEMMA RepairAdmitted ==
    ASSUME IInv, NEW s \in Streams, NEW m \in MessageType, Admitted(s, m),
           m.repair
    PROVE  /\ m.seq \in DOMAIN pendingRepairs /\ m.frame.kind = "FULL"
           /\ m.seq \notin DOMAIN delivered
           /\ m.seq \in 0 .. nextInitialSeq - 1
           /\ m.frame.cid = promised[m.seq].cid
           /\ m.frame.length = promised[m.seq].length
<1>1. /\ m.seq \in DOMAIN pendingRepairs /\ m.frame.kind = "FULL"
      /\ m.frame.cid = pendingRepairs[m.seq].cid
      /\ m.frame.length = pendingRepairs[m.seq].length
  BY DEF Admitted, Expected
<1> QED
  BY <1>1 DEF IInv, Consistent, CursorPartition, PromisesKept

\* While a frame can be accepted, no stream has been told STATS.
LEMMA AdmittedUnreported ==
    ASSUME IInv, NEW s \in Streams, NEW m \in MessageType, Admitted(s, m)
    PROVE  \A u \in Streams : ~ Reported(u)
<1>1. m.t = "FRAME" /\ m.repair \in BOOLEAN
  BY FrameFields DEF Admitted
<1> QED
  BY <1>1, InitialAdmitted, RepairAdmitted DEF IInv, NothingAfterReport

\* The cursors and promises after an accepted frame.
LEMMA AdvanceFacts ==
    ASSUME IInv, NEW s \in Streams, NEW m \in MessageType, Admitted(s, m),
           Advance(m)
    PROVE  /\ nextInitialSeq' \in Nat /\ nextInitialOffset' \in Nat
           /\ promised' \in [0 .. nextInitialSeq' - 1 -> References]
           /\ DOMAIN promised \subseteq DOMAIN promised'
           /\ \A q \in DOMAIN promised : promised'[q] = promised[q]
           /\ ~ m.repair =>
                /\ nextInitialSeq' = nextInitialSeq + 1
                /\ promised'[m.seq] = Reference(m.frame)
           /\ m.repair => nextInitialSeq' = nextInitialSeq
           /\ OffsetsContiguous'
<1>1. m.t = "FRAME"
  BY DEF Admitted
<1>2. /\ m.seq \in Nat /\ m.repair \in BOOLEAN /\ m.frame.cid \in Cids
      /\ m.frame.length \in Nat /\ m.frame.offset \in Nat
  BY <1>1, FrameFields
<1>3. /\ nextInitialSeq \in Nat /\ nextInitialOffset \in Nat
      /\ promised \in [0 .. nextInitialSeq - 1 -> References]
      /\ OffsetsContiguous
  BY DEF IInv, TypeOK, Consistent
<1>4. CASE m.repair
  <2>1. UNCHANGED <<nextInitialSeq, nextInitialOffset, promised>>
    BY <1>4 DEF Advance
  <2> QED
    BY <1>3, <1>4, <2>1 DEF OffsetsContiguous
<1>5. CASE ~ m.repair
  <2>1. /\ nextInitialSeq' = nextInitialSeq + 1
        /\ nextInitialOffset' = nextInitialOffset + m.frame.length
        /\ promised' = Put(promised, m.seq, Reference(m.frame))
    BY <1>5 DEF Advance
  <2>2. m.seq = nextInitialSeq /\ m.frame.offset = nextInitialOffset
    BY <1>5, InitialAdmitted
  <2>3. /\ Reference(m.frame) \in References
        /\ Reference(m.frame).offset = m.frame.offset
        /\ Reference(m.frame).length = m.frame.length
    BY <1>2 DEF Reference, References
  <2>4. /\ DOMAIN promised' = DOMAIN promised \cup {m.seq}
        /\ promised'[m.seq] = Reference(m.frame)
        /\ \A q \in DOMAIN promised : q # m.seq => promised'[q] = promised[q]
    BY <2>1 DEF Put
  <2>5. DOMAIN promised = 0 .. nextInitialSeq - 1 /\ m.seq \notin DOMAIN promised
    BY <1>3, <2>2
  <2>6. DOMAIN promised' = 0 .. nextInitialSeq' - 1
    <3>1. DOMAIN promised' = (0 .. nextInitialSeq - 1) \cup {nextInitialSeq}
      BY <2>2, <2>4, <2>5
    <3>2. (0 .. nextInitialSeq - 1) \cup {nextInitialSeq} = 0 .. nextInitialSeq
      BY <1>3
    <3>3. nextInitialSeq' - 1 = nextInitialSeq
      BY <1>3, <2>1
    <3> QED
      BY <3>1, <3>2, <3>3
  <2>7. promised' \in [0 .. nextInitialSeq' - 1 -> References]
    <3>1. promised' \in [DOMAIN promised' -> References]
      BY <1>3, <2>1, <2>3, <2>5, PutType
    <3> QED
      BY <2>6, <3>1
  <2>8. \A q \in DOMAIN promised : promised'[q] = promised[q]
    BY <2>4, <2>5
  <2>9. ASSUME NEW q \in DOMAIN promised'
        PROVE  promised'[q].offset + promised'[q].length
                 = IF q + 1 = nextInitialSeq' THEN nextInitialOffset'
                                              ELSE promised'[q + 1].offset
    <3>1. CASE q = m.seq
      BY <1>2, <1>3, <2>1, <2>2, <2>3, <2>4, <3>1
    <3>2. CASE q # m.seq
      <4>1. /\ q \in DOMAIN promised /\ promised'[q] = promised[q]
            /\ q \in Nat /\ q + 1 # nextInitialSeq'
        BY <1>3, <2>1, <2>2, <2>4, <2>5, <3>2
      <4>2. promised[q].offset + promised[q].length
              = IF q + 1 = nextInitialSeq THEN nextInitialOffset
                                          ELSE promised[q + 1].offset
        BY <1>3, <4>1 DEF OffsetsContiguous
      <4>3. CASE q + 1 = nextInitialSeq
        BY <2>2, <2>3, <2>4, <4>1, <4>2, <4>3
      <4>4. CASE q + 1 # nextInitialSeq
        <5>1. q + 1 \in DOMAIN promised
          BY <1>3, <2>5, <4>1, <4>4
        <5> QED
          BY <2>8, <4>1, <4>2, <4>4, <5>1
      <4> QED
        BY <4>3, <4>4
    <3> QED
      BY <3>1, <3>2
  <2>10. OffsetsContiguous'
    BY <2>9 DEF OffsetsContiguous
  <2> QED
    BY <1>3, <1>5, <2>1, <2>2, <2>4, <2>5, <2>7, <2>8, <2>10, <1>2
<1> QED
  BY <1>2, <1>4, <1>5

-----------------------------------------------------------------------------
(* The three ways accept_frame succeeds.                                   *)

\* The invariant's parts that no accepted frame disturbs.
LEMMA AcceptFrameRest ==
    ASSUME IInv, NEW s \in Streams, NEW m \in MessageType, Admitted(s, m),
           BurnNonce(m), NEW o \in Outcomes, Count(s, o), Stay(s), Silent,
           UNCHANGED <<session, roundEnded>>
    PROVE  /\ seenNonces' \in Windows
           /\ counts' \in [Streams -> [Outcomes -> Nat]]
           /\ target' \in Inputs
           /\ expectedFrameCount' \in Nat \cup {NoFrameCount}
           /\ roundEnded' \in BOOLEAN
           /\ phase' \in [Streams -> {"hello", "open", "closed"}]
           /\ \A u \in Streams :
                phase'[u] = "open" => expectedFrameCount' \in Nat
           /\ replies' \in [Streams -> Seq(Replies)]
           /\ NothingAfterReport'
           /\ ReportIsTrue'
<1>1. m.frame.nonce \in Nat
  BY FrameFields DEF Admitted
<1>2. seenNonces' \in Windows
  BY <1>1, BurnType DEF IInv, TypeOK
<1>3. counts' \in [Streams -> [Outcomes -> Nat]]
  BY CountType DEF IInv, TypeOK
<1>4. UNCHANGED <<target, expectedFrameCount, roundEnded, phase, replies>>
  BY DEF session, Stay, Silent
<1>5. \A u \in Streams : ~ Reported(u)
  BY AdmittedUnreported
<1>6. NothingAfterReport'
  BY <1>4, <1>5 DEF NothingAfterReport, Reported
<1>7. ReportIsTrue'
  BY <1>4, <1>5 DEF ReportIsTrue, Reported
<1> QED
  BY <1>2, <1>3, <1>4, <1>6, <1>7 DEF IInv, TypeOK

\* Filling a number that was free keeps the partition and the promises.
LEMMA DeliverConsistent ==
    ASSUME IInv, NEW s \in Streams, NEW m \in MessageType, Admitted(s, m),
           Advance(m), NEW c \in Chunks,
           CidOf[c] = m.frame.cid, LengthOf[c] = m.frame.length,
           delivered' = Put(delivered, m.seq, c),
           pendingRepairs' = IF m.repair THEN Drop(pendingRepairs, m.seq)
                                         ELSE pendingRepairs
    PROVE  /\ delivered' \in [DOMAIN delivered' -> Chunks]
           /\ DOMAIN delivered' \subseteq Nat
           /\ pendingRepairs' \in [DOMAIN pendingRepairs' -> References]
           /\ DOMAIN pendingRepairs' \subseteq Nat
           /\ CursorPartition'
           /\ PromisesKept'
           /\ m.seq \notin DOMAIN delivered
<1>1. /\ m.seq \in Nat /\ m.repair \in BOOLEAN
  BY FrameFields DEF Admitted
<1>2. /\ delivered \in [DOMAIN delivered -> Chunks]
      /\ DOMAIN delivered \subseteq Nat
      /\ pendingRepairs \in [DOMAIN pendingRepairs -> References]
      /\ DOMAIN pendingRepairs \subseteq Nat
      /\ nextInitialSeq \in Nat
      /\ DOMAIN promised = 0 .. nextInitialSeq - 1
      /\ CursorPartition /\ PromisesKept
  BY DEF IInv, TypeOK, Consistent
<1>3. /\ DOMAIN delivered' = DOMAIN delivered \cup {m.seq}
      /\ delivered'[m.seq] = c
      /\ \A q \in DOMAIN delivered : q # m.seq => delivered'[q] = delivered[q]
      /\ delivered' \in [DOMAIN delivered' -> Chunks]
  BY <1>2 DEF Put
<1>4. /\ \A q \in DOMAIN promised : promised'[q] = promised[q]
      /\ DOMAIN promised \subseteq DOMAIN promised'
      /\ ~ m.repair => /\ nextInitialSeq' = nextInitialSeq + 1
                       /\ promised'[m.seq] = Reference(m.frame)
      /\ m.repair => nextInitialSeq' = nextInitialSeq
  BY AdvanceFacts
<1>5. CASE m.repair
  <2>1. /\ m.seq \in DOMAIN pendingRepairs /\ m.seq \notin DOMAIN delivered
        /\ m.seq \in DOMAIN promised
        /\ promised[m.seq].cid = m.frame.cid
        /\ promised[m.seq].length = m.frame.length
    BY <1>2, <1>5, RepairAdmitted
  <2>2. /\ DOMAIN pendingRepairs' = DOMAIN pendingRepairs \ {m.seq}
        /\ \A q \in DOMAIN pendingRepairs' : pendingRepairs'[q] = pendingRepairs[q]
        /\ pendingRepairs' \in [DOMAIN pendingRepairs' -> References]
    BY <1>2, <1>5 DEF Drop, Restrict
  <2>3. CursorPartition'
    BY <1>2, <1>3, <1>4, <1>5, <2>1, <2>2 DEF CursorPartition
  <2>4. PromisesKept'
    BY <1>2, <1>3, <1>4, <2>1, <2>2 DEF PromisesKept, CursorPartition
  <2> QED
    BY <1>1, <1>2, <1>3, <2>1, <2>2, <2>3, <2>4
<1>6. CASE ~ m.repair
  <2>1. /\ m.seq = nextInitialSeq /\ m.seq \notin DOMAIN delivered
        /\ m.seq \notin DOMAIN pendingRepairs /\ m.seq \notin DOMAIN promised
    BY <1>6, InitialAdmitted
  <2>2. pendingRepairs' = pendingRepairs
    BY <1>6
  <2>3. 0 .. nextInitialSeq' - 1 = (0 .. nextInitialSeq - 1) \cup {m.seq}
    <3>1. nextInitialSeq' - 1 = nextInitialSeq
      BY <1>2, <1>4, <1>6
    <3> QED
      BY <1>2, <2>1, <3>1
  <2>4. CursorPartition'
    BY <1>2, <1>3, <2>1, <2>2, <2>3 DEF CursorPartition
  <2>5. /\ promised'[m.seq].cid = m.frame.cid
        /\ promised'[m.seq].length = m.frame.length
    BY <1>4, <1>6 DEF Reference
  <2>6. PromisesKept'
    BY <1>2, <1>3, <1>4, <2>1, <2>2, <2>5 DEF PromisesKept, CursorPartition
  <2> QED
    BY <1>1, <1>2, <1>3, <2>1, <2>2, <2>4, <2>6
<1> QED
  BY <1>1, <1>5, <1>6

\* FULL, as an initial frame or as a repair.
LEMMA AcceptFullInvariant ==
    ASSUME IInv, NEW s \in Streams, NEW m \in MessageType, AcceptFull(s, m)
    PROVE  IInv'
<1> DEFINE c == m.frame.payload
<1>1. /\ Admitted(s, m) /\ WellFormedFull(m.frame) /\ BurnNonce(m)
      /\ dictionary' = TouchLru(dictionary, m.frame.cid, c, MaxDictChunks)
      /\ delivered' = Put(delivered, m.seq, c)
      /\ pendingRepairs' = IF m.repair THEN Drop(pendingRepairs, m.seq)
                                       ELSE pendingRepairs
      /\ Count(s, FullOutcome(m)) /\ Advance(m) /\ Stay(s) /\ Silent
      /\ UNCHANGED <<session, roundEnded>>
  BY DEF AcceptFull, Slot
<1>2. c \in Chunks /\ CidOf[c] = m.frame.cid /\ LengthOf[c] = m.frame.length
  BY <1>1, FrameFields DEF Admitted, WellFormedFull
<1> HIDE DEF c
<1>3. FullOutcome(m) \in Outcomes
  BY DEF FullOutcome, Outcomes
<1>4. /\ seenNonces' \in Windows
      /\ counts' \in [Streams -> [Outcomes -> Nat]]
      /\ target' \in Inputs
      /\ expectedFrameCount' \in Nat \cup {NoFrameCount}
      /\ roundEnded' \in BOOLEAN
      /\ phase' \in [Streams -> {"hello", "open", "closed"}]
      /\ \A u \in Streams : phase'[u] = "open" => expectedFrameCount' \in Nat
      /\ replies' \in [Streams -> Seq(Replies)]
      /\ NothingAfterReport' /\ ReportIsTrue'
  BY <1>1, <1>3, AcceptFrameRest
<1>5. /\ delivered' \in [DOMAIN delivered' -> Chunks]
      /\ DOMAIN delivered' \subseteq Nat
      /\ pendingRepairs' \in [DOMAIN pendingRepairs' -> References]
      /\ DOMAIN pendingRepairs' \subseteq Nat
      /\ CursorPartition' /\ PromisesKept'
  BY <1>1, <1>2, DeliverConsistent
<1>6. SoundDictionary(dictionary, MaxDictChunks)
  BY DEF IInv, TypeOK, Consistent, DictionarySound, SoundDictionary
<1>7. SoundDictionary(dictionary', MaxDictChunks)
  BY <1>1, <1>2, <1>6, TouchLruSound, CapacityAssumption
<1>8. /\ nextInitialSeq' \in Nat /\ nextInitialOffset' \in Nat
      /\ promised' \in [0 .. nextInitialSeq' - 1 -> References]
      /\ OffsetsContiguous'
  BY <1>1, AdvanceFacts
<1>9. TypeOK'
  BY <1>4, <1>5, <1>7, <1>8 DEF TypeOK, SoundDictionary
<1>10. DictionarySound'
  BY <1>7 DEF DictionarySound, SoundDictionary
<1> QED
  BY <1>4, <1>5, <1>8, <1>9, <1>10 DEF IInv, Consistent

\* A REF the receiver can resolve.
LEMMA AcceptRefInvariant ==
    ASSUME IInv, NEW s \in Streams, NEW m \in MessageType, AcceptRef(s, m)
    PROVE  IInv'
<1> DEFINE c == Lookup(dictionary, m.frame.cid)
<1>1. /\ Admitted(s, m) /\ RefHit(m.frame) /\ BurnNonce(m)
      /\ delivered' = Put(delivered, m.seq, c)
      /\ Count(s, "ref") /\ Advance(m) /\ Stay(s) /\ Silent
      /\ UNCHANGED <<session, roundEnded, dictionary, pendingRepairs>>
  BY DEF AcceptRef, Slot
<1>2. c \in Chunks /\ CidOf[c] = m.frame.cid /\ LengthOf[c] = m.frame.length
  BY <1>1, LookupFinds DEF RefHit, IInv, TypeOK
<1> HIDE DEF c
<1>3. ~ m.repair
  <2>1. m.frame.kind = "REF"
    BY <1>1 DEF RefHit
  <2> QED
    BY <1>1, <2>1, RepairAdmitted
<1>4. /\ seenNonces' \in Windows
      /\ counts' \in [Streams -> [Outcomes -> Nat]]
      /\ target' \in Inputs
      /\ expectedFrameCount' \in Nat \cup {NoFrameCount}
      /\ roundEnded' \in BOOLEAN
      /\ phase' \in [Streams -> {"hello", "open", "closed"}]
      /\ \A u \in Streams : phase'[u] = "open" => expectedFrameCount' \in Nat
      /\ replies' \in [Streams -> Seq(Replies)]
      /\ NothingAfterReport' /\ ReportIsTrue'
  <2>1. "ref" \in Outcomes
    BY DEF Outcomes
  <2> QED
    BY <1>1, <2>1, AcceptFrameRest
<1>5. /\ delivered' \in [DOMAIN delivered' -> Chunks]
      /\ DOMAIN delivered' \subseteq Nat
      /\ pendingRepairs' \in [DOMAIN pendingRepairs' -> References]
      /\ DOMAIN pendingRepairs' \subseteq Nat
      /\ CursorPartition' /\ PromisesKept'
  BY <1>1, <1>2, <1>3, DeliverConsistent
<1>6. /\ nextInitialSeq' \in Nat /\ nextInitialOffset' \in Nat
      /\ promised' \in [0 .. nextInitialSeq' - 1 -> References]
      /\ OffsetsContiguous'
  BY <1>1, AdvanceFacts
<1>7. dictionary' \in Seq(Entries) /\ DictionarySound'
  BY <1>1 DEF IInv, TypeOK, Consistent, DictionarySound
<1>8. TypeOK'
  BY <1>4, <1>5, <1>6, <1>7 DEF TypeOK
<1> QED
  BY <1>4, <1>5, <1>6, <1>7, <1>8 DEF IInv, Consistent

\* A REF the receiver cannot resolve.
LEMMA AcceptMissInvariant ==
    ASSUME IInv, NEW s \in Streams, NEW m \in MessageType, AcceptMiss(s, m)
    PROVE  IInv'
<1>1. /\ Admitted(s, m) /\ RefMiss(m.frame) /\ BurnNonce(m)
      /\ pendingRepairs' = Put(pendingRepairs, m.seq, Reference(m.frame))
      /\ Count(s, "miss") /\ Advance(m) /\ Stay(s) /\ Silent
      /\ UNCHANGED <<session, roundEnded, dictionary, delivered>>
  BY DEF AcceptMiss
<1>2. ~ m.repair
  <2>1. m.frame.kind = "REF"
    BY <1>1 DEF RefMiss
  <2> QED
    BY <1>1, <2>1, RepairAdmitted
<1>3. /\ seenNonces' \in Windows
      /\ counts' \in [Streams -> [Outcomes -> Nat]]
      /\ target' \in Inputs
      /\ expectedFrameCount' \in Nat \cup {NoFrameCount}
      /\ roundEnded' \in BOOLEAN
      /\ phase' \in [Streams -> {"hello", "open", "closed"}]
      /\ \A u \in Streams : phase'[u] = "open" => expectedFrameCount' \in Nat
      /\ replies' \in [Streams -> Seq(Replies)]
      /\ NothingAfterReport' /\ ReportIsTrue'
  <2>1. "miss" \in Outcomes
    BY DEF Outcomes
  <2> QED
    BY <1>1, <2>1, AcceptFrameRest
<1>4. /\ nextInitialSeq' \in Nat /\ nextInitialOffset' \in Nat
      /\ promised' \in [0 .. nextInitialSeq' - 1 -> References]
      /\ OffsetsContiguous'
      /\ \A q \in DOMAIN promised : promised'[q] = promised[q]
      /\ nextInitialSeq' = nextInitialSeq + 1
      /\ promised'[m.seq] = Reference(m.frame)
  BY <1>1, <1>2, AdvanceFacts
<1>5. /\ m.seq = nextInitialSeq /\ m.seq \notin DOMAIN delivered
      /\ m.seq \notin DOMAIN pendingRepairs /\ m.seq \notin DOMAIN promised
  BY <1>1, <1>2, InitialAdmitted
<1>6. /\ pendingRepairs \in [DOMAIN pendingRepairs -> References]
      /\ DOMAIN pendingRepairs \subseteq Nat /\ nextInitialSeq \in Nat
      /\ DOMAIN promised = 0 .. nextInitialSeq - 1
      /\ CursorPartition /\ PromisesKept
  BY DEF IInv, TypeOK, Consistent
<1>7. Reference(m.frame) \in References /\ m.seq \in Nat
  BY <1>1, FrameFields DEF Reference, References, Admitted
<1>8. /\ DOMAIN pendingRepairs' = DOMAIN pendingRepairs \cup {m.seq}
      /\ pendingRepairs'[m.seq] = Reference(m.frame)
      /\ \A q \in DOMAIN pendingRepairs : pendingRepairs'[q] = pendingRepairs[q]
      /\ pendingRepairs' \in [DOMAIN pendingRepairs' -> References]
  BY <1>1, <1>5, <1>6, <1>7 DEF Put
<1>9. 0 .. nextInitialSeq' - 1 = (0 .. nextInitialSeq - 1) \cup {m.seq}
  <2>1. nextInitialSeq' - 1 = nextInitialSeq
    BY <1>4, <1>6
  <2> QED
    BY <1>5, <1>6, <2>1
<1>10. CursorPartition'
  BY <1>1, <1>5, <1>6, <1>8, <1>9 DEF CursorPartition
<1>11. PromisesKept'
  <2>1. \A q \in DOMAIN delivered \cup DOMAIN pendingRepairs :
            promised'[q] = promised[q]
    BY <1>4, <1>6 DEF CursorPartition
  <2>2. ASSUME NEW q \in DOMAIN delivered'
        PROVE  /\ promised'[q].cid = CidOf[delivered'[q]]
               /\ promised'[q].length = LengthOf[delivered'[q]]
    BY <1>1, <1>6, <2>1, <2>2 DEF PromisesKept
  <2>3. ASSUME NEW q \in DOMAIN pendingRepairs'
        PROVE  pendingRepairs'[q] = promised'[q]
    <3>1. CASE q = m.seq
      BY <1>4, <1>8, <3>1
    <3>2. CASE q \in DOMAIN pendingRepairs
      BY <1>6, <1>8, <2>1, <3>2 DEF PromisesKept
    <3> QED
      BY <1>8, <3>1, <3>2
  <2> QED
    BY <2>2, <2>3 DEF PromisesKept
<1>12. /\ dictionary' \in Seq(Entries) /\ DictionarySound'
       /\ delivered' \in [DOMAIN delivered' -> Chunks]
       /\ DOMAIN delivered' \subseteq Nat
  BY <1>1 DEF IInv, TypeOK, Consistent, DictionarySound
<1>13. TypeOK'
  BY <1>3, <1>4, <1>6, <1>7, <1>8, <1>12 DEF TypeOK
<1> QED
  BY <1>3, <1>4, <1>10, <1>11, <1>12, <1>13 DEF IInv, Consistent

-----------------------------------------------------------------------------
(* The steps that deliver nothing.                                         *)

\* Consistency speaks of the reconstruction and the promises only.
LEMMA ConsistentStays ==
    ASSUME Consistent,
           UNCHANGED <<dictionary, delivered, nextInitialSeq,
                       nextInitialOffset, pendingRepairs, promised>>
    PROVE  Consistent'
BY DEF Consistent, DictionarySound, CursorPartition, PromisesKept,
       OffsetsContiguous

\* A reply that is no STATS does not touch what was reported.
LEMMA SendNoReport ==
    ASSUME IInv, NEW s \in Streams, NEW r \in Replies, r.t # "STATS",
           Send(s, r), roundEnded => roundEnded',
           UNCHANGED <<target, delivered, nextInitialSeq, pendingRepairs>>
    PROVE  /\ replies' \in [Streams -> Seq(Replies)]
           /\ NothingAfterReport'
           /\ ReportIsTrue'
<1>1. replies \in [Streams -> Seq(Replies)]
  BY DEF IInv, TypeOK
<1>2. /\ replies' \in [Streams -> Seq(Replies)]
      /\ \A u \in Streams \ {s} : replies'[u] = replies[u]
      /\ \A i \in 1 .. Len(replies[s]) : replies'[s][i] = replies[s][i]
      /\ replies'[s][Len(replies[s]) + 1] = r
      /\ DOMAIN replies'[s] = 1 .. Len(replies[s]) + 1
      /\ DOMAIN replies[s] = 1 .. Len(replies[s])
      /\ Len(replies[s]) \in Nat
  BY <1>1, SendFacts
<1>3. ASSUME NEW u \in Streams, NEW i \in DOMAIN replies'[u],
             replies'[u][i].t = "STATS"
      PROVE  i \in DOMAIN replies[u] /\ replies'[u][i] = replies[u][i]
  <2>1. CASE u # s
    BY <1>2, <1>3, <2>1
  <2>2. CASE u = s
    <3>1. i # Len(replies[s]) + 1
      BY <1>2, <1>3, <2>2
    <3>2. i \in 1 .. Len(replies[s])
      BY <1>2, <1>3, <2>2, <3>1
    <3> QED
      BY <1>2, <2>2, <3>2
  <2> QED
    BY <2>1, <2>2
<1>4. NothingAfterReport'
  BY <1>3 DEF IInv, NothingAfterReport, Reported
<1>5. ReportIsTrue'
  BY <1>3 DEF IInv, ReportIsTrue
<1> QED
  BY <1>2, <1>4, <1>5

\* Every way a task ends with an ERROR.
LEMMA FailInvariant ==
    ASSUME IInv, NEW s \in Streams, Fail(s), seenNonces' \in Windows,
           UNCHANGED <<session, reconstruction, counts, promised>>
    PROVE  IInv'
<1>1. Send(s, [t |-> "ERROR"]) /\ phase' = [phase EXCEPT ![s] = "closed"]
  BY DEF Fail, Return
<1>2. UNCHANGED <<target, expectedFrameCount, dictionary, delivered,
                  nextInitialSeq, nextInitialOffset, pendingRepairs,
                  roundEnded, counts, promised>>
  BY DEF session, reconstruction
<1>3. [t |-> "ERROR"] \in Replies
  BY DEF Replies
<1>4. /\ replies' \in [Streams -> Seq(Replies)]
      /\ NothingAfterReport' /\ ReportIsTrue'
  BY <1>1, <1>2, <1>3, SendNoReport
<1>5. Consistent'
  BY <1>2, ConsistentStays DEF IInv
<1>6. TypeOK'
  BY <1>1, <1>2, <1>4 DEF IInv, TypeOK
<1> QED
  BY <1>4, <1>5, <1>6 DEF IInv

\* A task that ends without a reply.
LEMMA AbandonInvariant ==
    ASSUME IInv, NEW s \in Streams, Abandon(s)
    PROVE  IInv'
<1>1. UNCHANGED <<target, expectedFrameCount, dictionary, delivered,
                  nextInitialSeq, nextInitialOffset, pendingRepairs,
                  roundEnded, counts, promised, seenNonces, replies>>
  BY DEF Abandon, session, reconstruction, Silent
<1>2. phase' = [phase EXCEPT ![s] = "closed"]
  BY DEF Abandon, Return
<1>3. Consistent'
  BY <1>1, ConsistentStays DEF IInv
<1>4. TypeOK'
  BY <1>1, <1>2 DEF IInv, TypeOK
<1>5. NothingAfterReport' /\ ReportIsTrue'
  BY <1>1 DEF IInv, NothingAfterReport, Reported, ReportIsTrue
<1> QED
  BY <1>3, <1>4, <1>5 DEF IInv

\* HELLO, on a first stream or on a later one.
LEMMA HelloInvariant ==
    ASSUME IInv, NEW s \in Streams, NEW m \in MessageType, Hello(s, m)
    PROVE  IInv'
<1>1. UNCHANGED <<target, dictionary, delivered, nextInitialSeq,
                  nextInitialOffset, pendingRepairs, roundEnded, counts,
                  promised, seenNonces, replies>>
  BY DEF Hello, reconstruction, Silent
<1>2. phase' = [phase EXCEPT ![s] = "open"] /\ expectedFrameCount' \in Nat
  BY LimitAssumption DEF Hello
<1>3. Consistent'
  BY <1>1, ConsistentStays DEF IInv
<1>4. TypeOK'
  BY <1>1, <1>2 DEF IInv, TypeOK
<1>5. NothingAfterReport' /\ ReportIsTrue'
  BY <1>1 DEF IInv, NothingAfterReport, Reported, ReportIsTrue
<1> QED
  BY <1>3, <1>4, <1>5 DEF IInv

\* END_ROUND, answered or not.
LEMMA EndRoundInvariant ==
    ASSUME IInv, NEW s \in Streams, NEW m \in MessageType, EndRound(s, m)
    PROVE  IInv'
<1>1. UNCHANGED <<target, expectedFrameCount, dictionary, delivered,
                  nextInitialSeq, nextInitialOffset, pendingRepairs, counts,
                  promised, seenNonces>>
  BY DEF EndRound, session
<1>2. roundEnded' = TRUE
  BY DEF EndRound
<1>3. phase' \in [Streams -> {"hello", "open", "closed"}]
      /\ \A u \in Streams : phase'[u] = "open" => phase[u] = "open"
  BY DEF IInv, TypeOK, EndRound, Stay, Return
<1>4. /\ replies' \in [Streams -> Seq(Replies)]
      /\ NothingAfterReport' /\ ReportIsTrue'
  <2> DEFINE r == [t |-> "MISSING", items |-> DOMAIN pendingRepairs]
  <2>1. CASE Send(s, r)
    <3>1. r \in Replies /\ r.t # "STATS"
      BY DEF Replies, IInv, TypeOK
    <3> QED
      BY <1>1, <1>2, <2>1, <3>1, SendNoReport
  <2>2. CASE Silent
    BY <1>1, <1>2, <2>2
    DEF Silent, IInv, TypeOK, NothingAfterReport, Reported, ReportIsTrue
  <2> QED
    BY <2>1, <2>2 DEF EndRound
<1>5. Consistent'
  BY <1>1, ConsistentStays DEF IInv
<1>6. TypeOK'
  BY <1>1, <1>2, <1>3, <1>4 DEF IInv, TypeOK
<1> QED
  BY <1>4, <1>5, <1>6 DEF IInv

\* FINISH: the verdict covers everything below the cursor, whichever HELLO
\* set the frame count.
LEMMA FinishInvariant ==
    ASSUME IInv, NEW s \in Streams, NEW m \in MessageType, Finish(s, m)
    PROVE  IInv'
<1> DEFINE r == [t |-> "STATS", ok |-> Output = target, counts |-> counts[s]]
<1> DEFINE whole == [n \in 1 .. nextInitialSeq |-> delivered[n - 1]]
<1>1. UNCHANGED <<target, expectedFrameCount, dictionary, delivered,
                  nextInitialSeq, nextInitialOffset, pendingRepairs,
                  roundEnded, counts, promised, seenNonces>>
  BY DEF Finish, session, reconstruction
<1>2. /\ phase[s] = "open" /\ Send(s, r)
      /\ phase' = [phase EXCEPT ![s] = "closed"]
      /\ roundEnded /\ DOMAIN pendingRepairs = {}
      /\ DOMAIN delivered = 0 .. expectedFrameCount - 1
  BY DEF Finish, Finishable, Return
<1>3. /\ expectedFrameCount \in Nat /\ nextInitialSeq \in Nat
      /\ counts[s] \in [Outcomes -> Nat]
      /\ replies \in [Streams -> Seq(Replies)]
  BY <1>2 DEF IInv, TypeOK
<1>4. expectedFrameCount = nextInitialSeq
  <2>1. 0 .. expectedFrameCount - 1 = 0 .. nextInitialSeq - 1
    BY <1>2 DEF IInv, Consistent, CursorPartition
  <2> QED
    BY <1>3, <2>1
<1>5. Output = whole
  BY <1>4 DEF Output
<1>6. r \in Replies
  BY <1>3 DEF Replies
<1>7. r.t = "STATS" /\ (r.ok <=> target = whole)
  BY <1>5
<1> HIDE DEF r
<1>8. /\ replies' \in [Streams -> Seq(Replies)]
      /\ \A u \in Streams \ {s} : replies'[u] = replies[u]
      /\ \A i \in 1 .. Len(replies[s]) : replies'[s][i] = replies[s][i]
      /\ replies'[s][Len(replies[s]) + 1] = r
      /\ DOMAIN replies'[s] = 1 .. Len(replies[s]) + 1
      /\ DOMAIN replies[s] = 1 .. Len(replies[s])
      /\ Len(replies[s]) \in Nat
  BY <1>2, <1>3, <1>6, SendFacts
<1>9. ReportIsTrue'
  <2>1. whole' = whole /\ target' = target
    BY <1>1
  <2> SUFFICES ASSUME NEW u \in Streams, NEW i \in DOMAIN replies'[u],
                      replies'[u][i].t = "STATS"
               PROVE  replies'[u][i].ok <=> target = whole
    BY <1>1 DEF ReportIsTrue
  <2> HIDE DEF whole
  <2>2. ASSUME NEW w \in Streams, NEW j \in DOMAIN replies[w],
               replies[w][j].t = "STATS"
        PROVE  replies[w][j].ok <=> target = whole
    BY <2>2 DEF IInv, ReportIsTrue, whole
  <2>3. CASE u = s /\ i = Len(replies[s]) + 1
    BY <1>7, <1>8, <2>3
  <2>4. CASE u # s
    BY <1>8, <2>2, <2>4
  <2>5. CASE u = s /\ i # Len(replies[s]) + 1
    <3>1. i \in 1 .. Len(replies[s])
      BY <1>8, <2>5
    <3> QED
      BY <1>8, <2>2, <2>5, <3>1
  <2> QED
    BY <2>3, <2>4, <2>5
<1>10. NothingAfterReport'
  BY <1>1, <1>2 DEF NothingAfterReport
<1>11. Consistent'
  BY <1>1, ConsistentStays DEF IInv
<1>12. TypeOK'
  BY <1>1, <1>2, <1>8 DEF IInv, TypeOK
<1> QED
  BY <1>9, <1>10, <1>11, <1>12 DEF IInv

-----------------------------------------------------------------------------
(* The inductive invariant.                                                *)

\* A fresh server object: nothing delivered, nothing promised.
LEMMA InitInvariant ==
    ASSUME Init
    PROVE  IInv
<1>1. SoundDictionary(dictionary, MaxDictChunks)
  <2>1. PICK d \in WarmDictionaries(MaxDictChunks) :
            dictionary \in Thinned(d, MissingEvery)
    BY DEF Init
  <2> QED
    BY <2>1, WarmSound, ThinnedSound, CapacityAssumption
<1>2. DictionarySound /\ dictionary \in Seq(Entries)
  BY <1>1 DEF DictionarySound, SoundDictionary
<1>3. DOMAIN delivered = {} /\ DOMAIN pendingRepairs = {} /\ DOMAIN promised = {}
  BY DEF Init
<1>4. 0 .. nextInitialSeq - 1 = {}
  BY DEF Init
<1>5. CursorPartition /\ PromisesKept /\ OffsetsContiguous
  BY <1>3, <1>4 DEF CursorPartition, PromisesKept, OffsetsContiguous
<1>6. \A u \in Streams : replies[u] = <<>> /\ phase[u] = "hello"
  BY DEF Init
<1>7. NothingAfterReport /\ ReportIsTrue
  BY <1>6 DEF NothingAfterReport, Reported, ReportIsTrue
<1>8. seenNonces \in Windows
  BY DEF Init, EmptyWindow, Windows
<1>9. /\ delivered \in [DOMAIN delivered -> Chunks]
      /\ pendingRepairs \in [DOMAIN pendingRepairs -> References]
      /\ promised \in [0 .. nextInitialSeq - 1 -> References]
  BY <1>3, <1>4 DEF Init
<1>10. /\ counts \in [Streams -> [Outcomes -> Nat]]
       /\ replies \in [Streams -> Seq(Replies)]
       /\ phase \in [Streams -> {"hello", "open", "closed"}]
  BY DEF Init
<1>11. TypeOK
  BY <1>2, <1>3, <1>6, <1>8, <1>9, <1>10 DEF Init, TypeOK
<1> QED
  BY <1>2, <1>5, <1>7, <1>11 DEF IInv, Consistent

\* Every message on every stream keeps the invariant.
LEMMA HandleInvariant ==
    ASSUME IInv, NEW s \in Streams, NEW m \in MessageType, Handle(s, m)
    PROVE  IInv'
<1>1. seenNonces \in Windows
  BY DEF IInv, TypeOK
<1>2. CASE AcceptFull(s, m)
  BY <1>2, AcceptFullInvariant
<1>3. CASE AcceptRef(s, m)
  BY <1>3, AcceptRefInvariant
<1>4. CASE AcceptMiss(s, m)
  BY <1>4, AcceptMissInvariant
<1>5. CASE UnusableFrame(s, m)
  <2>1. m.frame.nonce \in Nat
    BY <1>5, FrameFields DEF UnusableFrame, Admitted
  <2>2. seenNonces' \in Windows
    BY <1>1, <1>5, <2>1, BurnType DEF UnusableFrame
  <2> QED
    BY <1>5, <2>2, FailInvariant DEF UnusableFrame
<1>6. CASE RefuseFrame(s, m)
  BY <1>1, <1>6, FailInvariant DEF RefuseFrame
<1>7. CASE Hello(s, m)
  BY <1>7, HelloInvariant
<1>8. CASE BadHello(s, m)
  BY <1>1, <1>8, FailInvariant DEF BadHello
<1>9. CASE EndRound(s, m)
  BY <1>9, EndRoundInvariant
<1>10. CASE BadEndRound(s, m)
  BY <1>1, <1>10, FailInvariant DEF BadEndRound
<1>11. CASE Finish(s, m)
  BY <1>11, FinishInvariant
<1>12. CASE BadFinish(s, m)
  BY <1>1, <1>12, FailInvariant DEF BadFinish
<1>13. CASE Unknown(s, m)
  BY <1>1, <1>13, FailInvariant DEF Unknown
<1>14. CASE Undecodable(s, m)
  BY <1>14, AbandonInvariant DEF Undecodable
<1> QED
  BY <1>2, <1>3, <1>4, <1>5, <1>6, <1>7, <1>8, <1>9, <1>10, <1>11, <1>12,
     <1>13, <1>14 DEF Handle, HandleFrame

\* Nor does a step that changes nothing disturb it.
LEMMA StutterInvariant ==
    ASSUME IInv, UNCHANGED vars
    PROVE  IInv'
<1>1. UNCHANGED <<target, dictionary, delivered, seenNonces,
                  expectedFrameCount, nextInitialSeq, nextInitialOffset,
                  pendingRepairs, roundEnded, phase, counts, replies,
                  promised>>
  BY DEF vars, reconstruction, session
<1>2. Consistent'
  BY <1>1, ConsistentStays DEF IInv
<1>3. TypeOK'
  BY <1>1 DEF IInv, TypeOK
<1>4. NothingAfterReport' /\ ReportIsTrue'
  BY <1>1 DEF IInv, NothingAfterReport, Reported, ReportIsTrue
<1> QED
  BY <1>2, <1>3, <1>4 DEF IInv

\* The receiver keeps its invariant whatever the peer sends.
THEOREM ReceiverInvariant == Spec => []IInv
<1>1. Init => IInv
  BY InitInvariant
<1>2. IInv /\ [Next]_vars => IInv'
  BY MessagesAssumption, HandleInvariant, AbandonInvariant, StutterInvariant DEF Next
<1> QED
  BY <1>1, <1>2, PTL DEF Spec

\* Every reachable state of the server object is type correct.
THEOREM ReceiverTypeCorrect == Spec => []TypeOK
BY ReceiverInvariant, PTL DEF IInv

\* The dictionary stays authentic, without duplicates and within its bound.
THEOREM DictionaryStaysSound == Spec => []DictionarySound
BY ReceiverInvariant, PTL DEF IInv, Consistent

\* Every number below the cursor is delivered or pending, and none above it.
THEOREM CursorPartitions == Spec => []CursorPartition
BY ReceiverInvariant, PTL DEF IInv, Consistent

\* What is delivered is what the initial frame of that number promised.
THEOREM PromisesAreKept == Spec => []PromisesKept
BY ReceiverInvariant, PTL DEF IInv, Consistent

\* The authenticated offsets tile the output.
THEOREM OffsetsTile == Spec => []OffsetsContiguous
BY ReceiverInvariant, PTL DEF IInv, Consistent

\* A verdict covers everything delivered, whichever HELLO came last.
THEOREM ReportsAreTrue == Spec => []ReportIsTrue
BY ReceiverInvariant, PTL DEF IInv

-----------------------------------------------------------------------------
(* What a step may never do.                                               *)

\* The steps other than the three acceptances leave delivery alone.
LEMMA QuietStep ==
    ASSUME NEW s \in Streams, NEW m \in Messages,
           Handle(s, m) \/ Abandon(s)
    PROVE  \/ AcceptFull(s, m) \/ AcceptRef(s, m) \/ AcceptMiss(s, m)
           \/ UNCHANGED <<dictionary, delivered, pendingRepairs,
                          nextInitialSeq, nextInitialOffset>>
BY DEF Handle, HandleFrame, UnusableFrame, RefuseFrame, Hello, BadHello,
       EndRound, BadEndRound, Finish, BadFinish, Unknown, Undecodable,
       Abandon, reconstruction

\* An accepted frame fills a free number or none.
LEMMA StepDelivers ==
    ASSUME IInv, [Next]_vars
    PROVE  \A q \in DOMAIN delivered :
               q \in DOMAIN delivered' /\ delivered'[q] = delivered[q]
<1>1. CASE UNCHANGED vars
  BY <1>1 DEF vars, reconstruction
<1>2. CASE Next
  <2>1. CASE UNCHANGED delivered
    BY <2>1
  <2>2. CASE ~ UNCHANGED delivered
    <3>1. PICK s \in Streams, m \in Messages :
              AcceptFull(s, m) \/ AcceptRef(s, m)
      <4>1. PICK s \in Streams :
                (\E m \in Messages : Handle(s, m)) \/ Abandon(s)
        BY <1>2 DEF Next
      <4>2. ~ Abandon(s)
        BY <2>2 DEF Abandon, reconstruction
      <4>3. PICK m \in Messages : Handle(s, m)
        BY <4>1, <4>2
      <4> QED
        BY <2>2, <4>3, QuietStep DEF AcceptMiss
    <3>2. m \in MessageType /\ Admitted(s, m)
      BY <3>1, MessagesAssumption DEF AcceptFull, AcceptRef
    <3>3. m.seq \notin DOMAIN delivered
      BY <3>2, InitialAdmitted, RepairAdmitted
    <3>4. PICK c : delivered' = Put(delivered, m.seq, c)
      BY <3>1 DEF AcceptFull, AcceptRef, Slot
    <3> QED
      BY <3>3, <3>4 DEF Put
  <2> QED
    BY <2>1, <2>2
<1> QED
  BY <1>1, <1>2

\* No chunk is ever overwritten or dropped, by any peer on any stream.
THEOREM ChunksDeliveredOnce == Spec => DeliveredOnce
<1>1. IInv /\ [Next]_vars
        => [\A q \in DOMAIN delivered :
               q \in DOMAIN delivered' /\ delivered'[q] = delivered[q]]_vars
  BY StepDelivers
<1> QED
  BY <1>1, ReceiverInvariant, PTL DEF Spec, DeliveredOnce

\* A message that ends a task leaves the shared reconstruction alone.
LEMMA StepReturns ==
    ASSUME [Next]_vars, NEW s \in Streams, phase[s] # phase'[s],
           phase'[s] = "closed"
    PROVE  UNCHANGED <<dictionary, delivered, pendingRepairs,
                       nextInitialSeq, nextInitialOffset>>
<1>1. Next
  BY DEF vars
<1>2. PICK u \in Streams : (\E m \in Messages : Handle(u, m)) \/ Abandon(u)
  BY <1>1 DEF Next
<1>3. CASE Abandon(u)
  BY <1>3 DEF Abandon, reconstruction
<1>4. CASE \E m \in Messages : Handle(u, m)
  <2>1. PICK m \in Messages : Handle(u, m)
    BY <1>4
  <2>2. ~ (AcceptFull(u, m) \/ AcceptRef(u, m) \/ AcceptMiss(u, m))
    BY DEF AcceptFull, AcceptRef, AcceptMiss, Stay
  <2> QED
    BY <2>1, <2>2, QuietStep
<1> QED
  BY <1>2, <1>3, <1>4

\* The promise of accept_frame's docstring, for every way a task ends.
THEOREM ReturnsAreHarmless == Spec => ReturnIsHarmless
<1>1. [Next]_vars
        => [(\E s \in Streams : phase[s] # phase'[s] /\ phase'[s] = "closed")
              => UNCHANGED <<dictionary, delivered, pendingRepairs,
                             nextInitialSeq, nextInitialOffset>>]_vars
  BY StepReturns
<1> QED
  BY <1>1, PTL DEF Spec, ReturnIsHarmless

\* Once a verdict is out no frame is admitted and the round stays over.
LEMMA StepAfterReport ==
    ASSUME IInv, [Next]_vars, NEW s \in Streams, Reported(s)
    PROVE  UNCHANGED <<delivered, pendingRepairs, dictionary, roundEnded>>
<1>1. CASE UNCHANGED vars
  BY <1>1 DEF vars, reconstruction
<1>2. CASE Next
  <2>1. roundEnded /\ roundEnded \in BOOLEAN
    BY DEF IInv, TypeOK, NothingAfterReport
  <2>2. PICK u \in Streams : (\E m \in Messages : Handle(u, m)) \/ Abandon(u)
    BY <1>2 DEF Next
  <2>3. CASE Abandon(u)
    BY <2>3 DEF Abandon, reconstruction
  <2>4. CASE \E m \in Messages : Handle(u, m)
    <3>1. PICK m \in Messages : Handle(u, m)
      BY <2>4
    <3>2. m \in MessageType
      BY MessagesAssumption
    <3>3. ~ Admitted(u, m)
      BY <3>2, AdmittedUnreported
    <3>4. UNCHANGED <<dictionary, delivered, pendingRepairs>>
      BY <3>1, <3>3, QuietStep DEF AcceptFull, AcceptRef, AcceptMiss
    <3>5. ~ EndRound(u, m)
      BY <2>1 DEF EndRound, RoundComplete
    <3>6. UNCHANGED roundEnded
      BY <3>1, <3>3, <3>5
      DEF Handle, HandleFrame, AcceptFull, AcceptRef, AcceptMiss,
          UnusableFrame, RefuseFrame, Hello, BadHello, BadEndRound, Finish,
          BadFinish, Unknown, Undecodable, Abandon, reconstruction
    <3> QED
      BY <3>4, <3>6
  <2> QED
    BY <2>2, <2>3, <2>4
<1> QED
  BY <1>1, <1>2

\* No stream can change what another was given a verdict on.
THEOREM ReportsAreFinal == Spec => ReportIsFinal
<1>1. IInv /\ [Next]_vars
        => [(\E s \in Streams : Reported(s))
              => UNCHANGED <<delivered, pendingRepairs, dictionary,
                             roundEnded>>]_vars
  BY StepAfterReport
<1> QED
  BY <1>1, ReceiverInvariant, PTL DEF Spec, ReportIsFinal

-----------------------------------------------------------------------------
(* What the streams have counted, all together.                            *)

AnyOf(S) == CHOOSE x \in S : TRUE

\* g adds up the counts c of the outcome o over every set of streams.
Sums(g, c, o) ==
    /\ g \in [SUBSET Streams -> Nat]
    /\ \A S \in SUBSET Streams :
          g[S] = IF S = {} THEN 0 ELSE c[AnyOf(S)][o] + g[S \ {AnyOf(S)}]

\* Taking one stream out of a set of them.
LEMMA OneLess ==
    ASSUME NEW S \in SUBSET Streams, NEW k \in Nat, Cardinality(S) = k + 1
    PROVE  S # {} /\ AnyOf(S) \in S /\ Cardinality(S \ {AnyOf(S)}) = k
<1>1. IsFiniteSet(S)
  BY StreamsAssumption, FS_Subset
<1>2. S # {}
  BY FS_EmptySet
<1>3. PICK x : x = AnyOf(S) /\ x \in S
  BY <1>2 DEF AnyOf
<1>4. Cardinality(S \ {x}) = Cardinality(S) - 1
  BY <1>1, <1>3, FS_RemoveElement
<1> QED
  BY <1>2, <1>3, <1>4

\* CountOf is such a sum.
Totalled ==
    \A o \in Outcomes : \E g : Sums(g, counts, o) /\ CountOf(o) = g[Streams]

\* There are finitely many streams, so CountOf's recursion is well founded.
LEMMA CountRecursion == TypeOK => Totalled
<1> SUFFICES ASSUME counts \in [Streams -> [Outcomes -> Nat]], NEW o \in Outcomes
             PROVE  \E g : Sums(g, counts, o) /\ CountOf(o) = g[Streams]
  BY DEF TypeOK, Totalled
<1> DEFINE h == [x \in Streams |-> [v \in Nat |-> counts[x][o] + v]]
           c == [S \in SUBSET Streams |-> CHOOSE x \in S : TRUE]
           g == CHOOSE f : f = [S \in SUBSET Streams |->
                            IF S = {} THEN 0
                            ELSE counts[CHOOSE x \in S : TRUE][o]
                                   + f[S \ {CHOOSE x \in S : TRUE}]]
<1>1. ASSUME NEW S \in SUBSET Streams, S # {}
      PROVE  (CHOOSE x \in S : TRUE) \in S
  BY <1>1
<1>2. ASSUME NEW v \in Nat, NEW x \in Streams
      PROVE  counts[x][o] + v \in Nat
  OBVIOUS
<1>3. Turns(h, Streams, Nat)
  BY <1>2 DEF Turns
<1>4. Picks(c, Streams)
  BY <1>1 DEF Picks
<1>5. PICK f : Unfolds(f, Streams, Nat, 0, c, h)
  <2> HIDE DEF h, c, g
  <2>1. 0 \in Nat
    OBVIOUS
  <2> QED
    BY <1>3, <1>4, <2>1, StreamsAssumption, SetRecursion
<1>6. ASSUME NEW S \in SUBSET Streams
      PROVE  f[S] = IF S = {} THEN 0
                    ELSE counts[CHOOSE x \in S : TRUE][o]
                           + f[S \ {CHOOSE x \in S : TRUE}]
  <2>1. S # {} => (CHOOSE x \in S : TRUE) \in Streams
                  /\ f[S \ {CHOOSE x \in S : TRUE}] \in Nat
    BY <1>1, <1>5 DEF Unfolds
  <2> QED
    BY <1>5, <2>1 DEF Unfolds
<1>7. f = [S \in SUBSET Streams |->
             IF S = {} THEN 0
             ELSE counts[CHOOSE x \in S : TRUE][o]
                    + f[S \ {CHOOSE x \in S : TRUE}]]
  BY <1>5, <1>6 DEF Unfolds
<1>8. g = [S \in SUBSET Streams |->
              IF S = {} THEN 0
              ELSE counts[CHOOSE x \in S : TRUE][o]
                     + g[S \ {CHOOSE x \in S : TRUE}]]
  BY <1>7, Zenon
<1>9. CountOf(o) = g[Streams]
  BY Zenon DEF CountOf, MapThenSumSet, MapThenFoldSet
<1> HIDE DEF g
<1>10. \A S \in SUBSET Streams :
          g[S] = IF S = {} THEN 0 ELSE counts[AnyOf(S)][o] + g[S \ {AnyOf(S)}]
  BY <1>8, Zenon DEF AnyOf
<1>11. g \in [SUBSET Streams -> Nat]
  <2> DEFINE P == {k \in Nat : \A S \in SUBSET Streams : Cardinality(S) = k => g[S] \in Nat}
  <2>1. \A S \in SUBSET Streams : IsFiniteSet(S) /\ Cardinality(S) \in Nat
    BY StreamsAssumption, FS_Subset, FS_CardinalityType
  <2>2. 0 \in P
    <3>1. \A S \in SUBSET Streams : Cardinality(S) = 0 => g[S] = 0
      BY <1>10, <2>1, FS_EmptySet
    <3> QED
      BY <3>1
  <2>3. ASSUME NEW k \in P PROVE k + 1 \in P
    <3> SUFFICES ASSUME NEW S \in SUBSET Streams, Cardinality(S) = k + 1
                 PROVE  g[S] \in Nat
      OBVIOUS
    <3>1. S # {} /\ AnyOf(S) \in S
      BY OneLess
    <3>2. Cardinality(S \ {AnyOf(S)}) = k
      BY OneLess
    <3>3. g[S \ {AnyOf(S)}] \in Nat
      BY <3>2
    <3>4. counts[AnyOf(S)][o] \in Nat
      BY <3>1
    <3>5. g[S] = counts[AnyOf(S)][o] + g[S \ {AnyOf(S)}]
      BY <1>10, <3>1
    <3> QED
      BY <3>3, <3>4, <3>5
  <2>4. P = Nat
    <3> HIDE DEF P
    <3>1. P \subseteq Nat
      BY DEF P
    <3> QED
      BY <2>2, <2>3, <3>1, AllOfNat
  <2>5. \A S \in SUBSET Streams : g[S] \in Nat
    BY <2>1, <2>4
  <2>6. g = [S \in SUBSET Streams |-> g[S]]
    BY <1>8
  <2> QED
    BY <2>5, <2>6
<1> QED
  BY <1>9, <1>10, <1>11 DEF Sums


\* d is c but for e more of the outcome p on stream s.
Raised(c, d, s, p, e) ==
    \A x \in Streams :
        /\ c[x][p] \in Nat
        /\ d[x][p] = c[x][p] + IF x = s THEN e ELSE 0

\* Adding e to one stream's counter adds it to the sum over every set of
\* streams that stream is in.
LEMMA SumsRaised ==
    ASSUME NEW c, NEW d, NEW s \in Streams, NEW p \in Outcomes, NEW e \in Nat,
           Raised(c, d, s, p, e)
    PROVE  \A g, h : Sums(g, c, p) /\ Sums(h, d, p)
                        => h[Streams] = g[Streams] + e
<1> SUFFICES ASSUME NEW g, NEW h, Sums(g, c, p), Sums(h, d, p)
             PROVE  h[Streams] = g[Streams] + e
  OBVIOUS
<1> DEFINE P == {k \in Nat : \A S \in SUBSET Streams :
                    Cardinality(S) = k => h[S] = g[S] + IF s \in S THEN e ELSE 0}
<1>1. \A S \in SUBSET Streams : IsFiniteSet(S) /\ Cardinality(S) \in Nat
  BY StreamsAssumption, FS_Subset, FS_CardinalityType
<1>2. 0 \in P
  <2> SUFFICES ASSUME NEW S \in SUBSET Streams, Cardinality(S) = 0
               PROVE  h[S] = g[S] + IF s \in S THEN e ELSE 0
    OBVIOUS
  <2>1. S = {}
    BY <1>1, FS_EmptySet
  <2>2. g[S] = 0 /\ h[S] = 0
    BY <2>1 DEF Sums
  <2> QED
    BY <2>1, <2>2
<1>3. ASSUME NEW k \in P PROVE k + 1 \in P
  <2> SUFFICES ASSUME NEW S \in SUBSET Streams, Cardinality(S) = k + 1
               PROVE  h[S] = g[S] + IF s \in S THEN e ELSE 0
    OBVIOUS
  <2>1. S # {} /\ AnyOf(S) \in S
    BY OneLess
  <2>2. Cardinality(S \ {AnyOf(S)}) = k
    BY OneLess
  <2>3. PICK x : x = AnyOf(S) /\ x \in S
    BY <2>1
  <2>4. h[S \ {x}] = g[S \ {x}] + IF s \in S \ {x} THEN e ELSE 0
    BY <2>2, <2>3
  <2>5. h[S] = d[x][p] + h[S \ {x}] /\ g[S] = c[x][p] + g[S \ {x}]
    BY <2>1, <2>3 DEF Sums
  <2>6. g[S \ {x}] \in Nat /\ c[x][p] \in Nat
    BY <2>3 DEF Sums, Raised
  <2>7. d[x][p] = c[x][p] + IF x = s THEN e ELSE 0
    BY <2>3 DEF Raised
  <2>8. CASE x = s
    <3>1. s \in S /\ s \notin S \ {x}
      BY <2>3, <2>8
    <3> QED
      BY <2>4, <2>5, <2>6, <2>7, <2>8, <3>1
  <2>9. CASE x # s
    <3>1. s \in S <=> s \in S \ {x}
      BY <2>9
    <3>2. CASE s \in S
      BY <2>4, <2>5, <2>6, <2>7, <2>9, <3>1, <3>2
    <3>3. CASE s \notin S
      BY <2>4, <2>5, <2>6, <2>7, <2>9, <3>1, <3>3
    <3> QED
      BY <3>2, <3>3
  <2> QED
    BY <2>8, <2>9
<1>4. P = Nat
  <2> HIDE DEF P
  <2>1. P \subseteq Nat
    BY DEF P
  <2> QED
    BY <1>2, <1>3, <2>1, AllOfNat
<1>5. PICK k : k = Cardinality(Streams) /\ k \in Nat
  BY <1>1
<1> QED
  BY <1>4, <1>5

\* A total is a number.
LEMMA TotalsNat ==
    ASSUME TypeOK, NEW p \in Outcomes
    PROVE  CountOf(p) \in Nat
BY CountRecursion DEF Totalled, Sums

\* What Count(s, o) does to the four totals.
LEMMA CountRaised ==
    ASSUME TypeOK, TypeOK', NEW s \in Streams, NEW o \in Outcomes,
           Count(s, o), NEW p \in Outcomes
    PROVE  /\ CountOf(p) \in Nat
           /\ CountOf(p)' = CountOf(p) + IF p = o THEN 1 ELSE 0
<1> DEFINE e == IF p = o THEN 1 ELSE 0
<1>1. Totalled
  BY CountRecursion
<1>2. Totalled'
  BY CountRecursion, PTL
<1>3. PICK g \in [SUBSET Streams -> Nat] :
          Sums(g, counts, p) /\ CountOf(p) = g[Streams]
  BY <1>1 DEF Totalled, Sums
<1>4. PICK h \in [SUBSET Streams -> Nat] :
          Sums(h, counts', p) /\ CountOf(p)' = h[Streams]
  BY <1>2 DEF Totalled, Sums
<1>5. /\ counts \in [Streams -> [Outcomes -> Nat]]
      /\ counts' \in [Streams -> [Outcomes -> Nat]]
  BY DEF TypeOK
<1>6. Raised(counts, counts', s, p, e)
  BY <1>5 DEF Count, Raised
<1>7. e \in Nat
  OBVIOUS
<1> HIDE DEF e
<1>8. h[Streams] = g[Streams] + e
  <2>1. \A f, k : Sums(f, counts, p) /\ Sums(k, counts', p)
                    => k[Streams] = f[Streams] + e
    BY <1>6, <1>7, SumsRaised
  <2> QED
    BY <1>3, <1>4, <2>1
<1>9. g[Streams] \in Nat
  BY <1>3 DEF Sums
<1> QED
  BY <1>3, <1>4, <1>8, <1>9 DEF e

\* Nothing counted, nothing in the totals.
LEMMA CountNothing ==
    ASSUME TypeOK, NEW p \in Outcomes, \A x \in Streams : counts[x][p] = 0
    PROVE  CountOf(p) = 0
<1>1. PICK g : Sums(g, counts, p) /\ CountOf(p) = g[Streams]
  BY CountRecursion DEF Totalled
<1> DEFINE P == {k \in Nat : \A S \in SUBSET Streams : Cardinality(S) = k => g[S] = 0}
<1>2. \A S \in SUBSET Streams : IsFiniteSet(S) /\ Cardinality(S) \in Nat
  BY StreamsAssumption, FS_Subset, FS_CardinalityType
<1>3. 0 \in P
  <2> SUFFICES ASSUME NEW S \in SUBSET Streams, Cardinality(S) = 0
               PROVE  g[S] = 0
    OBVIOUS
  <2>1. S = {}
    BY <1>2, FS_EmptySet
  <2> QED
    BY <1>1, <2>1 DEF Sums
<1>4. ASSUME NEW k \in P PROVE k + 1 \in P
  <2> SUFFICES ASSUME NEW S \in SUBSET Streams, Cardinality(S) = k + 1
               PROVE  g[S] = 0
    OBVIOUS
  <2>1. S # {} /\ AnyOf(S) \in S
    BY OneLess
  <2>2. Cardinality(S \ {AnyOf(S)}) = k
    BY OneLess
  <2>3. g[S \ {AnyOf(S)}] = 0
    BY <2>2
  <2>4. g[S] = counts[AnyOf(S)][p] + g[S \ {AnyOf(S)}]
    BY <1>1, <2>1 DEF Sums
  <2> QED
    BY <2>1, <2>3, <2>4
<1>5. P = Nat
  <2> HIDE DEF P
  <2>1. P \subseteq Nat
    BY DEF P
  <2> QED
    BY <1>3, <1>4, <2>1, AllOfNat
<1> QED
  BY <1>1, <1>2, <1>5

-----------------------------------------------------------------------------
(* The totals, the cursor and what is pending.                             *)

\* Every number is counted once, and what is pending is finite.
CountInv == IInv /\ CountsAgree

\* The numbers waiting for repair are below the cursor.
LEMMA PendingFinite ==
    ASSUME IInv
    PROVE  /\ IsFiniteSet(DOMAIN pendingRepairs)
           /\ Cardinality(DOMAIN pendingRepairs) \in Nat
<1>1. DOMAIN pendingRepairs \subseteq 0 .. nextInitialSeq - 1
  BY DEF IInv, Consistent, CursorPartition
<1>2. IsFiniteSet(0 .. nextInitialSeq - 1)
  <2>1. 0 \in Int /\ nextInitialSeq - 1 \in Int
    BY DEF IInv, TypeOK
  <2> QED
    BY <2>1, FS_Interval
<1> QED
  BY <1>1, <1>2, FS_Subset, FS_CardinalityType

\* A fresh object has counted nothing and waits for nothing.
LEMMA InitCounts ==
    ASSUME Init
    PROVE  CountsAgree
<1>1. TypeOK
  BY InitInvariant DEF IInv
<1>2. \A p \in Outcomes : \A x \in Streams : counts[x][p] = 0
  BY DEF Init
<1>3. \A p \in Outcomes : CountOf(p) = 0
  BY <1>1, <1>2, CountNothing
<1>4. nextInitialSeq = 0 /\ DOMAIN pendingRepairs = {}
  BY DEF Init
<1>5. Cardinality({}) = 0
  BY FS_EmptySet
<1> QED
  BY <1>3, <1>4, <1>5 DEF CountsAgree, Outcomes

\* An accepted frame is counted under one outcome: a FULL or a hit moves the
\* cursor only, a miss the cursor and what is pending, a repair the latter.
LEMMA AcceptCounts ==
    ASSUME CountInv, IInv', NEW s \in Streams, NEW m \in MessageType,
           AcceptFull(s, m) \/ AcceptRef(s, m) \/ AcceptMiss(s, m)
    PROVE  CountsAgree'
<1> DEFINE pending == Cardinality(DOMAIN pendingRepairs)
<1>1. /\ TypeOK /\ TypeOK' /\ nextInitialSeq \in Nat
      /\ CountOf("full") + CountOf("ref") + CountOf("miss") = nextInitialSeq
      /\ CountOf("miss") - CountOf("repair") = pending
  BY DEF CountInv, IInv, TypeOK, CountsAgree
<1>2. /\ Admitted(s, m) /\ Advance(m) /\ m.repair \in BOOLEAN
  BY FrameFields DEF AcceptFull, AcceptRef, AcceptMiss, Admitted
<1>3. /\ IsFiniteSet(DOMAIN pendingRepairs) /\ pending \in Nat
  BY PendingFinite DEF CountInv
<1>4. /\ ~ m.repair => nextInitialSeq' = nextInitialSeq + 1
      /\ m.repair => nextInitialSeq' = nextInitialSeq
  BY <1>2 DEF Advance
<1>5. {"full", "ref", "miss", "repair"} = Outcomes
  BY DEF Outcomes
<1>6. /\ CountOf("full") \in Nat /\ CountOf("ref") \in Nat
      /\ CountOf("miss") \in Nat /\ CountOf("repair") \in Nat
  BY <1>1, <1>2, <1>5, TotalsNat
<1> HIDE DEF pending
<1>7. ASSUME NEW o \in Outcomes, Count(s, o),
             o = "repair" <=> m.repair,
             pending' = pending + IF o = "miss" THEN 1 ELSE
                                  IF o = "repair" THEN -1 ELSE 0
      PROVE  CountsAgree'
  <2>1. /\ CountOf("full")' = CountOf("full") + IF "full" = o THEN 1 ELSE 0
        /\ CountOf("ref")' = CountOf("ref") + IF "ref" = o THEN 1 ELSE 0
        /\ CountOf("miss")' = CountOf("miss") + IF "miss" = o THEN 1 ELSE 0
        /\ CountOf("repair")' = CountOf("repair") + IF "repair" = o THEN 1 ELSE 0
    BY <1>1, <1>5, <1>7, CountRaised
  <2>2. /\ CountOf("full")' + CountOf("ref")' + CountOf("miss")' = nextInitialSeq'
        /\ CountOf("miss")' - CountOf("repair")' = pending'
    <3>1. CASE o = "full"
      BY <1>1, <1>3, <1>4, <1>6, <1>7, <2>1, <3>1
    <3>2. CASE o = "ref"
      BY <1>1, <1>3, <1>4, <1>6, <1>7, <2>1, <3>2
    <3>3. CASE o = "miss"
      BY <1>1, <1>3, <1>4, <1>6, <1>7, <2>1, <3>3
    <3>4. CASE o = "repair"
      BY <1>1, <1>3, <1>4, <1>6, <1>7, <2>1, <3>4
    <3> QED
      BY <1>5, <3>1, <3>2, <3>3, <3>4
  <2> QED
    BY <2>2 DEF CountsAgree, pending
<1>8. CASE AcceptFull(s, m) /\ m.repair
  <2>1. Count(s, "repair") /\ pendingRepairs' = Drop(pendingRepairs, m.seq)
    BY <1>8 DEF AcceptFull, FullOutcome
  <2>2. m.seq \in DOMAIN pendingRepairs
    BY <1>2, <1>8, RepairAdmitted DEF CountInv
  <2>3. DOMAIN pendingRepairs' = DOMAIN pendingRepairs \ {m.seq}
    BY <2>1, DropFacts
  <2>4. pending' = pending - 1
    BY <1>3, <2>2, <2>3, FS_RemoveElement DEF pending
  <2> QED
    BY <1>3, <1>5, <1>7, <1>8, <2>1, <2>4
<1>9. CASE AcceptFull(s, m) /\ ~ m.repair
  <2>1. Count(s, "full") /\ pending' = pending
    BY <1>9 DEF AcceptFull, FullOutcome, pending
  <2> QED
    BY <1>3, <1>5, <1>7, <1>9, <2>1
<1>10. CASE AcceptRef(s, m)
  <2>1. Count(s, "ref") /\ pending' = pending
    BY <1>10 DEF AcceptRef, pending
  <2>2. ~ m.repair
    BY <1>10 DEF AcceptRef, RefHit, Admitted, Expected
  <2> QED
    BY <1>3, <1>5, <1>7, <2>1, <2>2
<1>11. CASE AcceptMiss(s, m)
  <2>1. /\ Count(s, "miss")
        /\ pendingRepairs' = Put(pendingRepairs, m.seq, Reference(m.frame))
    BY <1>11 DEF AcceptMiss
  <2>2. ~ m.repair
    BY <1>11 DEF AcceptMiss, RefMiss, Admitted, Expected
  <2>3. m.seq \notin DOMAIN pendingRepairs
    BY <1>2, <2>2, InitialAdmitted DEF CountInv
  <2>4. DOMAIN pendingRepairs' = DOMAIN pendingRepairs \cup {m.seq}
    BY <2>1 DEF Put
  <2>5. pending' = pending + 1
    BY <1>3, <2>3, <2>4, FS_AddElement DEF pending
  <2> QED
    BY <1>3, <1>5, <1>7, <2>1, <2>2, <2>5
<1>12. CASE AcceptFull(s, m)
  BY <1>2, <1>8, <1>9, <1>12, Zenon
<1> QED
  BY <1>10, <1>11, <1>12, Zenon

\* No other step counts, moves the cursor or touches what is pending.
LEMMA UncountedStep ==
    ASSUME NEW s \in Streams, NEW m \in Messages,
           Handle(s, m) \/ Abandon(s)
    PROVE  \/ AcceptFull(s, m) \/ AcceptRef(s, m) \/ AcceptMiss(s, m)
           \/ UNCHANGED <<counts, pendingRepairs, nextInitialSeq>>
BY DEF Handle, HandleFrame, UnusableFrame, RefuseFrame, Hello, BadHello,
       EndRound, BadEndRound, Finish, BadFinish, Unknown, Undecodable,
       Abandon, reconstruction

\* Every initial frame is counted once, and misses less repairs are pending,
\* whatever is sent on however many streams.
THEOREM CountsAddUp == Spec => []CountsAgree
<1>1. Init => CountsAgree
  BY InitCounts
<1>2. IInv /\ IInv' /\ CountsAgree /\ [Next]_vars => CountsAgree'
  <2> SUFFICES ASSUME IInv, IInv', CountsAgree, [Next]_vars
               PROVE  CountsAgree'
    OBVIOUS
  <2>1. ASSUME UNCHANGED <<counts, pendingRepairs, nextInitialSeq>>
        PROVE  CountsAgree'
    <3>1. \A o \in Outcomes : CountOf(o)' = CountOf(o)
      BY <2>1, Zenon DEF CountOf, MapThenSumSet, MapThenFoldSet
    <3>2. {"full", "ref", "miss", "repair"} = Outcomes
      BY DEF Outcomes
    <3> QED
      BY <2>1, <3>1, <3>2 DEF CountsAgree
  <2>2. CASE UNCHANGED vars
    BY <2>1, <2>2 DEF vars, reconstruction
  <2>3. CASE Next
    <3>1. PICK s \in Streams : (\E m \in Messages : Handle(s, m)) \/ Abandon(s)
      BY <2>3 DEF Next
    <3>2. CASE Abandon(s)
      BY <2>1, <3>2 DEF Abandon, reconstruction
    <3>3. CASE \E m \in Messages : Handle(s, m)
      <4>1. PICK m \in Messages : Handle(s, m)
        BY <3>3
      <4> QED
        BY <2>1, <4>1, UncountedStep, AcceptCounts, MessagesAssumption
        DEF CountInv
    <3> QED
      BY <3>1, <3>2, <3>3
  <2> QED
    BY <2>2, <2>3
<1> QED
  BY <1>1, <1>2, ReceiverInvariant, PTL DEF Spec
-----------------------------------------------------------------------------
(* The session.                                                            *)

\* The dictionary of any end: entries under their own ids, within its bound.
Sound(d) == SoundDictionary(d, MaxDictChunks)

\* What encode made of chunk i of the input.
EmittedFrame(i) ==
    /\ frames[i].kind \in {"FULL", "REF"}
    /\ frames[i].cid = CidOf[target[i]]
    /\ frames[i].length = LengthOf[target[i]]
    /\ frames[i].offset = IF i = 1 THEN 0
                          ELSE frames[i - 1].offset + frames[i - 1].length
    /\ frames[i].nonce = i
    /\ frames[i].tagged /\ frames[i].inContext
    /\ frames[i].kind = "REF" =>
          /\ frames[i].cid \in Keys(encoders[i])
          /\ encoders[i + 1] = encoders[i]
    /\ frames[i].kind = "FULL" =>
          /\ frames[i].payload = target[i]
          /\ encoders[i + 1] = Touched(encoders[i], target[i])

Emission ==
    /\ Sound(warm)
    /\ \A i \in 1 .. Len(frames) + 1 : Sound(encoders[i])
    /\ encoders[1] = warm
    /\ \A i \in 1 .. Len(frames) : EmittedFrame(i)
    /\ pc # "encode" => Len(frames) = Len(target)

\* While the client encodes nothing has been said.
Quiet ==
    pc = "encode" => /\ toServer = <<>> /\ link = "up" /\ sent = 0
                     /\ phase[Stream] = "hello"

\* The server has taken in a beginning of the frames, each as it was made.
Reading ==
    /\ nextInitialSeq <= Len(frames)
    /\ \A q \in DOMAIN promised : promised[q] = Reference(frames[q + 1])
    /\ nextInitialSeq = 0 => nextInitialOffset = 0
    /\ \A n \in seenNonces.seen : n <= seenNonces.highest
    /\ phase[Stream] = "hello" => nextInitialSeq = 0 /\ ~ roundEnded
    /\ phase[Stream] = "open" =>
          /\ expectedFrameCount = Len(frames)
          /\ Len(frames) <= MaxFrameCount
    /\ ~ roundEnded =>
          /\ seenNonces.highest = nextInitialSeq
          /\ Retains(dictionary, encoders[nextInitialSeq + 1], warm)
    /\ roundEnded => nextInitialSeq = Len(frames)

\* The r-th message of the first round.
RoundMessage(r) ==
    IF r = 1 THEN [t |-> "HELLO", valid |-> TRUE, count |-> Len(frames)]
    ELSE IF r <= Len(frames) + 1 THEN FrameMessage(r - 2, frames[r - 1], FALSE)
    ELSE [t |-> "END_ROUND"]

\* How many messages of it the server has read, and the client has sent.
Taken == IF phase[Stream] = "hello" THEN 0 ELSE nextInitialSeq + 1

Offered == IF pc = "encode" THEN 0
           ELSE IF pc = "frames" THEN sent + 1 ELSE Len(frames) + 2

\* What lies between them is the rest of the round, or a beginning of it if the
\* connection was lost.
FirstRound ==
    phase[Stream] # "closed" /\ ~ roundEnded =>
        /\ replies[Stream] = <<>>
        /\ Taken + Len(toServer) <= Len(frames) + 2
        /\ link = "up" =>
              /\ pc \in {"encode", "frames", "missing"}
              /\ Taken + Len(toServer) = Offered
        /\ \A j \in 1 .. Len(toServer) : toServer[j] = RoundMessage(Taken + j)

\* The repair of frame q + 1 under nonce n.
RepairMessage(q, n) ==
    FrameMessage(q, [frames[q + 1] EXCEPT !.kind = "FULL",
                        !.length = LengthOf[target[q + 1]], !.nonce = n,
                        !.payload = target[q + 1]], TRUE)

\* Place j of the stream holds a repair.
RepairAt(j) ==
    /\ toServer[j].t = "FRAME"
    /\ toServer[j].seq \in DOMAIN pendingRepairs
    /\ toServer[j] = RepairMessage(toServer[j].seq, seenNonces.highest + j)

FinishAt(j) == toServer[j].t = "FINISH"

\* What is on its way repairs different misses with ever new nonces.  FINISH
\* comes last, when all that is missing is on its way.
SecondRound ==
    phase[Stream] = "open" /\ roundEnded =>
        /\ Len(replies[Stream]) = 1 /\ replies[Stream][1].t = "MISSING"
        /\ \A j \in 1 .. Len(toServer) :
              RepairAt(j) \/ (FinishAt(j) /\ j = Len(toServer))
        /\ \A i, j \in 1 .. Len(toServer) :
              RepairAt(i) /\ RepairAt(j) /\ toServer[i].seq = toServer[j].seq
                  => i = j
        /\ \A j \in 1 .. Len(toServer) : FinishAt(j) =>
              \A q \in DOMAIN pendingRepairs :
                  \E i \in 1 .. Len(toServer) : RepairAt(i) /\ toServer[i].seq = q

\* The client is not ahead of what it said: it knows what is missing, has
\* repairs under way for all the items it has left behind, and goes on with
\* the nonce after theirs.
Following ==
    phase[Stream] = "open" /\ roundEnded /\ link = "up" =>
        /\ pc \in {"missing", "repair", "stats", "aborted"}
        /\ pc = "missing" =>
              /\ toServer = <<>> /\ seenNonces.highest = Len(frames)
              /\ replies[Stream][1].items = DOMAIN pendingRepairs
        /\ pc = "repair" =>
              /\ nextNonce = seenNonces.highest + Len(toServer) + 1
              /\ toRepair \subseteq DOMAIN pendingRepairs
              /\ \A j \in 1 .. Len(toServer) :
                    RepairAt(j) /\ toServer[j].seq \notin toRepair
              /\ \A q \in DOMAIN pendingRepairs \ toRepair :
                  \E i \in 1 .. Len(toServer) : RepairAt(i) /\ toServer[i].seq = q

\* The frames the client can repair.
Repairable == {q \in 0 .. Len(frames) - 1 : frames[q + 1].cid \in Keys(warm)}

\* What the server has answered, and what the client has made of it.
Answers ==
    /\ Len(replies[Stream]) <= 2
    /\ Len(replies[Stream]) >= 1 =>
          \/ /\ replies[Stream][1].t = "MISSING" /\ roundEnded
             /\ replies[Stream][1].items \subseteq Repairable
             /\ IsFiniteSet(replies[Stream][1].items)
             /\ Cardinality(replies[Stream][1].items) = counts[Stream]["miss"]
          \/ /\ replies[Stream][1].t = "ERROR" /\ Len(replies[Stream]) = 1
             /\ phase[Stream] = "closed" /\ Len(target) > MaxFrameCount
    /\ Len(replies[Stream]) = 2 =>
          /\ replies[Stream][2].t = "STATS" /\ replies[Stream][2].ok
          /\ replies[Stream][2].counts = counts[Stream]
          /\ phase[Stream] = "closed"
          /\ nextInitialSeq = Len(target)
          /\ DOMAIN pendingRepairs = {}
    /\ pc \in {"repair", "stats", "closing", "done"} =>
          Len(replies[Stream]) >= 1 /\ replies[Stream][1].t = "MISSING"
    /\ pc \in {"closing", "done"} =>
          Len(replies[Stream]) = 2 /\ stats = replies[Stream][2]

\* The frames the server has read, by kind.
FullsRead == {i \in 1 .. nextInitialSeq : frames[i].kind = "FULL"}
RefsRead == {i \in 1 .. nextInitialSeq : frames[i].kind = "REF"}

\* The counters of the server and of the client.
Tally ==
    /\ counts[Stream]["full"] = Cardinality(FullsRead)
    /\ counts[Stream]["ref"] + counts[Stream]["miss"] = Cardinality(RefsRead)
    /\ ~ roundEnded => counts[Stream]["repair"] = 0
    /\ IsFiniteSet(DOMAIN pendingRepairs)
    /\ counts[Stream]["miss"]
         = counts[Stream]["repair"] + Cardinality(DOMAIN pendingRepairs)
    /\ pc \in {"encode", "frames", "missing"} => repaired = 0
    /\ pc = "repair" => /\ IsFiniteSet(toRepair)
                        /\ repaired + Cardinality(toRepair) = counts[Stream]["miss"]
    /\ pc \in {"stats", "closing", "done"} => repaired = counts[Stream]["miss"]

Repairs ==
    /\ \A q \in DOMAIN pendingRepairs : q \in Repairable
    /\ toRepair \subseteq Repairable

\* The inductive invariant: nothing but the whole of it says why a step of one
\* end cannot surprise the other.
SessionInv ==
    /\ IInv /\ SessionTypeOK
    /\ Emission /\ Quiet /\ Reading /\ FirstRound /\ SecondRound
    /\ Following /\ Answers /\ Repairs /\ Tally

-----------------------------------------------------------------------------
(* Frames and messages.                                                    *)

\* Inputs are sequences of chunks, and every frame made of one is a frame.
LEMMA FrameTypes ==
    ASSUME SessionInv
    PROVE  /\ Len(frames) \in Nat /\ Len(target) \in Nat
           /\ Len(frames) <= Len(target)
           /\ DOMAIN frames = 1 .. Len(frames)
           /\ DOMAIN target = 1 .. Len(target)
           /\ \A i \in 1 .. Len(target) : target[i] \in Chunks
           /\ \A i \in 1 .. Len(frames) :
                 frames[i] \in Frames /\ target[i] \in Chunks /\ EmittedFrame(i)
<1>1. target \in Seq(Chunks) /\ frames \in Seq(Frames) /\ Len(frames) <= Len(target)
  BY InputsAssumption DEF SessionInv, SessionTypeOK, IInv, TypeOK
<1>2. /\ Len(frames) \in Nat /\ Len(target) \in Nat
      /\ DOMAIN frames = 1 .. Len(frames) /\ DOMAIN target = 1 .. Len(target)
  BY <1>1, LenProperties
<1>3. \A i \in 1 .. Len(target) : target[i] \in Chunks
  BY <1>1, ElementOfSeq
<1>4. \A i \in 1 .. Len(frames) : frames[i] \in Frames
  BY <1>1, ElementOfSeq
<1>5. \A i \in 1 .. Len(frames) : i \in 1 .. Len(target)
  BY <1>1, <1>2
<1> QED
  BY <1>1, <1>2, <1>3, <1>4, <1>5 DEF SessionInv, Emission

\* The state of the server, where there is one stream only.
LEMMA ServerTypes ==
    ASSUME SessionInv
    PROVE  /\ Stream \in Streams /\ Streams = {Stream}
           /\ nextInitialSeq \in Nat /\ nextInitialOffset \in Nat
           /\ expectedFrameCount \in Int
           /\ roundEnded \in BOOLEAN
           /\ phase \in [Streams -> {"hello", "open", "closed"}]
           /\ DOMAIN promised = 0 .. nextInitialSeq - 1
           /\ DOMAIN pendingRepairs \subseteq 0 .. nextInitialSeq - 1
           /\ DOMAIN delivered \subseteq 0 .. nextInitialSeq - 1
           /\ replies \in [Streams -> Seq(Replies)]
           /\ Len(replies[Stream]) \in Nat
           /\ counts \in [Streams -> [Outcomes -> Nat]]
           /\ seenNonces.highest \in Nat /\ seenNonces.seen \subseteq Nat
           /\ toServer \in Seq(MessageType) /\ Len(toServer) \in Nat
           /\ dictionary \in Seq(Entries) /\ Authentic(dictionary)
           /\ Sound(dictionary)
<1>1. Stream \in Streams /\ Streams = {Stream}
  BY StreamAssumption
<1>2. TypeOK /\ CursorPartition /\ DictionarySound
  BY DEF SessionInv, IInv, Consistent
<1>3. /\ DOMAIN promised = 0 .. nextInitialSeq - 1
      /\ expectedFrameCount \in Int
  BY <1>2 DEF TypeOK, NoFrameCount
<1>4. /\ DOMAIN pendingRepairs \subseteq 0 .. nextInitialSeq - 1
      /\ DOMAIN delivered \subseteq 0 .. nextInitialSeq - 1
  BY <1>2 DEF CursorPartition
<1>5. replies[Stream] \in Seq(Replies) /\ toServer \in Seq(MessageType)
  BY <1>1, <1>2 DEF TypeOK, SessionInv, SessionTypeOK
<1>6. Len(replies[Stream]) \in Nat /\ Len(toServer) \in Nat
  BY <1>5, LenProperties
<1>7. seenNonces.highest \in Nat /\ seenNonces.seen \subseteq Nat
  BY <1>2 DEF TypeOK, Windows
<1>8. Sound(dictionary) /\ Authentic(dictionary)
  BY <1>2 DEF TypeOK, DictionarySound, Sound, SoundDictionary
<1> QED
  BY <1>1, <1>2, <1>3, <1>4, <1>5, <1>6, <1>7, <1>8 DEF TypeOK

\* Equal ids, equal chunks.
LEMMA SameChunk ==
    ASSUME NEW a \in Chunks, NEW b \in Chunks, CidOf[a] = CidOf[b]
    PROVE  a = b
BY CidAssumption DEF IsInjective

\* What the fields of a repair are.
LEMMA RepairFields ==
    ASSUME NEW q \in Int, frames[q + 1] \in Frames, target[q + 1] \in Chunks,
           NEW n \in Nat
    PROVE  LET m == RepairMessage(q, n)
               f == frames[q + 1]
           IN  /\ m.t = "FRAME" /\ m.seq = q /\ m.repair = TRUE
               /\ m.frame.kind = "FULL" /\ m.frame.cid = f.cid
               /\ m.frame.length = LengthOf[target[q + 1]]
               /\ m.frame.offset = f.offset /\ m.frame.nonce = n
               /\ m.frame.tagged = f.tagged /\ m.frame.inContext = f.inContext
               /\ m.frame.payload = target[q + 1]
               /\ m.frame \in Frames
               /\ q \in Nat => m \in MessageType
<1> DEFINE g == [frames[q + 1] EXCEPT !.kind = "FULL",
                    !.length = LengthOf[target[q + 1]], !.nonce = n,
                    !.payload = target[q + 1]]
<1>1. LengthOf[target[q + 1]] \in Nat
  BY LengthAssumption
<1>2. /\ g.kind = "FULL" /\ g.cid = frames[q + 1].cid
      /\ g.length = LengthOf[target[q + 1]] /\ g.offset = frames[q + 1].offset
      /\ g.nonce = n /\ g.tagged = frames[q + 1].tagged
      /\ g.inContext = frames[q + 1].inContext /\ g.payload = target[q + 1]
      /\ g \in Frames
  BY <1>1 DEF Frames
<1>3. RepairMessage(q, n) = [t |-> "FRAME", seq |-> q, repair |-> TRUE, frame |-> g]
  BY DEF RepairMessage, FrameMessage
<1> HIDE DEF g
<1> QED
  BY <1>2, <1>3 DEF MessageType

\* Every message of the first round is one.
LEMMA RoundMessageTypes ==
    ASSUME SessionInv, NEW r \in 1 .. Len(frames) + 2
    PROVE  RoundMessage(r) \in MessageType
<1>1. Len(frames) \in Nat
  BY FrameTypes
<1>2. CASE r \in 2 .. Len(frames) + 1
  <2>1. r - 1 \in 1 .. Len(frames) /\ r - 2 \in Nat /\ r # 1
    BY <1>1, <1>2
  <2>2. frames[r - 1] \in Frames
    BY <2>1, FrameTypes
  <2> QED
    BY <1>1, <1>2, <2>1, <2>2 DEF RoundMessage, FrameMessage, MessageType
<1>3. CASE r = 1
  BY <1>1, <1>3 DEF RoundMessage, MessageType
<1>4. CASE r = Len(frames) + 2
  BY <1>1, <1>4 DEF RoundMessage, MessageType
<1> QED
  BY <1>1, <1>2, <1>3, <1>4

-----------------------------------------------------------------------------
(* The stream.                                                             *)

\* A message is written behind the others, unless the connection is gone.
LEMMA TransmitFacts ==
    ASSUME toServer \in Seq(MessageType), NEW m \in MessageType, Transmit(m)
    PROVE  /\ toServer' \in Seq(MessageType) /\ Len(toServer') \in Nat
           /\ link = "up" => /\ Len(toServer') = Len(toServer) + 1
                             /\ toServer'[Len(toServer) + 1] = m
           /\ link # "up" => toServer' = toServer
           /\ Len(toServer') >= Len(toServer)
           /\ \A j \in 1 .. Len(toServer) : toServer'[j] = toServer[j]
<1>1. Len(toServer) \in Nat
  BY LenProperties
<1>2. CASE link = "up"
  <2>1. toServer' = Append(toServer, m)
    BY <1>2 DEF Transmit
  <2> QED
    BY <1>1, <1>2, <2>1, Appended
<1>3. CASE link # "up"
  BY <1>1, <1>3 DEF Transmit
<1> QED
  BY <1>2, <1>3

\* The server takes the first message, and the others move up.
LEMMA ReadFacts ==
    ASSUME toServer \in Seq(MessageType), toServer # <<>>,
           toServer' = Tail(toServer)
    PROVE  /\ Head(toServer) = toServer[1] /\ toServer[1] \in MessageType
           /\ Len(toServer) \in Nat \ {0}
           /\ toServer' \in Seq(MessageType)
           /\ Len(toServer') = Len(toServer) - 1
           /\ \A j \in 1 .. Len(toServer') :
                 toServer'[j] = toServer[j + 1] /\ j + 1 \in 1 .. Len(toServer)
<1>1. Len(toServer) \in Nat \ {0}
  BY EmptySeq
<1>2. /\ toServer' \in Seq(MessageType) /\ Len(toServer') = Len(toServer) - 1
      /\ \A i \in 1 .. Len(toServer') : toServer'[i] = toServer[i + 1]
  BY HeadTailProperties
<1>3. toServer[1] \in MessageType
  BY <1>1, ElementOfSeq
<1>4. \A j \in 1 .. Len(toServer') : j + 1 \in 1 .. Len(toServer)
  BY <1>1, <1>2
<1> QED
  BY <1>1, <1>2, <1>3, <1>4

-----------------------------------------------------------------------------
(* The beginning.                                                          *)

\* Before the client encodes: no frame, no message, a thinned dictionary.
LEMMA SessionInitInvariant ==
    ASSUME SessionInit
    PROVE  SessionInv
<1>1. IInv /\ target \in Inputs
  BY InitInvariant DEF SessionInit, Init
<1>2. target \in Seq(Chunks)
  BY <1>1, InputsAssumption
<1>3. Sound(warm) /\ warm \in Seq(Entries)
  BY WarmSound, CapacityAssumption DEF SessionInit, Sound, SoundDictionary
<1>4. /\ frames = <<>> /\ Len(frames) = 0 /\ frames \in Seq(Frames)
      /\ toServer = <<>> /\ Len(toServer) = 0 /\ toServer \in Seq(MessageType)
      /\ Len(target) \in Nat
  BY <1>2, EmptySeq, LenProperties DEF SessionInit
<1>5. /\ encoders \in Seq(Seq(Entries)) /\ Len(encoders) = 1
      /\ encoders[1] = warm
  BY <1>3 DEF SessionInit
<1>6. SessionTypeOK
  BY <1>1, <1>3, <1>4, <1>5 DEF SessionTypeOK, SessionInit, IInv
<1>7. Emission
  BY <1>3, <1>4, <1>5 DEF Emission, SessionInit
<1>8. Stream \in Streams
  BY StreamAssumption
<1>9. /\ phase[Stream] = "hello" /\ replies[Stream] = <<>>
      /\ \A o \in Outcomes : counts[Stream][o] = 0
  BY <1>8 DEF SessionInit, Init
<1>10. Quiet
  BY <1>4, <1>9 DEF Quiet, SessionInit
<1>11. Reading
  <2>1. DOMAIN promised = {} /\ seenNonces.seen = {} /\ seenNonces.highest = 0
    BY DEF SessionInit, Init, EmptyWindow
  <2>2. Retains(dictionary, warm, warm)
    BY DEF Retains
  <2> QED
    BY <1>4, <1>5, <1>9, <2>1, <2>2 DEF Reading, SessionInit, Init
<1>12. FirstRound
  <2>1. Taken = 0 /\ Offered = 0
    BY <1>9 DEF Taken, Offered, SessionInit
  <2> QED
    BY <1>4, <1>9, <2>1 DEF FirstRound, SessionInit
<1>13. SecondRound /\ Following
  BY <1>9 DEF SecondRound, Following
<1>14. Answers
  BY <1>9 DEF Answers, SessionInit
<1>15. DOMAIN pendingRepairs = {} /\ toRepair = {} /\ repaired = 0
  BY DEF SessionInit, Init
<1>16. Repairs
  BY <1>15 DEF Repairs
<1>17. Tally
  <2>1. nextInitialSeq = 0
    BY DEF SessionInit, Init
  <2>2. FullsRead = {} /\ RefsRead = {}
    BY <2>1 DEF FullsRead, RefsRead
  <2>3. "full" \in Outcomes /\ "ref" \in Outcomes /\ "miss" \in Outcomes
        /\ "repair" \in Outcomes
    BY DEF Outcomes
  <2> QED
    BY <1>9, <1>15, <2>2, <2>3, FS_EmptySet DEF Tally, SessionInit
<1> QED
  BY <1>1, <1>6, <1>7, <1>10, <1>11, <1>12, <1>13, <1>14, <1>16, <1>17
  DEF SessionInv

-----------------------------------------------------------------------------
(* The client's steps.                                                     *)

\* While the client encodes, nothing has happened on the server's side.
LEMMA WhileEncoding ==
    ASSUME SessionInv, pc = "encode"
    PROVE  /\ toServer = <<>> /\ Len(toServer) = 0 /\ link = "up" /\ sent = 0
           /\ phase[Stream] = "hello" /\ nextInitialSeq = 0 /\ ~ roundEnded
           /\ replies[Stream] = <<>> /\ Len(replies[Stream]) = 0
           /\ DOMAIN promised = {} /\ DOMAIN pendingRepairs = {}
<1>1. /\ toServer = <<>> /\ link = "up" /\ sent = 0 /\ phase[Stream] = "hello"
  BY DEF SessionInv, Quiet
<1>2. nextInitialSeq = 0 /\ ~ roundEnded
  BY <1>1 DEF SessionInv, Reading
<1>3. replies[Stream] = <<>>
  BY <1>1, <1>2 DEF SessionInv, FirstRound
<1>4. 0 .. nextInitialSeq - 1 = {}
  BY <1>2
<1>5. DOMAIN promised = {} /\ DOMAIN pendingRepairs = {}
  BY <1>4, ServerTypes
<1> QED
  BY <1>1, <1>2, <1>3, <1>5, EmptySeq

\* Where the next frame starts.
LEMMA NextOffsetFacts ==
    ASSUME SessionInv
    PROVE  /\ NextOffset \in Nat
           /\ NextOffset = IF Len(frames) = 0 THEN 0
                           ELSE frames[Len(frames)].offset
                                  + frames[Len(frames)].length
<1>1. Len(frames) \in Nat /\ frames \in Seq(Frames)
  BY FrameTypes DEF SessionInv, SessionTypeOK
<1>2. frames = <<>> <=> Len(frames) = 0
  BY <1>1, EmptySeq
<1>3. CASE frames = <<>>
  BY <1>2, <1>3 DEF NextOffset
<1>4. CASE frames # <<>>
  <2>1. Len(frames) \in 1 .. Len(frames)
    BY <1>1, <1>2, <1>4
  <2>2. frames[Len(frames)].offset \in Nat /\ frames[Len(frames)].length \in Nat
    BY <2>1, FrameTypes DEF Frames
  <2> QED
    BY <1>2, <1>4, <2>2 DEF NextOffset, Last
<1> QED
  BY <1>3, <1>4

\* Frame i stays as it was when another is appended.
LEMMA EncodeEmits ==
    ASSUME SessionInv, Encode
    PROVE  /\ frames' \in Seq(Frames) /\ Len(frames') = Len(frames) + 1
           /\ Len(frames') <= Len(target)
           /\ encoders' \in Seq(Seq(Entries)) /\ Len(encoders') = Len(frames') + 1
           /\ \A i \in 1 .. Len(frames) : frames'[i] = frames[i]
           /\ \A i \in 1 .. Len(frames) + 1 : encoders'[i] = encoders[i]
           /\ Emission'
<1> DEFINE n == Len(frames) + 1
           c == target[n]
           d == encoders[n]
<1>1. /\ Len(frames) \in Nat /\ Len(target) \in Nat /\ n \in 1 .. Len(target)
      /\ c \in Chunks /\ CidOf[c] \in Cids /\ LengthOf[c] \in Nat
      /\ NextOffset \in Nat
  BY FrameTypes, NextOffsetFacts, CidAssumption, LengthAssumption DEF Encode
<1>2. /\ frames \in Seq(Frames) /\ encoders \in Seq(Seq(Entries))
      /\ Len(encoders) = n /\ d \in Seq(Entries) /\ Sound(d)
  BY <1>1, ElementOfSeq DEF SessionInv, SessionTypeOK, Emission
<1>3. PICK f, e :
          /\ frames' = Append(frames, f) /\ encoders' = Append(encoders, e)
          /\ \/ f = SecureFrame("REF", c, NoPayload) /\ CidOf[c] \in Keys(d) /\ e = d
             \/ f = SecureFrame("FULL", c, c) /\ e = Touched(d, c)
  BY DEF Encode, CanRefer, encoder
<1>4. /\ f \in Frames /\ f.kind \in {"FULL", "REF"} /\ f.cid = CidOf[c]
      /\ f.length = LengthOf[c] /\ f.offset = NextOffset /\ f.nonce = n
      /\ f.tagged /\ f.inContext
      /\ f.kind = "REF" => CidOf[c] \in Keys(d) /\ e = d
      /\ f.kind = "FULL" => f.payload = c /\ e = Touched(d, c)
  <2> HIDE DEF c, d
  <2>1. CASE f = SecureFrame("REF", c, NoPayload) /\ CidOf[c] \in Keys(d) /\ e = d
    BY <1>1, <2>1 DEF SecureFrame, Frames
  <2>2. CASE f = SecureFrame("FULL", c, c) /\ e = Touched(d, c)
    BY <1>1, <2>2 DEF SecureFrame, Frames
  <2> QED
    BY <1>3, <2>1, <2>2
<1>5. Sound(e) /\ e \in Seq(Entries)
  BY <1>1, <1>2, <1>3, TouchedSound DEF Sound, SoundDictionary
<1> HIDE DEF d
<1>6. /\ frames' \in Seq(Frames) /\ Len(frames') = n
      /\ \A i \in 1 .. Len(frames) : frames'[i] = frames[i]
      /\ frames'[n] = f
  BY <1>2, <1>3, <1>4, Appended
<1>7. /\ encoders' \in Seq(Seq(Entries)) /\ Len(encoders') = n + 1
      /\ \A i \in 1 .. n : encoders'[i] = encoders[i]
      /\ encoders'[n + 1] = e
  BY <1>2, <1>3, <1>5, Appended
<1>8. UNCHANGED <<target, warm, pc>> /\ pc = "encode"
  BY DEF Encode, server, vars, session
<1>9. ASSUME NEW i \in 1 .. Len(frames') PROVE EmittedFrame(i)'
  <2>1. CASE i \in 1 .. Len(frames)
    <3>1. /\ EmittedFrame(i) /\ i \in 1 .. n /\ i + 1 \in 1 .. n
          /\ i # 1 => i - 1 \in 1 .. Len(frames)
      BY <1>1, <2>1, FrameTypes
    <3> QED
      BY <1>6, <1>7, <1>8, <2>1, <3>1 DEF EmittedFrame
  <2>2. CASE i = n
    <3>1. /\ i # 1 => i - 1 = Len(frames) /\ Len(frames) \in 1 .. Len(frames)
          /\ i = 1 <=> Len(frames) = 0
      BY <1>1, <2>2
    <3>2. f.offset = IF i = 1 THEN 0
                     ELSE frames'[i - 1].offset + frames'[i - 1].length
      BY <1>4, <1>6, <3>1, NextOffsetFacts
    <3>3. encoders'[i] = d /\ target'[i] = c
      BY <1>1, <1>7, <1>8, <2>2 DEF d
    <3>4. frames'[i] = f /\ encoders'[i + 1] = e
      BY <1>6, <1>7, <2>2
    <3> HIDE DEF c
    <3> QED
      BY <1>4, <2>2, <3>2, <3>3, <3>4 DEF EmittedFrame
  <2> QED
    BY <1>1, <1>6, <2>1, <2>2
<1>10. Emission'
  <2>2. \A i \in 1 .. Len(frames') + 1 : Sound(encoders'[i])
    <3>1. \A i \in 1 .. n : Sound(encoders[i])
      BY DEF SessionInv, Emission
    <3>2. \A i \in 1 .. n + 1 : i \in 1 .. n \/ i = n + 1
      BY <1>1
    <3> QED
      BY <1>5, <1>6, <1>7, <3>1, <3>2
  <2>3. encoders'[1] = warm
    BY <1>1, <1>7 DEF SessionInv, Emission
  <2>4. Sound(warm)
    BY DEF SessionInv, Emission
  <2> QED
    BY <1>8, <1>9, <2>2, <2>3, <2>4 DEF Emission
<1> QED
  BY <1>1, <1>6, <1>7, <1>10

\* One more frame is encoded.
LEMMA EncodeInvariant ==
    ASSUME SessionInv, Encode
    PROVE  SessionInv'
<1>1. /\ toServer = <<>> /\ Len(toServer) = 0 /\ link = "up" /\ sent = 0
      /\ phase[Stream] = "hello" /\ nextInitialSeq = 0 /\ ~ roundEnded
      /\ replies[Stream] = <<>> /\ Len(replies[Stream]) = 0
      /\ DOMAIN promised = {} /\ DOMAIN pendingRepairs = {}
  BY WhileEncoding DEF Encode
<1>2. /\ frames' \in Seq(Frames) /\ Len(frames') = Len(frames) + 1
      /\ Len(frames') <= Len(target)
      /\ encoders' \in Seq(Seq(Entries)) /\ Len(encoders') = Len(frames') + 1
      /\ \A i \in 1 .. Len(frames) : frames'[i] = frames[i]
      /\ \A i \in 1 .. Len(frames) + 1 : encoders'[i] = encoders[i]
      /\ Emission'
  BY EncodeEmits
<1>3. /\ UNCHANGED server
      /\ UNCHANGED <<warm, pc, sent, toRepair, nextNonce, repaired, stats,
                     toServer, link>>
      /\ pc = "encode" /\ pc' = "encode"
  BY DEF Encode
<1>4. UNCHANGED <<target, dictionary, delivered, seenNonces,
                  expectedFrameCount, nextInitialSeq, nextInitialOffset,
                  pendingRepairs, roundEnded, phase, counts, replies, promised>>
  BY <1>3 DEF server, vars, reconstruction, session
<1>5. IInv'
  BY <1>3, StutterInvariant DEF SessionInv, server
<1>6. Len(frames) \in Nat /\ SessionTypeOK
  BY FrameTypes DEF SessionInv
<1>7. SessionTypeOK'
  <2>1. TypeOK'
    BY <1>5 DEF IInv
  <2> QED
    BY <1>2, <1>3, <1>4, <1>6, <2>1 DEF SessionTypeOK
<1>8. Quiet'
  BY <1>1, <1>3, <1>4 DEF Quiet
<1>9. Reading'
  <2>1. 1 \in 1 .. Len(frames) + 1 /\ nextInitialSeq + 1 = 1
    BY <1>1, <1>6
  <2>2. encoders'[nextInitialSeq' + 1] = encoders[nextInitialSeq + 1]
    BY <1>2, <1>4, <2>1
  <2> QED
    BY <1>1, <1>2, <1>3, <1>4, <1>6, <2>2 DEF SessionInv, Reading
<1>10. FirstRound'
  <2>1. Taken' = 0 /\ Offered' = 0
    BY <1>1, <1>3, <1>4 DEF Taken, Offered
  <2> QED
    BY <1>1, <1>2, <1>3, <1>4, <1>6, <2>1 DEF FirstRound
<1>11. SecondRound' /\ Following'
  BY <1>1, <1>4 DEF SecondRound, Following
<1>12. Answers'
  BY <1>1, <1>3, <1>4 DEF Answers
<1>13. Repairs'
  <2>1. ASSUME NEW q \in Repairable PROVE q \in Repairable'
    <3>1. q \in 0 .. Len(frames') - 1 /\ q + 1 \in 1 .. Len(frames)
      BY <1>2, <1>6 DEF Repairable
    <3> QED
      BY <1>2, <1>3, <3>1 DEF Repairable
  <2> QED
    BY <1>1, <1>3, <1>4, <2>1 DEF SessionInv, Repairs
<1>14. Tally'
  <2>1. FullsRead = {} /\ RefsRead = {} /\ FullsRead' = {} /\ RefsRead' = {}
    BY <1>1, <1>4 DEF FullsRead, RefsRead
  <2> QED
    BY <1>3, <1>4, <2>1 DEF SessionInv, Tally
<1> QED
  BY <1>2, <1>5, <1>7, <1>8, <1>9, <1>10, <1>11, <1>12, <1>13, <1>14
  DEF SessionInv

\* What the client does once it has encoded leaves the server and the frames
\* as they are.
LEMMA ClientInvariant ==
    ASSUME SessionInv, UNCHANGED <<server, warm, encoders, frames>>,
           pc = "encode" => Len(frames) = Len(target), pc' # "encode"
    PROVE  /\ IInv' /\ Emission' /\ Quiet' /\ Reading'
           /\ UNCHANGED <<target, dictionary, delivered, seenNonces,
                  expectedFrameCount, nextInitialSeq, nextInitialOffset,
                  pendingRepairs, roundEnded, phase, counts, replies, promised>>
           /\ UNCHANGED <<Taken, Repairable, FullsRead, RefsRead>>
           /\ Len(frames) = Len(target)
<1>1. UNCHANGED <<target, dictionary, delivered, seenNonces,
                  expectedFrameCount, nextInitialSeq, nextInitialOffset,
                  pendingRepairs, roundEnded, phase, counts, replies, promised,
                  warm, encoders, frames>>
  BY DEF server, vars, reconstruction, session
<1>2. IInv'
  BY StutterInvariant DEF SessionInv, server
<1>3. Len(frames) = Len(target)
  BY DEF SessionInv, Emission
<1>4. Emission'
  BY <1>1, <1>3 DEF SessionInv, Emission, EmittedFrame
<1>5. Quiet'
  BY DEF Quiet
<1>6. Reading'
  BY <1>1 DEF SessionInv, Reading
<1>7. UNCHANGED <<Taken, Repairable, FullsRead, RefsRead>>
  BY <1>1 DEF Taken, Repairable, FullsRead, RefsRead
<1> QED
  BY <1>1, <1>2, <1>3, <1>4, <1>5, <1>6, <1>7

\* What is said of a place of the stream stays true while its message stays.
LEMMA PlaceStays ==
    ASSUME UNCHANGED <<pendingRepairs, seenNonces, frames, target>>,
           NEW j, toServer'[j] = toServer[j]
    PROVE  (RepairAt(j)' <=> RepairAt(j)) /\ (FinishAt(j)' <=> FinishAt(j))
BY DEF RepairAt, FinishAt, RepairMessage, FrameMessage

\* And so does what is said of the second round.
LEMMA SecondRoundStays ==
    ASSUME SecondRound,
           UNCHANGED <<toServer, pendingRepairs, seenNonces, frames, target,
                       phase, roundEnded, replies>>
    PROVE  SecondRound'
BY PlaceStays DEF SecondRound

\* The next message of the first round is sent.
LEMMA RoundTransmitted ==
    ASSUME SessionInv, UNCHANGED <<server, warm, encoders, frames, link>>,
           pc \in {"encode", "frames"}, pc' \in {"frames", "missing"},
           Offered \in 0 .. Len(frames) + 1, Offered' = Offered + 1,
           Transmit(RoundMessage(Offered + 1)),
           pc = "encode" => Len(frames) = Len(target)
    PROVE  /\ FirstRound' /\ SecondRound' /\ Following'
           /\ toServer' \in Seq(MessageType)
<1> DEFINE m == RoundMessage(Offered + 1)
<1>1. /\ Len(frames) \in Nat /\ Len(toServer) \in Nat
      /\ nextInitialSeq \in Nat /\ toServer \in Seq(MessageType)
  BY FrameTypes, ServerTypes
<1>2. m \in MessageType
  BY <1>1, RoundMessageTypes
<1> HIDE DEF m
<1>3. /\ toServer' \in Seq(MessageType) /\ Len(toServer') \in Nat
      /\ link = "up" => /\ Len(toServer') = Len(toServer) + 1
                        /\ toServer'[Len(toServer) + 1] = m
      /\ link # "up" => toServer' = toServer
      /\ \A j \in 1 .. Len(toServer) : toServer'[j] = toServer[j]
  BY <1>1, <1>2, TransmitFacts DEF m
<1>4. /\ UNCHANGED <<pendingRepairs, roundEnded, phase, replies, Taken,
                     seenNonces, target, frames, link>>
  BY ClientInvariant
<1>5. Taken \in Nat
  BY <1>1 DEF Taken
<1>6. ASSUME phase[Stream] # "closed", ~ roundEnded
      PROVE  /\ Taken + Len(toServer') <= Len(frames) + 2
             /\ link = "up" => Taken + Len(toServer') = Offered'
             /\ \A j \in 1 .. Len(toServer') : toServer'[j] = RoundMessage(Taken + j)
  <2>1. /\ Taken + Len(toServer) <= Len(frames) + 2
        /\ link = "up" => Taken + Len(toServer) = Offered
        /\ \A j \in 1 .. Len(toServer) : toServer[j] = RoundMessage(Taken + j)
    BY <1>6 DEF SessionInv, FirstRound
  <2>2. CASE link # "up"
    BY <1>3, <2>1, <2>2
  <2>3. CASE link = "up"
    <3>1. ASSUME NEW j \in 1 .. Len(toServer') PROVE toServer'[j] = RoundMessage(Taken + j)
      <4>1. CASE j \in 1 .. Len(toServer)
        BY <1>3, <2>1, <4>1
      <4>2. CASE j = Len(toServer) + 1
        <5>1. Taken + j = Offered + 1
          <6>1. PICK t, l : t = Taken /\ l = Len(toServer) /\ t \in Nat /\ l \in Nat
            BY <1>1, <1>5
          <6>2. Offered = t + l /\ j = l + 1
            BY <2>1, <2>3, <4>2, <6>1
          <6> QED
            BY <6>1, <6>2
        <5> QED
          BY <1>3, <2>3, <4>2, <5>1 DEF m
      <4> QED
        BY <1>1, <1>3, <2>3, <4>1, <4>2
    <3>2. Taken + Len(toServer') = Offered + 1 /\ Offered + 1 <= Len(frames) + 2
      BY <1>1, <1>3, <1>5, <2>1, <2>3
    <3> QED
      BY <3>1, <3>2
  <2> QED
    BY <2>2, <2>3
<1>7. ASSUME NEW r \in Int PROVE RoundMessage(r)' = RoundMessage(r)
  BY <1>4 DEF RoundMessage, FrameMessage
<1>8. FirstRound'
  BY <1>4, <1>5, <1>6, <1>7 DEF SessionInv, FirstRound
<1>9. SecondRound' /\ Following'
  <2> SUFFICES ASSUME phase[Stream] = "open", roundEnded
               PROVE  SecondRound' /\ Following'
    BY <1>4 DEF SecondRound, Following
  <2>1. link # "up"
    BY DEF SessionInv, Following
  <2>2. toServer' = toServer
    BY <1>3, <2>1
  <2> QED
    BY <1>4, <2>1, <2>2, SecondRoundStays DEF SessionInv, Following
<1> QED
  BY <1>3, <1>8, <1>9

\* A step of the first round keeps the invariant.
LEMMA RoundInvariant ==
    ASSUME SessionInv, UNCHANGED <<server, warm, encoders, frames, link>>,
           UNCHANGED <<toRepair, nextNonce, repaired, stats>>,
           pc \in {"encode", "frames"}, pc' \in {"frames", "missing"},
           sent' \in 0 .. Len(frames),
           Offered \in 0 .. Len(frames) + 1, Offered' = Offered + 1,
           Transmit(RoundMessage(Offered + 1)),
           pc = "encode" => Len(frames) = Len(target)
    PROVE  SessionInv'
<1>1. /\ IInv' /\ Emission' /\ Quiet' /\ Reading'
      /\ UNCHANGED <<target, nextInitialSeq, pendingRepairs, roundEnded, phase,
                     counts, replies>>
      /\ UNCHANGED <<Repairable, FullsRead, RefsRead>>
  BY ClientInvariant
<1>2. /\ FirstRound' /\ SecondRound' /\ Following'
      /\ toServer' \in Seq(MessageType)
  BY RoundTransmitted
<1>3. SessionTypeOK'
  <2>1. TypeOK' /\ SessionTypeOK
    BY <1>1 DEF IInv, SessionInv
  <2> QED
    BY <1>1, <1>2, <2>1 DEF SessionTypeOK
<1>4. Answers'
  BY <1>1 DEF SessionInv, Answers
<1>5. Repairs'
  BY <1>1 DEF SessionInv, Repairs
<1>6. Tally'
  BY <1>1 DEF SessionInv, Tally
<1> QED
  BY <1>1, <1>2, <1>3, <1>4, <1>5, <1>6 DEF SessionInv

\* HELLO, the frames and END_ROUND.
LEMMA FirstRoundInvariant ==
    ASSUME SessionInv, SendHello \/ SendFrame \/ SendEndRound
    PROVE  SessionInv'
<1>1. Len(frames) \in Nat /\ sent \in 0 .. Len(frames) /\ frames' = frames
  BY FrameTypes DEF SessionInv, SessionTypeOK, SendHello, SendFrame, SendEndRound
<1>2. CASE SendHello
  <2>1. Offered = 0 /\ Offered' = 1 /\ sent = 0
    BY <1>2 DEF SessionInv, Quiet, Offered, SendHello
  <2>2. Transmit(RoundMessage(1))
    BY <1>2 DEF SendHello, RoundMessage
  <2> QED
    BY <1>1, <1>2, <2>1, <2>2, RoundInvariant DEF SendHello
<1>3. CASE SendFrame
  <2>1. Offered = sent + 1 /\ Offered' = sent + 2
    BY <1>1, <1>3 DEF Offered, SendFrame
  <2>2. Transmit(RoundMessage(sent + 2))
    <3>1. RoundMessage(sent + 2) = FrameMessage(sent, frames[sent + 1], FALSE)
      <4>1. /\ sent + 2 # 1 /\ sent + 2 <= Len(frames) + 1
            /\ (sent + 2) - 2 = sent /\ (sent + 2) - 1 = sent + 1
        BY <1>1, <1>3 DEF SendFrame
      <4> QED
        BY <4>1 DEF RoundMessage
    <3> QED
      BY <1>3, <3>1 DEF SendFrame
  <2> QED
    BY <1>1, <1>3, <2>1, <2>2, RoundInvariant DEF SendFrame
<1>4. CASE SendEndRound
  <2>1. Offered = Len(frames) + 1 /\ Offered' = Len(frames) + 2
    BY <1>1, <1>4 DEF Offered, SendEndRound
  <2>2. Transmit(RoundMessage(Len(frames) + 2))
    BY <1>1, <1>4 DEF SendEndRound, RoundMessage
  <2> QED
    BY <1>1, <1>4, <2>1, <2>2, RoundInvariant DEF SendEndRound
<1> QED
  BY <1>2, <1>3, <1>4

\* The client gives up.
LEMMA AbortInvariant ==
    ASSUME SessionInv, pc # "encode", pc' = "aborted",
           UNCHANGED <<server, warm, encoders, frames, sent, toRepair,
                       nextNonce, repaired, stats, toServer, link>>,
           link # "up" \/ Len(replies[Stream]) >= 1
    PROVE  SessionInv'
<1>1. /\ IInv' /\ Emission' /\ Quiet' /\ Reading'
      /\ UNCHANGED <<target, seenNonces, nextInitialSeq, pendingRepairs,
                     roundEnded, phase, counts, replies>>
      /\ UNCHANGED <<Taken, Repairable, FullsRead, RefsRead>>
  BY ClientInvariant
<1>2. SessionTypeOK'
  <2>1. TypeOK' /\ SessionTypeOK
    BY <1>1 DEF IInv, SessionInv
  <2> QED
    BY <1>1, <2>1 DEF SessionTypeOK
<1>3. FirstRound'
  <2>1. ASSUME NEW r \in Int PROVE RoundMessage(r)' = RoundMessage(r)
    BY <1>1 DEF RoundMessage, FrameMessage
  <2>2. Taken \in Nat /\ Len(toServer) \in Nat
    BY ServerTypes DEF Taken
  <2>3. replies[Stream] = <<>> => Len(replies[Stream]) = 0
    BY EmptySeq
  <2> QED
    BY <1>1, <2>1, <2>2, <2>3 DEF SessionInv, FirstRound
<1>4. SecondRound'
  BY <1>1, SecondRoundStays DEF SessionInv
<1>5. Following'
  BY <1>1 DEF SessionInv, Following
<1>6. Answers' /\ Repairs' /\ Tally'
  BY <1>1 DEF SessionInv, Answers, Repairs, Tally
<1> QED
  BY <1>1, <1>2, <1>3, <1>4, <1>5, <1>6 DEF SessionInv

\* Once there is an answer the first round is over.
LEMMA FirstRoundOver ==
    ASSUME SessionInv, Len(replies[Stream]) >= 1, UNCHANGED <<phase, roundEnded>>
    PROVE  FirstRound'
<1>1. replies[Stream] # <<>>
  BY EmptySeq
<1> QED
  BY <1>1 DEF SessionInv, FirstRound

\* The items of MISSING are what the client repairs, from the nonce after the
\* last frame's.
LEMMA ReadMissingInvariant ==
    ASSUME SessionInv, ReadMissing
    PROVE  SessionInv'
<1> DEFINE reply == replies[Stream][1]
<1>1. /\ pc = "missing" /\ link = "up" /\ Len(replies[Stream]) >= 1
      /\ UNCHANGED <<server, warm, encoders, frames, sent, repaired, stats,
                     toServer, link>>
  BY DEF ReadMissing, Answered
<1>2. CASE pc' = "aborted" /\ UNCHANGED <<toRepair, nextNonce>>
  BY <1>1, <1>2, AbortInvariant
<1>3. CASE /\ reply.t = "MISSING" /\ frames # <<>>
           /\ pc' = "repair" /\ toRepair' = reply.items
           /\ nextNonce' = Last(frames).nonce + 1
  <2>1. /\ IInv' /\ Emission' /\ Quiet' /\ Reading'
        /\ UNCHANGED <<target, seenNonces, nextInitialSeq, pendingRepairs,
                       roundEnded, phase, counts, replies>>
        /\ UNCHANGED <<Repairable, FullsRead, RefsRead>>
    BY <1>1, <1>3, ClientInvariant
  <2>2. /\ roundEnded /\ reply.items \subseteq Repairable
        /\ IsFiniteSet(reply.items)
        /\ Cardinality(reply.items) = counts[Stream]["miss"]
    BY <1>1, <1>3 DEF SessionInv, Answers
  <2>3. nextNonce' = Len(frames) + 1 /\ Len(frames) \in Nat
    <3>1. Len(frames) \in 1 .. Len(frames) /\ Len(frames) \in Nat
      BY <1>3, FrameTypes, EmptySeq DEF SessionInv, SessionTypeOK
    <3>2. frames[Len(frames)].nonce = Len(frames)
      BY <3>1, FrameTypes DEF EmittedFrame
    <3> QED
      BY <1>3, <3>1, <3>2 DEF Last
  <2>4. SessionTypeOK'
    <3>1. TypeOK' /\ SessionTypeOK
      BY <2>1 DEF IInv, SessionInv
    <3>2. reply.items \subseteq 0 .. Len(frames) - 1
      BY <2>2 DEF Repairable
    <3> QED
      BY <1>1, <1>3, <2>1, <2>3, <3>1, <3>2 DEF SessionTypeOK
  <2>5. FirstRound' /\ SecondRound'
    BY <1>1, <2>1, FirstRoundOver, SecondRoundStays DEF SessionInv
  <2>6. Following'
    <3> SUFFICES ASSUME phase[Stream] = "open" PROVE Following'
      BY <2>1 DEF Following
    <3>1. /\ toServer = <<>> /\ seenNonces.highest = Len(frames)
          /\ reply.items = DOMAIN pendingRepairs
      BY <1>1, <2>2 DEF SessionInv, Following
    <3>2. Len(toServer) = 0 /\ seenNonces.highest \in Nat
      BY <3>1, ServerTypes, EmptySeq
    <3> QED
      BY <1>1, <1>3, <2>1, <2>2, <2>3, <3>1, <3>2 DEF Following
  <2>7. Answers'
    BY <1>1, <1>3, <2>1, <2>2 DEF SessionInv, Answers
  <2>8. Repairs'
    BY <1>3, <2>1, <2>2 DEF SessionInv, Repairs
  <2>9. Tally'
    <3>1. repaired' = 0
      BY <1>1 DEF SessionInv, Tally
    <3>2. Cardinality(reply.items) \in Nat
      BY <2>2, FS_CardinalityType
    <3> QED
      BY <1>3, <2>1, <2>2, <3>1, <3>2 DEF SessionInv, Tally
  <2> QED
    BY <2>1, <2>4, <2>5, <2>6, <2>7, <2>8, <2>9 DEF SessionInv
<1> QED
  BY <1>2, <1>3 DEF ReadMissing

\* The least item is one of them.
LEMMA MinIsIn ==
    ASSUME NEW S, S \subseteq Nat, S # {}
    PROVE  Min(S) \in S
<1> DEFINE R == {ss \in Nat \X Nat : ss[1] < ss[2]}
<1>1. IsWellFoundedOn(R, Nat)
  BY NatLessThanWellFounded, Zenon DEF OpToRel
<1>2. \A a, b \in Nat : a < b => <<a, b>> \in R
  OBVIOUS
<1> HIDE DEF R
<1>3. PICK x \in S : \A y \in S : ~ (<<y, x>> \in R)
  BY <1>1, WFMin
<1>4. ASSUME NEW y \in S PROVE x <= y
  <2>1. x \in Nat /\ y \in Nat
    OBVIOUS
  <2>2. ~ (y < x)
    BY <1>2, <1>3, <2>1
  <2> QED
    BY <2>1, <2>2
<1> QED
  BY <1>4 DEF Min

\* The repair the client sends has the payload of the frame it repairs.
LEMMA RepairSent ==
    ASSUME SessionInv, SendRepair
    PROVE  LET seq == Min(toRepair)
           IN  /\ seq \in toRepair /\ seq \in Nat
               /\ frames[seq + 1] \in Frames /\ target[seq + 1] \in Chunks
               /\ RepairMessage(seq, nextNonce) \in MessageType
               /\ Transmit(RepairMessage(seq, nextNonce))
               /\ toRepair' = toRepair \ {seq}
               /\ nextNonce' = nextNonce + 1 /\ nextNonce \in Nat
               /\ repaired' = repaired + 1 /\ pc' = pc
<1> DEFINE seq == Min(toRepair)
           ref == frames[seq + 1]
<1>1. /\ toRepair \subseteq Repairable /\ toRepair # {} /\ nextNonce \in Nat
      /\ Sound(warm)
  BY DEF SessionInv, Repairs, SendRepair, SessionTypeOK, Emission
<1>2. seq \in toRepair
  <2>1. toRepair \subseteq Nat
    BY <1>1 DEF Repairable
  <2> QED
    BY <1>1, <2>1, MinIsIn
<1> HIDE DEF seq
<1>3. seq \in 0 .. Len(frames) - 1 /\ ref.cid \in Keys(warm)
  BY <1>1, <1>2 DEF Repairable
<1>4. seq \in Nat /\ seq + 1 \in 1 .. Len(frames)
  BY <1>3, FrameTypes
<1>5. /\ ref \in Frames /\ target[seq + 1] \in Chunks
      /\ ref.cid = CidOf[target[seq + 1]]
  BY <1>4, FrameTypes DEF EmittedFrame
<1>6. RepairPayload(seq) = target[seq + 1]
  <2>1. /\ Lookup(warm, ref.cid) \in Chunks
        /\ CidOf[Lookup(warm, ref.cid)] = ref.cid
    BY <1>1, <1>3, LookupFinds DEF Sound, SoundDictionary
  <2> QED
    BY <1>5, <2>1, SameChunk DEF RepairPayload
<1>7. /\ Transmit(FrameMessage(seq, FullRepair(ref, target[seq + 1]), TRUE))
      /\ toRepair' = toRepair \ {seq} /\ nextNonce' = nextNonce + 1
      /\ repaired' = repaired + 1 /\ pc' = pc
  BY <1>3, <1>6 DEF SendRepair, seq
<1>8. FrameMessage(seq, FullRepair(ref, target[seq + 1]), TRUE)
        = RepairMessage(seq, nextNonce)
  BY DEF RepairMessage, FullRepair
<1>9. RepairMessage(seq, nextNonce) \in MessageType
  <2>1. seq \in Int
    BY <1>4
  <2> QED
    BY <1>1, <1>4, <1>5, <2>1, RepairFields
<1> QED
  BY <1>1, <1>2, <1>4, <1>5, <1>7, <1>8, <1>9 DEF seq

LEMMA OneMoreAdded ==
    ASSUME NEW a \in Nat, NEW l \in Nat
    PROVE  (a + l + 1) + 1 = a + (l + 1) + 1
  OBVIOUS

\* A repair joins those under way.
LEMMA SendRepairInvariant ==
    ASSUME SessionInv, SendRepair
    PROVE  SessionInv'
<1>1. PICK seq, m, n :
          /\ seq \in toRepair /\ seq \in Nat
          /\ frames[seq + 1] \in Frames /\ target[seq + 1] \in Chunks
          /\ m = RepairMessage(seq, nextNonce)
          /\ m \in MessageType /\ Transmit(m)
          /\ toRepair' = toRepair \ {seq}
          /\ nextNonce' = nextNonce + 1 /\ nextNonce \in Nat
          /\ repaired' = repaired + 1 /\ pc' = pc
          /\ n = Len(toServer) + 1
  BY RepairSent
<1>2. /\ pc = "repair"
      /\ UNCHANGED <<server, warm, encoders, frames, sent, stats, link>>
  BY DEF SendRepair
<1>3. /\ IInv' /\ Emission' /\ Quiet' /\ Reading'
      /\ UNCHANGED <<target, seenNonces, nextInitialSeq, pendingRepairs,
                     roundEnded, phase, counts, replies>>
      /\ UNCHANGED <<Repairable, FullsRead, RefsRead>>
  BY <1>1, <1>2, ClientInvariant
<1>4. Len(toServer) \in Nat /\ toServer \in Seq(MessageType)
      /\ seenNonces.highest \in Nat
  BY ServerTypes
<1>5. m.t = "FRAME" /\ m.seq = seq
  BY <1>1 DEF RepairMessage, FrameMessage
<1>6. /\ toServer' \in Seq(MessageType) /\ Len(toServer') \in Nat
      /\ link = "up" => Len(toServer') = n /\ toServer'[n] = m
      /\ link # "up" => toServer' = toServer
      /\ \A j \in 1 .. Len(toServer) : toServer'[j] = toServer[j]
  BY <1>1, <1>4, TransmitFacts
<1>7. Len(replies[Stream]) >= 1
  BY <1>2 DEF SessionInv, Answers
<1>8. SessionTypeOK'
  <2>1. TypeOK' /\ SessionTypeOK
    BY <1>3 DEF IInv, SessionInv
  <2>2. repaired + 1 \in Nat /\ nextNonce + 1 \in Nat
    BY <1>1, <2>1 DEF SessionTypeOK
  <2>3. toRepair' \subseteq 0 .. Len(frames) - 1
    BY <1>1, <2>1 DEF SessionTypeOK
  <2> QED
    BY <1>1, <1>2, <1>3, <1>6, <2>1, <2>2, <2>3 DEF SessionTypeOK
<1>9. FirstRound'
  BY <1>3, <1>7, FirstRoundOver
<1>10. SecondRound' /\ Following'
  <2>1. CASE link # "up"
    BY <1>2, <1>3, <1>6, <2>1, SecondRoundStays DEF SessionInv, Following
  <2>2. CASE link = "up"
    <3> SUFFICES ASSUME phase[Stream] = "open", roundEnded
                 PROVE  SecondRound' /\ Following'
      BY <1>3 DEF SecondRound, Following
    <3>1. /\ nextNonce = seenNonces.highest + Len(toServer) + 1
          /\ toRepair \subseteq DOMAIN pendingRepairs
          /\ \A j \in 1 .. Len(toServer) :
                RepairAt(j) /\ toServer[j].seq \notin toRepair
          /\ \A q \in DOMAIN pendingRepairs \ toRepair :
              \E i \in 1 .. Len(toServer) : RepairAt(i) /\ toServer[i].seq = q
      BY <1>2, <2>2 DEF SessionInv, Following
    <3>2. \A j \in 1 .. Len(toServer') : j \in 1 .. Len(toServer) \/ j = n
      BY <1>1, <1>4, <1>6, <2>2
    <3>3. ASSUME NEW j \in 1 .. Len(toServer)
          PROVE  /\ RepairAt(j)' /\ toServer'[j].seq = toServer[j].seq
                 /\ toServer'[j].seq \notin toRepair
                 /\ j \in 1 .. Len(toServer')
      <4>1. toServer'[j] = toServer[j] /\ RepairAt(j)
            /\ toServer[j].seq \notin toRepair
        BY <1>6, <3>1
      <4>2. j \in 1 .. Len(toServer')
        BY <1>1, <1>4, <1>6, <2>2
      <4> QED
        BY <1>2, <1>3, <4>1, <4>2, PlaceStays
    <3>4. n \in 1 .. Len(toServer') /\ toServer'[n].seq = seq /\ RepairAt(n)'
      <4>1. n \in 1 .. Len(toServer') /\ toServer'[n] = m
        BY <1>1, <1>4, <1>6, <2>2
      <4>2. seq \in DOMAIN pendingRepairs /\ nextNonce = seenNonces.highest + n
        <5>1. seq \in DOMAIN pendingRepairs
          BY <1>1, <3>1
        <5>2. nextNonce = seenNonces.highest + Len(toServer) + 1 /\ n = Len(toServer) + 1
          BY <1>1, <3>1
        <5> QED
          BY <1>4, <5>1, <5>2
      <4>3. m = RepairMessage(seq, seenNonces.highest + n)
        BY <1>1, <4>2
      <4>4. RepairMessage(seq, seenNonces.highest + n)'
              = RepairMessage(seq, seenNonces.highest + n)
        BY <1>2, <1>3 DEF RepairMessage, FrameMessage
      <4> QED
        BY <1>3, <1>5, <4>1, <4>2, <4>3, <4>4 DEF RepairAt
    <3>5. SecondRound'
      <4>1. ASSUME NEW j \in 1 .. Len(toServer') PROVE RepairAt(j)' /\ ~ FinishAt(j)'
        BY <3>2, <3>3, <3>4 DEF RepairAt, FinishAt
      <4>2. ASSUME NEW i \in 1 .. Len(toServer'), NEW j \in 1 .. Len(toServer'),
                   toServer'[i].seq = toServer'[j].seq
            PROVE  i = j
        <5>1. CASE i \in 1 .. Len(toServer) /\ j \in 1 .. Len(toServer)
          BY <3>1, <3>3, <4>2, <5>1 DEF SessionInv, SecondRound
        <5>2. CASE i = n \/ j = n
          BY <1>1, <3>2, <3>3, <3>4, <4>2, <5>2
        <5> QED
          BY <3>2, <5>1, <5>2
      <4> QED
        BY <1>3, <4>1, <4>2 DEF SessionInv, SecondRound
    <3>6. Following'
      <4>1. nextNonce' = seenNonces'.highest + Len(toServer') + 1
        <5>1. nextNonce' = nextNonce + 1 /\ seenNonces' = seenNonces
          BY <1>1, <1>3
        <5>2. Len(toServer') = Len(toServer) + 1
          BY <1>1, <1>6, <2>2
        <5>3. PICK a, l : /\ a = seenNonces.highest /\ l = Len(toServer)
                          /\ a \in Nat /\ l \in Nat
          BY <1>4
        <5>4. nextNonce = a + l + 1
          BY <3>1, <5>3
        <5>5. (a + l + 1) + 1 = a + (l + 1) + 1
          BY <5>3, OneMoreAdded
        <5>6. nextNonce' = a + (l + 1) + 1
          BY <5>1, <5>4, <5>5
        <5>7. seenNonces'.highest = a /\ Len(toServer') = l + 1
          BY <5>1, <5>2, <5>3
        <5> QED
          BY <5>6, <5>7
      <4>2. ASSUME NEW j \in 1 .. Len(toServer')
            PROVE  RepairAt(j)' /\ toServer'[j].seq \notin toRepair'
        BY <1>1, <3>2, <3>3, <3>4
      <4>3. ASSUME NEW q \in DOMAIN pendingRepairs \ toRepair'
            PROVE  \E i \in 1 .. Len(toServer') : RepairAt(i)' /\ toServer'[i].seq = q
        <5>1. CASE q = seq
          BY <3>4, <5>1
        <5>2. CASE q # seq
          BY <1>1, <3>1, <3>3, <4>3, <5>2
        <5> QED
          BY <5>1, <5>2
      <4>4. toRepair' \subseteq DOMAIN pendingRepairs
        BY <1>1, <3>1
      <4> QED
        BY <1>1, <1>2, <1>3, <4>1, <4>2, <4>3, <4>4 DEF Following
    <3> QED
      BY <3>5, <3>6
  <2> QED
    BY <2>1, <2>2
<1>11. Answers' /\ Repairs'
  BY <1>1, <1>2, <1>3 DEF SessionInv, Answers, Repairs
<1>12. Tally'
  <2>1. /\ IsFiniteSet(toRepair) /\ repaired \in Nat
        /\ repaired + Cardinality(toRepair) = counts[Stream]["miss"]
    BY <1>2 DEF SessionInv, Tally, SessionTypeOK
  <2>2. /\ IsFiniteSet(toRepair')
        /\ Cardinality(toRepair') = Cardinality(toRepair) - 1
        /\ Cardinality(toRepair) \in Nat
    BY <1>1, <2>1, FS_RemoveElement, FS_CardinalityType
  <2>3. repaired' + Cardinality(toRepair') = repaired + Cardinality(toRepair)
    BY <1>1, <2>1, <2>2
  <2> QED
    BY <1>1, <1>2, <1>3, <2>1, <2>2, <2>3 DEF SessionInv, Tally
<1> QED
  BY <1>3, <1>8, <1>9, <1>10, <1>11, <1>12 DEF SessionInv

\* FINISH follows the last repair.
LEMMA SendFinishInvariant ==
    ASSUME SessionInv, SendFinish
    PROVE  SessionInv'
<1> DEFINE m == [t |-> "FINISH"]
<1>0. PICK n : n = Len(toServer) + 1
  OBVIOUS
<1>1. /\ pc = "repair" /\ toRepair = {} /\ pc' = "stats" /\ Transmit(m)
      /\ UNCHANGED <<server, warm, encoders, frames, sent, toRepair, nextNonce,
                     repaired, stats, link>>
  BY DEF SendFinish
<1>2. /\ IInv' /\ Emission' /\ Quiet' /\ Reading'
      /\ UNCHANGED <<target, seenNonces, nextInitialSeq, pendingRepairs,
                     roundEnded, phase, counts, replies>>
      /\ UNCHANGED <<Repairable, FullsRead, RefsRead>>
  BY <1>1, ClientInvariant
<1>3. Len(toServer) \in Nat /\ toServer \in Seq(MessageType)
  BY ServerTypes
<1>4. m \in MessageType /\ m.t = "FINISH"
  BY DEF MessageType
<1> HIDE DEF m
<1>5. /\ toServer' \in Seq(MessageType) /\ Len(toServer') \in Nat
      /\ link = "up" => Len(toServer') = n /\ toServer'[n] = m
      /\ link # "up" => toServer' = toServer
      /\ \A j \in 1 .. Len(toServer) : toServer'[j] = toServer[j]
  BY <1>0, <1>1, <1>3, <1>4, TransmitFacts
<1>6. Len(replies[Stream]) >= 1
  BY <1>1 DEF SessionInv, Answers
<1>7. SessionTypeOK'
  <2>1. TypeOK' /\ SessionTypeOK
    BY <1>2 DEF IInv, SessionInv
  <2> QED
    BY <1>1, <1>2, <1>5, <2>1 DEF SessionTypeOK
<1>8. FirstRound'
  BY <1>2, <1>6, FirstRoundOver
<1>9. SecondRound'
  <2>1. CASE link # "up"
    BY <1>1, <1>2, <1>5, <2>1, SecondRoundStays DEF SessionInv
  <2>2. CASE link = "up"
    <3> SUFFICES ASSUME phase[Stream] = "open", roundEnded
                 PROVE  SecondRound'
      BY <1>2 DEF SecondRound
    <3>1. /\ \A j \in 1 .. Len(toServer) : RepairAt(j)
          /\ \A q \in DOMAIN pendingRepairs :
              \E i \in 1 .. Len(toServer) : RepairAt(i) /\ toServer[i].seq = q
      BY <1>1, <2>2 DEF SessionInv, Following
    <3>2. \A j \in 1 .. Len(toServer') : j \in 1 .. Len(toServer) \/ j = n
      BY <1>0, <1>3, <1>5, <2>2
    <3>3. ASSUME NEW j \in 1 .. Len(toServer)
          PROVE  /\ RepairAt(j)' /\ toServer'[j].seq = toServer[j].seq
                 /\ j \in 1 .. Len(toServer')
      <4>1. toServer'[j] = toServer[j] /\ RepairAt(j)
        BY <1>5, <3>1
      <4>2. j \in 1 .. Len(toServer')
        BY <1>0, <1>3, <1>5, <2>2
      <4> QED
        BY <1>1, <1>2, <4>1, <4>2, PlaceStays
    <3>4. Len(toServer') = n /\ FinishAt(n)' /\ ~ RepairAt(n)'
      BY <1>4, <1>5, <2>2 DEF FinishAt, RepairAt
    <3>5. ASSUME NEW i \in 1 .. Len(toServer'), NEW j \in 1 .. Len(toServer'),
                 RepairAt(i)', RepairAt(j)', toServer'[i].seq = toServer'[j].seq
          PROVE  i = j
      <4>1. i \in 1 .. Len(toServer) /\ j \in 1 .. Len(toServer)
        BY <3>2, <3>4, <3>5
      <4> QED
        BY <3>1, <3>3, <3>5, <4>1 DEF SessionInv, SecondRound
    <3>6. ASSUME NEW q \in DOMAIN pendingRepairs
          PROVE  \E i \in 1 .. Len(toServer') : RepairAt(i)' /\ toServer'[i].seq = q
      BY <3>1, <3>3
    <3>7. ASSUME NEW j \in 1 .. Len(toServer')
          PROVE  RepairAt(j)' \/ (FinishAt(j)' /\ j = Len(toServer'))
      BY <3>2, <3>3, <3>4
    <3> QED
      BY <1>2, <3>5, <3>6, <3>7 DEF SessionInv, SecondRound
  <2> QED
    BY <2>1, <2>2
<1>10. Following'
  BY <1>1, <1>2 DEF SessionInv, Following
<1>11. Answers' /\ Repairs'
  BY <1>1, <1>2 DEF SessionInv, Answers, Repairs
<1>12. Tally'
  <2>1. Cardinality(toRepair) = 0 /\ repaired \in Nat
    BY <1>1, FS_EmptySet DEF SessionInv, SessionTypeOK
  <2> QED
    BY <1>1, <1>2, <2>1 DEF SessionInv, Tally
<1> QED
  BY <1>2, <1>7, <1>8, <1>9, <1>10, <1>11, <1>12 DEF SessionInv

\* STATS, the last thing the client reads of the stream.
LEMMA ReadStatsInvariant ==
    ASSUME SessionInv, ReadStats
    PROVE  SessionInv'
<1>1. /\ pc = "stats" /\ link = "up" /\ Len(replies[Stream]) >= 2
      /\ UNCHANGED <<server, warm, encoders, frames, sent, toRepair, nextNonce,
                     repaired, toServer, link>>
  BY DEF ReadStats, Answered
<1>2. Len(replies[Stream]) = 2 /\ Len(replies[Stream]) >= 1
  <2>1. Len(replies[Stream]) <= 2 /\ Len(replies[Stream]) \in Nat
    BY ServerTypes DEF SessionInv, Answers
  <2> DEFINE k == Len(replies[Stream])
  <2>2. k \in Nat /\ k <= 2 /\ k >= 2
    BY <1>1, <2>1
  <2> HIDE DEF k
  <2>3. k = 2
    BY <2>2
  <2> QED
    BY <2>3 DEF k
<1>3. replies[Stream][2].t = "STATS" /\ phase[Stream] = "closed"
  BY <1>2 DEF SessionInv, Answers
<1>4. pc' = "closing" /\ stats' = replies[Stream][2]
  BY <1>3 DEF ReadStats
<1>5. /\ IInv' /\ Emission' /\ Quiet' /\ Reading'
      /\ UNCHANGED <<target, seenNonces, nextInitialSeq, pendingRepairs,
                     roundEnded, phase, counts, replies>>
      /\ UNCHANGED <<Repairable, FullsRead, RefsRead>>
  BY <1>1, <1>4, ClientInvariant
<1>6. SessionTypeOK'
  <2>1. TypeOK' /\ SessionTypeOK
    BY <1>5 DEF IInv, SessionInv
  <2> QED
    BY <1>1, <1>4, <1>5, <2>1 DEF SessionTypeOK
<1>7. FirstRound' /\ SecondRound' /\ Following'
  BY <1>3, <1>5 DEF FirstRound, SecondRound, Following
<1>8. Answers' /\ Repairs'
  BY <1>1, <1>2, <1>4, <1>5 DEF SessionInv, Answers, Repairs
<1>9. Tally'
  BY <1>1, <1>4, <1>5 DEF SessionInv, Tally
<1> QED
  BY <1>5, <1>6, <1>7, <1>8, <1>9 DEF SessionInv

\* The last ping is answered, or raises.
LEMMA CloseInvariant ==
    ASSUME SessionInv, Close
    PROVE  SessionInv'
<1>1. /\ pc = "closing" /\ pc' \in {"done", "aborted"}
      /\ pc' = "aborted" => link # "up"
      /\ UNCHANGED <<server, warm, encoders, frames, sent, toRepair, nextNonce,
                     repaired, stats, toServer, link>>
  BY DEF Close, Gone
<1>2. CASE pc' = "aborted"
  BY <1>1, <1>2, AbortInvariant
<1>3. CASE pc' = "done"
  <2>1. Len(replies[Stream]) = 2 /\ phase[Stream] = "closed"
    BY <1>1 DEF SessionInv, Answers
  <2>2. /\ IInv' /\ Emission' /\ Quiet' /\ Reading'
        /\ UNCHANGED <<target, seenNonces, nextInitialSeq, pendingRepairs,
                       roundEnded, phase, counts, replies>>
        /\ UNCHANGED <<Repairable, FullsRead, RefsRead>>
    BY <1>1, <1>3, ClientInvariant
  <2>3. SessionTypeOK'
    <3>1. TypeOK' /\ SessionTypeOK
      BY <2>2 DEF IInv, SessionInv
    <3> QED
      BY <1>1, <1>3, <2>2, <3>1 DEF SessionTypeOK
  <2>4. FirstRound' /\ SecondRound' /\ Following'
    BY <2>1, <2>2 DEF FirstRound, SecondRound, Following
  <2>5. Answers' /\ Repairs'
    BY <1>1, <1>3, <2>2 DEF SessionInv, Answers, Repairs
  <2>6. Tally'
    BY <1>1, <1>3, <2>2 DEF SessionInv, Tally
  <2> QED
    BY <2>2, <2>3, <2>4, <2>5, <2>6 DEF SessionInv
<1> QED
  BY <1>1, <1>2, <1>3

\* Every step of the client keeps the invariant.
LEMMA ClientStepInvariant ==
    ASSUME SessionInv, ClientStep
    PROVE  SessionInv'
<1>1. ReadFails => SessionInv'
  BY AbortInvariant DEF ReadFails, Gone
<1> QED
  BY <1>1, EncodeInvariant, FirstRoundInvariant, ReadMissingInvariant,
     SendRepairInvariant, SendFinishInvariant, ReadStatsInvariant, CloseInvariant
  DEF ClientStep

-----------------------------------------------------------------------------
(* The server's steps.                                                     *)

\* What the server does leaves the client, its frames and its dictionaries as
\* they are.
LEMMA ServerInvariant ==
    ASSUME SessionInv, IInv', UNCHANGED <<client, target>>, pc # "encode",
           toServer' \in Seq(MessageType), link' \in {"up", "failed", "idle"}
    PROVE  /\ SessionTypeOK' /\ Emission' /\ Quiet'
           /\ UNCHANGED <<warm, encoders, frames, pc, sent, toRepair, nextNonce,
                          repaired, stats>>
           /\ UNCHANGED <<Repairable, Offered>>
           /\ \A i : RoundMessage(i)' = RoundMessage(i)
           /\ Len(frames) = Len(target)
<1>1. UNCHANGED <<warm, encoders, frames, pc, sent, toRepair, nextNonce,
                  repaired, stats, target>>
  BY DEF client
<1>2. SessionTypeOK'
  BY <1>1 DEF SessionInv, SessionTypeOK, IInv
<1>3. Emission'
  BY <1>1 DEF SessionInv, Emission, EmittedFrame
<1>4. Quiet'
  BY <1>1 DEF Quiet
<1>5. UNCHANGED <<Repairable, Offered>>
  BY <1>1 DEF Repairable, Offered
<1>6. ASSUME NEW i PROVE RoundMessage(i)' = RoundMessage(i)
  BY <1>1 DEF RoundMessage, FrameMessage
<1>7. Len(frames) = Len(target)
  BY DEF SessionInv, Emission
<1> QED
  BY <1>1, <1>2, <1>3, <1>4, <1>5, <1>6, <1>7

\* What the server does with a message.
LEMMA Served ==
    ASSUME SessionInv, ServerStep
    PROVE  /\ toServer # <<>> /\ pc # "encode"
           /\ Len(toServer) \in Nat \ {0} /\ toServer[1] \in MessageType
           /\ toServer' \in Seq(MessageType)
           /\ Len(toServer') = Len(toServer) - 1
           /\ \A j \in 1 .. Len(toServer') :
                 toServer'[j] = toServer[j + 1] /\ j + 1 \in 1 .. Len(toServer)
           /\ Handle(Stream, toServer[1])
           /\ UNCHANGED <<client, link>> /\ link \in {"up", "failed", "idle"}
           /\ phase[Stream] # "closed"
           /\ IInv'
<1>1. /\ toServer # <<>> /\ Handle(Stream, Head(toServer))
      /\ toServer' = Tail(toServer) /\ UNCHANGED <<client, link>>
      /\ phase[Stream] # "closed"
  BY DEF ServerStep
<1>2. toServer \in Seq(MessageType) /\ Stream \in Streams
  BY ServerTypes
<1>3. /\ Len(toServer) \in Nat \ {0} /\ toServer[1] \in MessageType
      /\ Head(toServer) = toServer[1] /\ toServer' \in Seq(MessageType)
      /\ Len(toServer') = Len(toServer) - 1
      /\ \A j \in 1 .. Len(toServer') :
            toServer'[j] = toServer[j + 1] /\ j + 1 \in 1 .. Len(toServer)
  BY <1>1, <1>2, ReadFacts
<1>4. IInv'
  BY <1>1, <1>2, <1>3, HandleInvariant DEF SessionInv
<1>5. pc # "encode" /\ link \in {"up", "failed", "idle"}
  BY <1>1 DEF SessionInv, Quiet, SessionTypeOK
<1> QED
  BY <1>1, <1>3, <1>4, <1>5

\* During the first round the next message is the next of the round.
LEMMA NextOfRound ==
    ASSUME SessionInv, ServerStep, ~ roundEnded
    PROVE  /\ toServer[1] = RoundMessage(Taken + 1)
           /\ Taken \in Nat /\ Taken + 1 \in 1 .. Len(frames) + 2
           /\ replies[Stream] = <<>> /\ Len(replies[Stream]) = 0
           /\ pc \notin {"repair", "stats", "closing", "done"}
<1>1. Taken \in Nat /\ Len(frames) \in Nat
  BY ServerTypes, FrameTypes DEF Taken
<1>2. Len(toServer) \in Nat \ {0} /\ phase[Stream] # "closed"
  BY Served
<1>3. /\ replies[Stream] = <<>>
      /\ Taken + Len(toServer) <= Len(frames) + 2
      /\ \A j \in 1 .. Len(toServer) : toServer[j] = RoundMessage(Taken + j)
  BY <1>2 DEF SessionInv, FirstRound
<1>4. 1 \in 1 .. Len(toServer) /\ Taken + 1 \in 1 .. Len(frames) + 2
  BY <1>1, <1>2, <1>3
<1>5. Len(replies[Stream]) = 0
  BY <1>3, EmptySeq
<1>6. pc \notin {"repair", "stats", "closing", "done"}
  BY <1>5 DEF SessionInv, Answers
<1> QED
  BY <1>1, <1>3, <1>4, <1>5, <1>6

\* The rest of the round moves up.
LEMMA RoundMovesUp ==
    ASSUME SessionInv, ServerStep, ~ roundEnded, UNCHANGED <<replies, target>>,
           Taken' = Taken + 1
    PROVE  FirstRound'
<1>1. /\ Len(toServer) \in Nat \ {0} /\ phase[Stream] # "closed"
      /\ Len(toServer') = Len(toServer) - 1 /\ Taken \in Nat
      /\ \A j \in 1 .. Len(toServer') :
            toServer'[j] = toServer[j + 1] /\ j + 1 \in 1 .. Len(toServer)
      /\ UNCHANGED <<frames, pc, link, Offered>>
      /\ \A i : RoundMessage(i)' = RoundMessage(i)
  BY Served, ServerInvariant, NextOfRound
<1>2. /\ replies[Stream] = <<>>
      /\ Taken + Len(toServer) <= Len(frames) + 2
      /\ link = "up" => /\ pc \in {"encode", "frames", "missing"}
                        /\ Taken + Len(toServer) = Offered
      /\ \A j \in 1 .. Len(toServer) : toServer[j] = RoundMessage(Taken + j)
  BY <1>1 DEF SessionInv, FirstRound
<1>3. Taken' + Len(toServer') = Taken + Len(toServer)
  BY <1>1
<1>4. ASSUME NEW j \in 1 .. Len(toServer')
      PROVE  toServer'[j] = RoundMessage(Taken + j)'
  <2>1. toServer'[j] = RoundMessage(Taken + (j + 1))
    BY <1>1, <1>2
  <2>2. Taken + (j + 1) = Taken' + j
    BY <1>1
  <2> QED
    BY <1>1, <2>1, <2>2
<1> QED
  BY <1>1, <1>2, <1>3, <1>4 DEF FirstRound

\* HELLO is accepted, unless the input is too long.
LEMMA HelloServed ==
    ASSUME SessionInv, ServerStep, phase[Stream] = "hello"
    PROVE  SessionInv'
<1> DEFINE m == toServer[1]
<1>1. nextInitialSeq = 0 /\ ~ roundEnded /\ Taken = 0
  BY DEF SessionInv, Reading, Taken
<1>2. /\ m = [t |-> "HELLO", valid |-> TRUE, count |-> Len(frames)]
      /\ replies[Stream] = <<>> /\ Len(replies[Stream]) = 0
      /\ pc \notin {"repair", "stats", "closing", "done"}
  BY <1>1, NextOfRound DEF RoundMessage
<1>3. m.t = "HELLO" /\ m.valid /\ m.count = Len(frames) /\ Len(frames) \in Nat
  BY <1>2, FrameTypes
<1>4. /\ Handle(Stream, m) /\ IInv' /\ pc # "encode" /\ UNCHANGED <<client, link>>
      /\ toServer' \in Seq(MessageType) /\ link \in {"up", "failed", "idle"}
  BY Served
<1> HIDE DEF m
<1>5. \/ Hello(Stream, m) /\ Len(frames) <= MaxFrameCount
      \/ BadHello(Stream, m) /\ Len(frames) > MaxFrameCount
  <2>1. Hello(Stream, m) \/ BadHello(Stream, m)
    BY <1>3, <1>4
    DEF Handle, HandleFrame, AcceptFull, AcceptRef, AcceptMiss, UnusableFrame,
        RefuseFrame, Admitted, EndRound, BadEndRound, Finish, BadFinish,
        Unknown, Undecodable
  <2> QED
    BY <1>3, <2>1, LimitAssumption DEF Hello, BadHello
<1>6. UNCHANGED <<target, dictionary, delivered, nextInitialSeq,
                  nextInitialOffset, pendingRepairs, roundEnded, seenNonces,
                  counts, promised>>
  BY <1>5 DEF Hello, BadHello, reconstruction, session
<1>7. /\ SessionTypeOK' /\ Emission' /\ Quiet'
      /\ UNCHANGED <<warm, encoders, frames, pc, sent, toRepair, nextNonce,
                     repaired, stats>>
      /\ UNCHANGED <<Repairable, Offered>>
      /\ Len(frames) = Len(target)
  BY <1>4, <1>6, ServerInvariant
<1>8. phase \in [Streams -> {"hello", "open", "closed"}] /\ Stream \in Streams
  BY ServerTypes
<1>9. SecondRound' /\ Following'
  BY <1>1, <1>6 DEF SecondRound, Following
<1>10. Repairs' /\ Tally'
  <2>1. FullsRead' = FullsRead /\ RefsRead' = RefsRead
    BY <1>6, <1>7 DEF FullsRead, RefsRead
  <2> QED
    BY <1>6, <1>7, <2>1 DEF SessionInv, Repairs, Tally
<1>11. Reading' /\ FirstRound' /\ Answers'
  <2>1. CASE Hello(Stream, m) /\ Len(frames) <= MaxFrameCount
    <3>1. /\ phase'[Stream] = "open" /\ expectedFrameCount' = Len(frames)
          /\ UNCHANGED replies
      BY <1>3, <1>8, <2>1 DEF Hello, Silent
    <3>2. Taken' = Taken + 1
      BY <1>1, <1>6, <3>1 DEF Taken
    <3>3. FirstRound'
      BY <1>1, <1>6, <3>1, <3>2, RoundMovesUp
    <3>4. Reading'
      BY <1>6, <1>7, <2>1, <3>1 DEF SessionInv, Reading
    <3>5. Answers'
      BY <1>2, <1>6, <1>7, <3>1 DEF Answers
    <3> QED
      BY <3>3, <3>4, <3>5
  <2>2. CASE BadHello(Stream, m) /\ Len(frames) > MaxFrameCount
    <3>1. phase'[Stream] = "closed" /\ Send(Stream, [t |-> "ERROR"])
      BY <1>8, <2>2 DEF BadHello, Fail, Return
    <3>2. Len(replies'[Stream]) = 1 /\ replies'[Stream][1].t = "ERROR"
      <4>1. [t |-> "ERROR"] \in Replies /\ replies \in [Streams -> Seq(Replies)]
        BY ServerTypes DEF Replies
      <4>2. /\ Len(replies'[Stream]) = Len(replies[Stream]) + 1
            /\ replies'[Stream][Len(replies[Stream]) + 1] = [t |-> "ERROR"]
        BY <1>8, <3>1, <4>1, SendFacts
      <4> QED
        BY <1>2, <4>2
    <3>3. FirstRound'
      BY <3>1 DEF FirstRound
    <3>4. Reading'
      BY <1>6, <1>7, <3>1 DEF SessionInv, Reading
    <3>5. Answers'
      BY <1>2, <1>6, <1>7, <2>2, <3>1, <3>2 DEF Answers
    <3> QED
      BY <3>3, <3>4, <3>5
  <2> QED
    BY <1>5, <2>1, <2>2
<1> QED
  BY <1>4, <1>7, <1>9, <1>10, <1>11 DEF SessionInv

\* The frames that follow are where the server expects them.
LEMMA OffsetMatches ==
    ASSUME SessionInv, nextInitialSeq < Len(frames)
    PROVE  frames[nextInitialSeq + 1].offset = nextInitialOffset
<1> DEFINE n == nextInitialSeq
<1>1. n \in Nat /\ DOMAIN promised = 0 .. n - 1 /\ Len(frames) \in Nat
  BY ServerTypes, FrameTypes
<1>2. n + 1 \in 1 .. Len(frames)
  BY <1>1
<1>3. frames[n + 1].offset = IF n + 1 = 1 THEN 0
                             ELSE frames[n].offset + frames[n].length
  BY <1>1, <1>2, FrameTypes DEF EmittedFrame
<1>4. CASE n = 0
  BY <1>3, <1>4 DEF SessionInv, Reading
<1>5. CASE n # 0
  <2>1. n - 1 \in DOMAIN promised /\ (n - 1) + 1 = n
    BY <1>1, <1>5
  <2>2. promised[n - 1].offset + promised[n - 1].length = nextInitialOffset
    BY <2>1 DEF SessionInv, IInv, Consistent, OffsetsContiguous
  <2>3. promised[n - 1] = Reference(frames[n])
    BY <2>1 DEF SessionInv, Reading
  <2> QED
    BY <1>1, <1>3, <1>5, <2>2, <2>3 DEF Reference
<1> QED
  BY <1>4, <1>5

\* A nonce above all others is no replay.
LEMMA FreshNonce ==
    ASSUME SessionInv, NEW n \in Nat, n > seenNonces.highest
    PROVE  /\ ~ Replayed(seenNonces, WindowSize, n)
           /\ LET w == Remember(seenNonces, WindowSize, n)
              IN  w.highest = n /\ \A k \in w.seen : k <= n
<1>1. /\ seenNonces.highest \in Nat /\ seenNonces.seen \subseteq Nat
      /\ \A k \in seenNonces.seen : k <= seenNonces.highest
  BY ServerTypes DEF SessionInv, Reading
<1>2. ~ Replayed(seenNonces, WindowSize, n)
  BY <1>1, WindowAssumption DEF Replayed
<1>3. Remember(seenNonces, WindowSize, n).highest = n
  BY <1>1 DEF Remember, Later
<1>4. ASSUME NEW k \in seenNonces.seen \cup {n} PROVE k <= n
  BY <1>1
<1>5. Remember(seenNonces, WindowSize, n).seen \subseteq seenNonces.seen \cup {n}
  BY DEF Remember
<1> QED
  BY <1>2, <1>3, <1>4, <1>5

\* The next frame of the round is accepted, as what it is.
LEMMA FrameAccepted ==
    ASSUME SessionInv, ServerStep, phase[Stream] = "open", ~ roundEnded,
           nextInitialSeq < Len(frames)
    PROVE  LET m == toServer[1]
               f == frames[nextInitialSeq + 1]
           IN  /\ nextInitialSeq + 1 \in 1 .. Len(frames)
               /\ m.t = "FRAME" /\ m.seq = nextInitialSeq /\ m.repair = FALSE
               /\ m.frame = f /\ f \in Frames
               /\ Admitted(Stream, m)
               /\ \/ f.kind = "FULL" /\ AcceptFull(Stream, m)
                  \/ f.kind = "REF" /\ AcceptRef(Stream, m)
                  \/ f.kind = "REF" /\ AcceptMiss(Stream, m)
<1> DEFINE m == toServer[1]
           n == nextInitialSeq
           f == frames[n + 1]
           c == target[n + 1]
<1>1. n \in Nat /\ Len(frames) \in Nat /\ n + 1 \in 1 .. Len(frames) /\ Taken = n + 1
  <2>1. nextInitialSeq \in Nat
    BY ServerTypes
  <2>2. Len(frames) \in Nat
    BY FrameTypes
  <2>3. Taken = nextInitialSeq + 1
    BY DEF Taken
  <2> QED
    BY <2>1, <2>2, <2>3
<1>2. m = FrameMessage(n, f, FALSE)
  <2>1. /\ Taken + 1 # 1 /\ Taken + 1 <= Len(frames) + 1
        /\ (Taken + 1) - 2 = n /\ (Taken + 1) - 1 = n + 1
    BY <1>1
  <2>2. m = RoundMessage(Taken + 1)
    BY NextOfRound
  <2> HIDE DEF m
  <2> QED
    BY <2>1, <2>2 DEF RoundMessage
<1>3. Handle(Stream, m)
  BY Served
<1> HIDE DEF m
<1>4. m.t = "FRAME" /\ m.seq = n /\ m.repair = FALSE /\ m.frame = f
  BY <1>2 DEF FrameMessage
<1>5. /\ f \in Frames /\ c \in Chunks /\ f.kind \in {"FULL", "REF"}
      /\ f.cid = CidOf[c] /\ f.length = LengthOf[c] /\ f.nonce = n + 1
      /\ f.tagged /\ f.inContext
      /\ f.kind = "FULL" => f.payload = c
  BY <1>1, FrameTypes DEF EmittedFrame
<1>6. f.offset = nextInitialOffset
  BY OffsetMatches
<1>7. /\ seenNonces.highest = n /\ expectedFrameCount = Len(frames)
  BY DEF SessionInv, Reading
<1>8. ~ Replayed(seenNonces, WindowSize, n + 1)
  BY <1>1, <1>7, FreshNonce
<1> HIDE DEF f, c
<1>9. Expected(m)
  BY <1>4, <1>7 DEF Expected
<1>10. Verified(m)
  <2>1. ExpectedOffset(m) = nextInitialOffset
    BY <1>4 DEF ExpectedOffset
  <2>2. ~ Replayed(seenNonces, WindowSize, f.nonce)
    BY <1>5, <1>8
  <2> QED
    BY <1>4, <1>5, <1>6, <2>1, <2>2, Zenon DEF Verified
<1>11. Admitted(Stream, m)
  BY <1>4, <1>9, <1>10 DEF Admitted
<1>12. Usable(f)
  <2>1. CASE f.kind = "FULL"
    <3>1. f.payload = c /\ c # NoPayload
      BY <1>5, <2>1, PayloadAssumption
    <3>2. WellFormedFull(f)
      BY <1>5, <2>1, <3>1, Zenon DEF WellFormedFull
    <3> QED
      BY <3>2 DEF Usable
  <2>2. CASE f.kind = "REF" /\ f.cid \in Keys(dictionary)
    <3>1. /\ Lookup(dictionary, f.cid) \in Chunks
          /\ CidOf[Lookup(dictionary, f.cid)] = f.cid
      BY <2>2, LookupFinds, ServerTypes
    <3>2. Lookup(dictionary, f.cid) = c
      BY <1>5, <3>1, SameChunk
    <3> QED
      BY <1>5, <2>2, <3>1, <3>2 DEF Usable, RefHit
  <2>3. CASE f.kind = "REF" /\ f.cid \notin Keys(dictionary)
    BY <2>3 DEF Usable, RefMiss
  <2> QED
    BY <1>5, <2>1, <2>2, <2>3
<1>13. AcceptFull(Stream, m) \/ AcceptRef(Stream, m) \/ AcceptMiss(Stream, m)
  BY <1>3, <1>4, <1>9, <1>10, <1>12
  DEF Handle, HandleFrame, UnusableFrame, RefuseFrame, Hello, BadHello,
      EndRound, BadEndRound, Finish, BadFinish, Unknown, Undecodable
<1>14. /\ AcceptFull(Stream, m) => f.kind = "FULL"
       /\ AcceptRef(Stream, m) \/ AcceptMiss(Stream, m) => f.kind = "REF"
  BY <1>4 DEF AcceptFull, AcceptRef, AcceptMiss, WellFormedFull, RefHit, RefMiss
<1> QED
  BY <1>1, <1>4, <1>5, <1>11, <1>13, <1>14 DEF m, f

\* What every accepted frame of the round changes.
LEMMA CursorMoves ==
    ASSUME SessionInv, ServerStep, phase[Stream] = "open", ~ roundEnded,
           nextInitialSeq < Len(frames)
    PROVE  LET f == frames[nextInitialSeq + 1]
           IN  /\ nextInitialSeq' = nextInitialSeq + 1
               /\ promised' = Put(promised, nextInitialSeq, Reference(f))
               /\ seenNonces'.highest = nextInitialSeq + 1
               /\ \A k \in seenNonces'.seen : k <= seenNonces'.highest
               /\ UNCHANGED <<target, expectedFrameCount, roundEnded, phase,
                              replies>>
<1> DEFINE m == toServer[1]
           n == nextInitialSeq
           f == frames[n + 1]
<1>1. /\ n + 1 \in 1 .. Len(frames) /\ n \in Nat
      /\ m.seq = n /\ m.repair = FALSE /\ m.frame = f
      /\ AcceptFull(Stream, m) \/ AcceptRef(Stream, m) \/ AcceptMiss(Stream, m)
  BY FrameAccepted, ServerTypes
<1>2. f.nonce = n + 1 /\ seenNonces.highest = n
  BY <1>1, FrameTypes DEF EmittedFrame, SessionInv, Reading
<1> HIDE DEF m, f
<1>3. /\ Advance(m) /\ BurnNonce(m)
      /\ UNCHANGED <<target, expectedFrameCount, roundEnded, phase, replies>>
  BY <1>1 DEF AcceptFull, AcceptRef, AcceptMiss, Stay, Silent, session
<1>4. nextInitialSeq' = n + 1 /\ promised' = Put(promised, n, Reference(f))
  BY <1>1, <1>3 DEF Advance
<1>5. seenNonces' = Remember(seenNonces, WindowSize, n + 1)
  BY <1>1, <1>2, <1>3 DEF BurnNonce
<1>6. /\ seenNonces'.highest = n + 1
      /\ \A k \in seenNonces'.seen : k <= n + 1
  BY <1>1, <1>2, <1>5, FreshNonce
<1> QED
  BY <1>3, <1>4, <1>6 DEF f

\* The receiver goes on retaining what the encoder may refer to.
LEMMA StillRetains ==
    ASSUME SessionInv, ServerStep, phase[Stream] = "open", ~ roundEnded,
           nextInitialSeq < Len(frames)
    PROVE  Retains(dictionary', encoders[nextInitialSeq + 2], warm)
<1> DEFINE m == toServer[1]
           n == nextInitialSeq
           f == frames[n + 1]
           c == target[n + 1]
           e == encoders[n + 1]
<1>1. /\ n + 1 \in 1 .. Len(frames) /\ n \in Nat /\ m.frame = f
      /\ Len(frames) \in Nat
      /\ \/ f.kind = "FULL" /\ AcceptFull(Stream, m)
         \/ f.kind = "REF" /\ AcceptRef(Stream, m)
         \/ f.kind = "REF" /\ AcceptMiss(Stream, m)
  BY FrameAccepted, ServerTypes, FrameTypes
<1>2. Retains(dictionary, e, warm)
  BY DEF SessionInv, Reading
<1>3. Sound(dictionary) /\ Sound(e)
  <2>1. n + 1 \in 1 .. Len(frames) + 1
    BY <1>1
  <2> QED
    BY <2>1, ServerTypes DEF SessionInv, Emission
<1>4. /\ c \in Chunks /\ f.cid = CidOf[c] /\ (n + 1) + 1 = n + 2
      /\ f.kind = "REF" => encoders[(n + 1) + 1] = e
      /\ f.kind = "FULL" =>
            f.payload = c /\ encoders[(n + 1) + 1] = Touched(e, c)
  BY <1>1, FrameTypes DEF EmittedFrame
<1> HIDE DEF m, f, c, e
<1>5. CASE f.kind = "FULL" /\ AcceptFull(Stream, m)
  <2>1. dictionary' = Touched(dictionary, c)
    BY <1>1, <1>4, <1>5 DEF AcceptFull, Touched
  <2> QED
    BY <1>2, <1>3, <1>4, <1>5, <2>1, TouchedRetains DEF Sound
<1>6. CASE f.kind = "REF" /\ (AcceptRef(Stream, m) \/ AcceptMiss(Stream, m))
  <2>1. dictionary' = dictionary
    BY <1>6 DEF AcceptRef, AcceptMiss
  <2> QED
    BY <1>2, <1>4, <1>6, <2>1
<1> QED
  BY <1>1, <1>5, <1>6

\* What is added to the counters, and to what is missing.
LEMMA FrameCounted ==
    ASSUME SessionInv, ServerStep, phase[Stream] = "open", ~ roundEnded,
           nextInitialSeq < Len(frames)
    PROVE  LET n == nextInitialSeq
           IN  \/ /\ frames[n + 1].kind = "FULL"
                  /\ counts' = [counts EXCEPT ![Stream]["full"] = @ + 1]
                  /\ pendingRepairs' = pendingRepairs
               \/ /\ frames[n + 1].kind = "REF"
                  /\ counts' = [counts EXCEPT ![Stream]["ref"] = @ + 1]
                  /\ pendingRepairs' = pendingRepairs
               \/ /\ frames[n + 1].kind = "REF"
                  /\ counts' = [counts EXCEPT ![Stream]["miss"] = @ + 1]
                  /\ DOMAIN pendingRepairs' = DOMAIN pendingRepairs \cup {n}
                  /\ n \in Repairable /\ n \notin DOMAIN pendingRepairs
<1> DEFINE m == toServer[1]
           n == nextInitialSeq
           f == frames[n + 1]
<1>1. /\ n + 1 \in 1 .. Len(frames) /\ n \in Nat /\ Len(frames) \in Nat
      /\ m.seq = n /\ m.repair = FALSE /\ m.frame = f
      /\ \/ f.kind = "FULL" /\ AcceptFull(Stream, m)
         \/ f.kind = "REF" /\ AcceptRef(Stream, m)
         \/ f.kind = "REF" /\ AcceptMiss(Stream, m)
  BY FrameAccepted, ServerTypes, FrameTypes
<1>2. /\ f.kind = "REF" => f.cid \in Keys(encoders[n + 1])
      /\ Retains(dictionary, encoders[n + 1], warm)
  BY <1>1, FrameTypes DEF EmittedFrame, SessionInv, Reading
<1>3. DOMAIN pendingRepairs \subseteq 0 .. n - 1
  BY ServerTypes
<1> HIDE DEF m
<1>4. CASE f.kind = "FULL" /\ AcceptFull(Stream, m)
  BY <1>1, <1>4 DEF AcceptFull, Count, FullOutcome
<1>5. CASE f.kind = "REF" /\ AcceptRef(Stream, m)
  BY <1>5 DEF AcceptRef, Count
<1>6. CASE f.kind = "REF" /\ AcceptMiss(Stream, m)
  <2>1. f.cid \in Keys(warm)
    BY <1>1, <1>2, <1>6 DEF AcceptMiss, RefMiss, Retains
  <2>2. n \in Repairable
    BY <1>1, <2>1 DEF Repairable
  <2>3. DOMAIN pendingRepairs' = DOMAIN pendingRepairs \cup {n}
    <3>1. pendingRepairs' = Put(pendingRepairs, n, Reference(f))
      BY <1>1, <1>6 DEF AcceptMiss
    <3> QED
      BY <3>1, PutFacts
  <2>4. n \notin DOMAIN pendingRepairs
    BY <1>1, <1>3
  <2> QED
    BY <1>6, <2>2, <2>3, <2>4 DEF AcceptMiss, Count
<1> QED
  BY <1>1, <1>4, <1>5, <1>6

\* The sets the counters count are finite.
LEMMA ReadFinite ==
    ASSUME SessionInv
    PROVE  /\ IsFiniteSet(FullsRead) /\ IsFiniteSet(RefsRead)
           /\ Cardinality(FullsRead) \in Nat /\ Cardinality(RefsRead) \in Nat
<1>1. nextInitialSeq \in Nat
  BY ServerTypes
<1>2. IsFiniteSet(1 .. nextInitialSeq)
  BY <1>1, FS_Interval
<1>3. FullsRead \in SUBSET (1 .. nextInitialSeq) /\ RefsRead \in SUBSET (1 .. nextInitialSeq)
  BY DEF FullsRead, RefsRead
<1> QED
  BY <1>2, <1>3, FS_Subset, FS_CardinalityType

\* The counters after a frame of the round.
LEMMA FrameTallied ==
    ASSUME SessionInv, ServerStep, phase[Stream] = "open", ~ roundEnded,
           nextInitialSeq < Len(frames)
    PROVE  Repairs' /\ Tally'
<1> DEFINE n == nextInitialSeq
           k == counts[Stream]
           P == DOMAIN pendingRepairs
<1>1. /\ \/ /\ frames[n + 1].kind = "FULL"
            /\ counts' = [counts EXCEPT ![Stream]["full"] = @ + 1]
            /\ pendingRepairs' = pendingRepairs
         \/ /\ frames[n + 1].kind = "REF"
            /\ counts' = [counts EXCEPT ![Stream]["ref"] = @ + 1]
            /\ pendingRepairs' = pendingRepairs
         \/ /\ frames[n + 1].kind = "REF"
            /\ counts' = [counts EXCEPT ![Stream]["miss"] = @ + 1]
            /\ DOMAIN pendingRepairs' = P \cup {n}
            /\ n \in Repairable /\ n \notin P
      /\ n' = n + 1 /\ UNCHANGED <<target, roundEnded>>
  BY FrameCounted, CursorMoves
<1>2. /\ UNCHANGED <<frames, toRepair, repaired, pc, Repairable>>
      /\ pc \notin {"repair", "stats", "closing", "done"}
  BY <1>1, Served, ServerInvariant, NextOfRound
<1>3. /\ k["full"] = Cardinality(FullsRead)
      /\ k["ref"] + k["miss"] = Cardinality(RefsRead)
      /\ k["repair"] = 0 /\ k["miss"] = k["repair"] + Cardinality(P)
      /\ IsFiniteSet(P)
  BY DEF SessionInv, Tally
<1>4. /\ k["full"] \in Nat /\ k["ref"] \in Nat /\ k["miss"] \in Nat
      /\ k["repair"] \in Nat /\ counts \in [Streams -> [Outcomes -> Nat]]
      /\ Stream \in Streams
  <2>1. counts \in [Streams -> [Outcomes -> Nat]] /\ Stream \in Streams
    BY ServerTypes
  <2>2. k \in [Outcomes -> Nat]
    BY <2>1
  <2>3. {"full", "ref", "miss", "repair"} \subseteq Outcomes
    BY DEF Outcomes
  <2> QED
    BY <2>1, <2>2, <2>3
<1>5. n \in Nat /\ n + 1 \notin FullsRead /\ n + 1 \notin RefsRead
  BY ServerTypes DEF FullsRead, RefsRead
<1>6. /\ \A i \in 1 .. n + 1 : i \in 1 .. n \/ i = n + 1
      /\ \A i \in 1 .. n : i \in 1 .. n + 1
      /\ n + 1 \in 1 .. n + 1
  BY <1>5
<1>7. /\ FullsRead' = IF frames[n + 1].kind = "FULL" THEN FullsRead \cup {n + 1}
                                                    ELSE FullsRead
      /\ RefsRead' = IF frames[n + 1].kind = "REF" THEN RefsRead \cup {n + 1}
                                                  ELSE RefsRead
  BY <1>1, <1>2, <1>6 DEF FullsRead, RefsRead
<1>8. /\ Cardinality(FullsRead \cup {n + 1}) = Cardinality(FullsRead) + 1
      /\ Cardinality(RefsRead \cup {n + 1}) = Cardinality(RefsRead) + 1
      /\ n \notin P =>
            /\ IsFiniteSet(P \cup {n}) /\ Cardinality(P \cup {n}) = Cardinality(P) + 1
      /\ Cardinality(P) \in Nat
  BY <1>3, <1>5, ReadFinite, FS_AddElement, FS_CardinalityType
<1> HIDE DEF n, P
<1>9. Repairs'
  BY <1>1, <1>2 DEF SessionInv, Repairs, P
<1>10. /\ k'["repair"] = k["repair"]
       /\ frames[n + 1].kind = "FULL" =>
             k'["full"] = k["full"] + 1 /\ k'["ref"] = k["ref"] /\ k'["miss"] = k["miss"]
       /\ frames[n + 1].kind = "REF" =>
             /\ k'["full"] = k["full"]
             /\ \/ /\ k'["ref"] = k["ref"] + 1 /\ k'["miss"] = k["miss"]
                   /\ P' = P
                \/ /\ k'["ref"] = k["ref"] /\ k'["miss"] = k["miss"] + 1
                   /\ P' = P \cup {n} /\ n \notin P
       /\ frames[n + 1].kind = "FULL" => P' = P
       /\ frames[n + 1].kind \in {"FULL", "REF"}
  BY <1>1, <1>4 DEF Outcomes, P
<1> HIDE DEF k
<1>11. k'["full"] = Cardinality(FullsRead')
  BY <1>3, <1>4, <1>7, <1>8, <1>10
<1>12. k'["ref"] + k'["miss"] = Cardinality(RefsRead')
  BY <1>3, <1>4, <1>7, <1>8, <1>10
<1>13. k'["miss"] = k'["repair"] + Cardinality(P') /\ IsFiniteSet(P')
  <2>1. CASE k'["miss"] = k["miss"] /\ P' = P
    BY <1>3, <1>10, <2>1
  <2>2. CASE k'["miss"] = k["miss"] + 1 /\ P' = P \cup {n} /\ n \notin P
    <3>1. IsFiniteSet(P') /\ Cardinality(P') = Cardinality(P) + 1
      BY <1>8, <2>2
    <3> QED
      BY <1>3, <1>4, <1>8, <1>10, <2>2, <3>1
  <2> QED
    BY <1>10, <2>1, <2>2
<1>14. repaired' = repaired /\ pc' = pc
       /\ (pc \in {"encode", "frames", "missing"} => repaired = 0)
  BY <1>2 DEF SessionInv, Tally
<1>15. Tally'
  BY <1>2, <1>3, <1>10, <1>11, <1>12, <1>13, <1>14 DEF Tally, k, P
<1> QED
  BY <1>9, <1>15

\* An initial frame is taken in.
LEMMA FrameServed ==
    ASSUME SessionInv, ServerStep, phase[Stream] = "open", ~ roundEnded,
           nextInitialSeq < Len(frames)
    PROVE  SessionInv'
<1> DEFINE n == nextInitialSeq
           f == frames[n + 1]
<1>1. /\ nextInitialSeq' = n + 1
      /\ promised' = Put(promised, n, Reference(f))
      /\ seenNonces'.highest = n + 1
      /\ \A k \in seenNonces'.seen : k <= seenNonces'.highest
      /\ UNCHANGED <<target, expectedFrameCount, roundEnded, phase, replies>>
  BY CursorMoves
<1> HIDE DEF f
<1>2. /\ IInv' /\ pc # "encode" /\ UNCHANGED <<client, link>>
      /\ toServer' \in Seq(MessageType) /\ link \in {"up", "failed", "idle"}
  BY Served
<1>3. /\ SessionTypeOK' /\ Emission' /\ Quiet'
      /\ UNCHANGED <<warm, encoders, frames, pc, Repairable>>
  BY <1>1, <1>2, ServerInvariant
<1>4. /\ n \in Nat /\ DOMAIN promised = 0 .. n - 1 /\ Len(frames) \in Nat
  BY ServerTypes, FrameTypes
<1>5. FirstRound'
  <2>1. Taken' = Taken + 1
    BY <1>1, <1>4 DEF Taken
  <2> QED
    BY <1>1, <2>1, RoundMovesUp
<1>6. SecondRound' /\ Following'
  BY <1>1 DEF SecondRound, Following
<1>7. Answers'
  <2>1. Len(replies[Stream]) = 0 /\ pc \notin {"repair", "stats", "closing", "done"}
    BY NextOfRound
  <2> QED
    BY <1>1, <1>3, <2>1 DEF Answers
<1>8. Reading'
  <2>1. ASSUME NEW q \in DOMAIN promised' PROVE promised'[q] = Reference(frames[q + 1])
    <3>1. DOMAIN promised' = DOMAIN promised \cup {n} /\ promised'[n] = Reference(f)
          /\ \A x \in DOMAIN promised : x # n => promised'[x] = promised[x]
      BY <1>1 DEF Put
    <3>2. CASE q = n
      BY <3>1, <3>2 DEF f
    <3>3. CASE q # n
      BY <2>1, <3>1, <3>3 DEF SessionInv, Reading
    <3> QED
      BY <3>2, <3>3
  <2>2. Retains(dictionary', encoders[n + 2], warm)
    BY StillRetains
  <2>3. nextInitialSeq' + 1 = n + 2 /\ nextInitialSeq' # 0 /\ nextInitialSeq' <= Len(frames)
    BY <1>1, <1>4
  <2>4. /\ phase[Stream] = "open" /\ expectedFrameCount = Len(frames)
        /\ Len(frames) <= MaxFrameCount
    BY DEF SessionInv, Reading
  <2>5. Retains(dictionary, encoders[nextInitialSeq + 1], warm)'
    BY <1>3, <2>2, <2>3
  <2> HIDE DEF n
  <2>6. Reading'
    BY <1>1, <1>3, <2>1, <2>3, <2>4, <2>5 DEF Reading, n
  <2> QED
    BY <2>6
<1> QED
  BY <1>2, <1>3, <1>5, <1>6, <1>7, <1>8, FrameTallied DEF SessionInv

\* END_ROUND comes in time, and the answer names what the client can repair.
LEMMA EndServed ==
    ASSUME SessionInv, ServerStep, phase[Stream] = "open", ~ roundEnded,
           nextInitialSeq >= Len(frames)
    PROVE  SessionInv'
<1> DEFINE m == toServer[1]
           items == DOMAIN pendingRepairs
<1>1. /\ nextInitialSeq = Len(frames) /\ Len(frames) \in Nat
      /\ expectedFrameCount = Len(frames) /\ seenNonces.highest = Len(frames)
  <2>1. nextInitialSeq <= Len(frames) /\ nextInitialSeq \in Nat /\ Len(frames) \in Nat
    BY ServerTypes, FrameTypes DEF SessionInv, Reading
  <2>2. nextInitialSeq = Len(frames)
    BY <2>1
  <2> QED
    BY <2>1, <2>2 DEF SessionInv, Reading
<1>2. Taken = Len(frames) + 1
  BY <1>1 DEF Taken
<1>3. m.t = "END_ROUND"
  <2>1. m = RoundMessage(Taken + 1)
    BY NextOfRound
  <2>2. Taken + 1 # 1 /\ ~ (Taken + 1 <= Len(frames) + 1)
    BY <1>1, <1>2
  <2> HIDE DEF m
  <2>3. m = [t |-> "END_ROUND"]
    BY <2>1, <2>2 DEF RoundMessage
  <2> QED
    BY <2>3
<1>4. /\ Handle(Stream, m) /\ IInv' /\ pc # "encode" /\ UNCHANGED <<client, link>>
      /\ toServer' \in Seq(MessageType) /\ link \in {"up", "failed", "idle"}
      /\ Len(toServer) \in Nat \ {0} /\ Len(toServer') = Len(toServer) - 1
  BY Served
<1> HIDE DEF m
<1>5. EndRound(Stream, m)
  BY <1>1, <1>3, <1>4
  DEF Handle, HandleFrame, AcceptFull, AcceptRef, AcceptMiss, UnusableFrame,
      RefuseFrame, Admitted, Hello, BadHello, BadEndRound, RoundComplete,
      Finish, BadFinish, Unknown, Undecodable
<1>6. /\ UNCHANGED <<target, expectedFrameCount, dictionary, delivered,
                     nextInitialSeq, nextInitialOffset, pendingRepairs,
                     seenNonces, counts, promised>>
      /\ roundEnded' = TRUE
  BY <1>5 DEF EndRound, session
<1>7. /\ SessionTypeOK' /\ Emission' /\ Quiet'
      /\ UNCHANGED <<warm, encoders, frames, pc, sent, toRepair, nextNonce,
                     repaired, stats>>
      /\ UNCHANGED <<Repairable, Offered>>
      /\ Len(frames) = Len(target)
  BY <1>4, <1>6, ServerInvariant
<1>8. /\ replies[Stream] = <<>> /\ Len(replies[Stream]) = 0
      /\ pc \notin {"repair", "stats", "closing", "done"}
  BY NextOfRound
<1>9. /\ items \subseteq Repairable /\ IsFiniteSet(items)
      /\ Cardinality(items) = counts[Stream]["miss"]
  <2>1. /\ counts[Stream]["repair"] = 0 /\ IsFiniteSet(items)
        /\ counts[Stream]["miss"] = counts[Stream]["repair"] + Cardinality(items)
    BY DEF SessionInv, Tally
  <2>2. Cardinality(items) \in Nat
    BY <2>1, FS_CardinalityType
  <2>3. items \subseteq Repairable
    BY DEF SessionInv, Repairs
  <2> HIDE DEF items
  <2>4. Cardinality(items) = counts[Stream]["miss"]
    BY <2>1, <2>2
  <2> QED
    BY <2>1, <2>3, <2>4
<1>10. /\ Len(toServer) = 1 /\ Len(toServer') = 0
       /\ link = "up" => pc = "missing"
  <2>1. /\ Taken + Len(toServer) <= Len(frames) + 2
        /\ link = "up" => /\ pc \in {"encode", "frames", "missing"}
                          /\ Taken + Len(toServer) = Offered
    BY DEF SessionInv, FirstRound
  <2>2. Len(toServer) = 1 /\ Len(toServer') = 0
    BY <1>1, <1>2, <1>4, <2>1
  <2>3. sent \in 0 .. Len(frames)
    BY DEF SessionInv, SessionTypeOK
  <2>4. ASSUME link = "up" PROVE pc # "frames"
    BY <1>1, <1>2, <2>1, <2>2, <2>3, <2>4 DEF Offered
  <2> QED
    BY <1>4, <2>1, <2>2, <2>4
<1>11. toServer' = <<>> /\ \A j \in 1 .. Len(toServer') : FALSE
  BY <1>4, <1>10, EmptySeq
<1>12. FirstRound'
  BY <1>6 DEF FirstRound
<1>13. Reading'
  <2>1. phase'[Stream] # "hello"
    BY ServerTypes, <1>5 DEF EndRound, Stay, Return
  <2>2. expectedFrameCount = Len(frames) /\ Len(frames) <= MaxFrameCount
    BY DEF SessionInv, Reading
  <2> QED
    BY <1>1, <1>6, <1>7, <2>1, <2>2 DEF SessionInv, Reading
<1>14. Repairs' /\ Tally'
  <2>1. FullsRead' = FullsRead /\ RefsRead' = RefsRead
    BY <1>6, <1>7 DEF FullsRead, RefsRead
  <2> QED
    BY <1>6, <1>7, <1>8, <2>1 DEF SessionInv, Repairs, Tally
<1>15. phase \in [Streams -> {"hello", "open", "closed"}] /\ Stream \in Streams
       /\ replies \in [Streams -> Seq(Replies)]
  BY ServerTypes
<1>16. SecondRound' /\ Following' /\ Answers'
  <2>1. CASE Send(Stream, [t |-> "MISSING", items |-> items]) /\ Stay(Stream)
    <3>1. [t |-> "MISSING", items |-> items] \in Replies
      BY DEF Replies, SessionInv, IInv, TypeOK
    <3>2. /\ Len(replies'[Stream]) = Len(replies[Stream]) + 1
          /\ replies'[Stream][Len(replies[Stream]) + 1]
               = [t |-> "MISSING", items |-> items]
      BY <1>15, <2>1, <3>1, SendFacts
    <3>3. /\ Len(replies'[Stream]) = 1 /\ replies'[Stream][1].t = "MISSING"
          /\ replies'[Stream][1].items = items
      BY <1>8, <3>2
    <3>4. items' = items
      BY <1>6
    <3> HIDE DEF items
    <3>5. SecondRound'
      BY <1>11, <3>3 DEF SecondRound
    <3>6. Following'
      BY <1>1, <1>4, <1>6, <1>7, <1>10, <1>11, <3>3, <3>4 DEF Following, items
    <3>7. Answers'
      BY <1>6, <1>7, <1>8, <1>9, <3>3 DEF Answers
    <3> QED
      BY <3>5, <3>6, <3>7
  <2>2. CASE Silent /\ Return(Stream)
    <3>1. phase'[Stream] = "closed" /\ replies' = replies
      BY <1>15, <2>2 DEF Silent, Return
    <3>2. SecondRound' /\ Following'
      BY <3>1 DEF SecondRound, Following
    <3>3. Answers'
      BY <1>6, <1>7, <1>8, <3>1 DEF Answers
    <3> QED
      BY <3>2, <3>3
  <2> QED
    BY <1>5, <2>1, <2>2 DEF EndRound
<1> QED
  BY <1>4, <1>7, <1>12, <1>13, <1>14, <1>16 DEF SessionInv

\* What is delivered is the input's, each chunk at its place.
LEMMA DeliveredRight ==
    ASSUME SessionInv, NEW q \in DOMAIN delivered
    PROVE  /\ q \in Nat /\ q + 1 \in 1 .. Len(frames)
           /\ delivered[q] = target[q + 1]
<1>1. /\ q \in 0 .. nextInitialSeq - 1 /\ nextInitialSeq \in Nat
      /\ Len(frames) \in Nat /\ nextInitialSeq <= Len(frames)
      /\ DOMAIN promised = 0 .. nextInitialSeq - 1
  BY ServerTypes, FrameTypes DEF SessionInv, Reading
<1>2. q \in Nat /\ q + 1 \in 1 .. Len(frames) /\ q \in DOMAIN promised
  BY <1>1
<1>3. promised[q].cid = CidOf[delivered[q]] /\ delivered[q] \in Chunks
  BY DEF SessionInv, IInv, Consistent, PromisesKept, TypeOK
<1>4. promised[q] = Reference(frames[q + 1])
  BY <1>2 DEF SessionInv, Reading
<1>5. frames[q + 1].cid = CidOf[target[q + 1]] /\ target[q + 1] \in Chunks
  BY <1>2, FrameTypes DEF EmittedFrame
<1>6. CidOf[delivered[q]] = CidOf[target[q + 1]]
  BY <1>3, <1>4, <1>5 DEF Reference
<1>7. delivered[q] = target[q + 1]
  BY <1>3, <1>5, <1>6, SameChunk
<1> QED
  BY <1>2, <1>7

\* A repair on its way is accepted as one.
LEMMA RepairAccepted ==
    ASSUME SessionInv, ServerStep, phase[Stream] = "open", roundEnded,
           RepairAt(1)
    PROVE  LET m == toServer[1]
           IN  /\ AcceptFull(Stream, m)
               /\ m.repair = TRUE /\ m.seq \in DOMAIN pendingRepairs
               /\ m.frame.nonce = seenNonces.highest + 1
<1> DEFINE m == toServer[1]
           q == m.seq
           f == frames[q + 1]
           c == target[q + 1]
           n == seenNonces.highest + 1
<1>1. m.t = "FRAME" /\ q \in DOMAIN pendingRepairs /\ m = RepairMessage(q, n)
  BY DEF RepairAt
<1>2. Handle(Stream, m)
  BY Served
<1> HIDE DEF m, q
<1>3. /\ q \in 0 .. nextInitialSeq - 1 /\ nextInitialSeq \in Nat
      /\ Len(frames) \in Nat /\ nextInitialSeq <= Len(frames)
      /\ DOMAIN promised = 0 .. nextInitialSeq - 1
      /\ n \in Nat /\ n > seenNonces.highest
  BY <1>1, ServerTypes, FrameTypes DEF SessionInv, Reading
<1>4. q \in Int /\ q + 1 \in 1 .. Len(frames) /\ q \in DOMAIN promised
  BY <1>3
<1>5. /\ f \in Frames /\ c \in Chunks /\ f.cid = CidOf[c]
      /\ f.length = LengthOf[c] /\ f.tagged /\ f.inContext
  BY <1>4, FrameTypes DEF EmittedFrame
<1>6. pendingRepairs[q] = Reference(f)
  BY <1>1, <1>4 DEF SessionInv, IInv, Consistent, PromisesKept, Reading
<1> HIDE DEF n
<1>7. /\ m.seq = q /\ m.repair = TRUE
      /\ m.frame.kind = "FULL" /\ m.frame.cid = f.cid
      /\ m.frame.length = LengthOf[c]
      /\ m.frame.offset = f.offset /\ m.frame.nonce = n
      /\ m.frame.tagged = f.tagged /\ m.frame.inContext = f.inContext
      /\ m.frame.payload = c
  BY <1>1, <1>3, <1>4, <1>5, RepairFields
<1> HIDE DEF f, c
<1>8. /\ pendingRepairs[q].cid = f.cid /\ pendingRepairs[q].length = f.length
      /\ pendingRepairs[q].offset = f.offset
  BY <1>6 DEF Reference
<1>9. Expected(m)
  BY <1>1, <1>5, <1>7, <1>8 DEF Expected
<1>10. ~ Replayed(seenNonces, WindowSize, n)
  BY <1>3, FreshNonce
<1>11. Verified(m)
  <2>1. ExpectedOffset(m) = f.offset
    BY <1>7, <1>8 DEF ExpectedOffset
  <2>2. m.frame.tagged /\ m.frame.inContext
    BY <1>5, <1>7
  <2> QED
    BY <1>7, <1>10, <2>1, <2>2, Zenon DEF Verified
<1>12. WellFormedFull(m.frame)
  <2>1. c # NoPayload
    BY <1>5, PayloadAssumption
  <2> QED
    BY <1>5, <1>7, <2>1, Zenon DEF WellFormedFull
<1>13. AcceptFull(Stream, m)
  BY <1>1, <1>2, <1>7, <1>9, <1>11, <1>12
  DEF Handle, HandleFrame, AcceptRef, AcceptMiss, RefHit, RefMiss,
      UnusableFrame, Usable, RefuseFrame, Hello, BadHello, EndRound,
      BadEndRound, Finish, BadFinish, Unknown, Undecodable
<1> QED
  BY <1>1, <1>7, <1>13 DEF m, q, n

\* What the server's reading of a repair leaves of the second round.
LEMMA RepairServed ==
    ASSUME SessionInv, ServerStep, phase[Stream] = "open", roundEnded,
           RepairAt(1)
    PROVE  SessionInv'
<1>1. PICK m, q, h :
         /\ m = toServer[1] /\ q = m.seq /\ h = seenNonces.highest
         /\ AcceptFull(Stream, m)
         /\ m.repair = TRUE /\ q \in DOMAIN pendingRepairs
         /\ m.frame.nonce = h + 1
  BY RepairAccepted
<1>2. /\ UNCHANGED <<target, expectedFrameCount, roundEnded, phase, replies,
                     nextInitialSeq, nextInitialOffset, promised>>
      /\ pendingRepairs' = Drop(pendingRepairs, q)
      /\ counts' = [counts EXCEPT ![Stream]["repair"] = @ + 1]
      /\ seenNonces' = Remember(seenNonces, WindowSize, h + 1)
  BY <1>1 DEF AcceptFull, session, Stay, Silent, Advance, Count, FullOutcome,
              BurnNonce
<1>3. DOMAIN pendingRepairs' = DOMAIN pendingRepairs \ {q}
  BY <1>2, DropFacts
<1>4. h \in Nat /\ Len(toServer) \in Nat /\ h = seenNonces.highest
  BY <1>1, ServerTypes
<1>5. /\ seenNonces'.highest = h + 1
      /\ \A k \in seenNonces'.seen : k <= h + 1
  <2>1. h + 1 \in Nat /\ h + 1 > seenNonces.highest
    BY <1>4
  <2> QED
    BY <1>2, <2>1, FreshNonce
<1>6. /\ IInv' /\ pc # "encode" /\ UNCHANGED <<client, link>>
      /\ toServer' \in Seq(MessageType) /\ link \in {"up", "failed", "idle"}
      /\ Len(toServer) \in Nat \ {0} /\ Len(toServer') = Len(toServer) - 1
      /\ \A j \in 1 .. Len(toServer') :
            toServer'[j] = toServer[j + 1] /\ j + 1 \in 1 .. Len(toServer)
  BY Served
<1>7. /\ SessionTypeOK' /\ Emission' /\ Quiet'
      /\ UNCHANGED <<warm, encoders, frames, pc, sent, toRepair, nextNonce,
                     repaired, stats>>
      /\ UNCHANGED Repairable
  BY <1>2, <1>6, ServerInvariant
<1>8. Reading'
  <2>1. nextInitialSeq = 0 => nextInitialOffset = 0
    BY DEF SessionInv, Reading
  <2> QED
    BY <1>2, <1>5, <1>7, <2>1 DEF SessionInv, Reading
<1>9. FirstRound'
  BY <1>2 DEF FirstRound
<1>10. /\ Len(replies[Stream]) = 1 /\ replies[Stream][1].t = "MISSING"
       /\ \A j \in 1 .. Len(toServer) :
             RepairAt(j) \/ (FinishAt(j) /\ j = Len(toServer))
       /\ \A i, j \in 1 .. Len(toServer) :
             RepairAt(i) /\ RepairAt(j) /\ toServer[i].seq = toServer[j].seq
                 => i = j
       /\ \A j \in 1 .. Len(toServer) : FinishAt(j) =>
             \A p \in DOMAIN pendingRepairs :
                 \E i \in 1 .. Len(toServer) : RepairAt(i) /\ toServer[i].seq = p
  BY DEF SessionInv, SecondRound
<1>11. 1 \in 1 .. Len(toServer) /\ toServer[1].seq = q
  BY <1>1, <1>6
<1>12. ASSUME NEW j \in 1 .. Len(toServer'), RepairAt(j + 1)
       PROVE  RepairAt(j)' /\ toServer'[j].seq = toServer[j + 1].seq
                           /\ toServer'[j].seq # q
  <2>1. toServer'[j] = toServer[j + 1] /\ j + 1 \in 1 .. Len(toServer) /\ j + 1 # 1
    BY <1>6
  <2>2. toServer[j + 1].seq # q
    BY <1>10, <1>11, <1>12, <2>1
  <2> DEFINE p == toServer[j + 1].seq
  <2>3. /\ toServer[j + 1].t = "FRAME" /\ p \in DOMAIN pendingRepairs
        /\ toServer[j + 1] = RepairMessage(p, h + (j + 1))
    BY <1>4, <1>12 DEF RepairAt
  <2>4. h + (j + 1) = seenNonces'.highest + j
    BY <1>4, <1>5
  <2>5. RepairMessage(toServer[j]'.seq, seenNonces'.highest + j)
          = RepairMessage(p, h + (j + 1))
    BY <2>1, <2>4
  <2>6. RepairMessage(toServer[j].seq, seenNonces.highest + j)'
          = RepairMessage(toServer[j]'.seq, seenNonces'.highest + j)
    BY <1>2, <1>7 DEF RepairMessage, FrameMessage
  <2> HIDE DEF p
  <2>7. RepairAt(j)'
    BY <1>3, <2>1, <2>2, <2>3, <2>5, <2>6 DEF RepairAt, p
  <2> QED
    BY <2>1, <2>2, <2>7
<1>13. ASSUME NEW j \in 1 .. Len(toServer'), FinishAt(j + 1)
       PROVE  FinishAt(j)' /\ ~ RepairAt(j)'
  BY <1>6, <1>13 DEF FinishAt, RepairAt
<1>14. ASSUME NEW p \in DOMAIN pendingRepairs',
              \E i \in 1 .. Len(toServer) : RepairAt(i) /\ toServer[i].seq = p
       PROVE  \E i \in 1 .. Len(toServer') : RepairAt(i)' /\ toServer'[i].seq = p
  <2>1. PICK i \in 1 .. Len(toServer) : RepairAt(i) /\ toServer[i].seq = p
    BY <1>14
  <2>2. i # 1
    BY <1>3, <1>11, <2>1
  <2>3. i - 1 \in 1 .. Len(toServer') /\ (i - 1) + 1 = i
    BY <1>6, <2>2
  <2> QED
    BY <1>12, <2>1, <2>3
<1>15. SecondRound'
  <2>1. ASSUME NEW j \in 1 .. Len(toServer')
        PROVE  \/ RepairAt(j)' /\ RepairAt(j + 1)
               \/ FinishAt(j)' /\ ~ RepairAt(j)' /\ FinishAt(j + 1)
                               /\ j = Len(toServer')
    <3>1. j + 1 \in 1 .. Len(toServer)
      BY <1>6
    <3>2. CASE RepairAt(j + 1)
      BY <1>12, <3>2
    <3>3. CASE FinishAt(j + 1) /\ j + 1 = Len(toServer)
      <4>1. j = Len(toServer')
        BY <1>6, <3>3
      <4> QED
        BY <1>13, <3>3, <4>1
    <3> QED
      BY <1>10, <3>1, <3>2, <3>3
  <2>2. ASSUME NEW i \in 1 .. Len(toServer'), NEW j \in 1 .. Len(toServer'),
               RepairAt(i)', RepairAt(j)', toServer'[i].seq = toServer'[j].seq
        PROVE  i = j
    <3>1. /\ RepairAt(i + 1) /\ RepairAt(j + 1)
          /\ i + 1 \in 1 .. Len(toServer) /\ j + 1 \in 1 .. Len(toServer)
      BY <1>6, <2>1, <2>2
    <3>2. toServer[i + 1].seq = toServer[j + 1].seq
      BY <1>12, <2>2, <3>1
    <3>3. i + 1 = j + 1
      BY <1>10, <3>1, <3>2
    <3> QED
      BY <3>3
  <2>3. ASSUME NEW j \in 1 .. Len(toServer'), FinishAt(j)',
               NEW p \in DOMAIN pendingRepairs'
        PROVE  \E i \in 1 .. Len(toServer') : RepairAt(i)' /\ toServer'[i].seq = p
    <3>1. FinishAt(j + 1) /\ j + 1 \in 1 .. Len(toServer)
      <4>1. ~ RepairAt(j)'
        BY <2>3 DEF FinishAt, RepairAt
      <4> QED
        BY <1>6, <2>1, <4>1
    <3>2. p \in DOMAIN pendingRepairs
      BY <1>3
    <3> QED
      BY <1>10, <1>14, <3>1, <3>2
  <2>4. ASSUME NEW j \in 1 .. Len(toServer')
        PROVE  RepairAt(j)' \/ (FinishAt(j)' /\ j = Len(toServer'))
    BY <2>1
  <2> QED
    BY <1>2, <1>10, <2>2, <2>3, <2>4 DEF SecondRound
<1>16. Following'
  <2> SUFFICES ASSUME link = "up" PROVE Following'
    BY <1>6 DEF Following
  <2>1. /\ pc \in {"missing", "repair", "stats", "aborted"}
        /\ pc = "missing" => toServer = <<>>
        /\ pc = "repair" =>
              /\ nextNonce = seenNonces.highest + Len(toServer) + 1
              /\ toRepair \subseteq DOMAIN pendingRepairs
              /\ \A j \in 1 .. Len(toServer) :
                    RepairAt(j) /\ toServer[j].seq \notin toRepair
              /\ \A p \in DOMAIN pendingRepairs \ toRepair :
                  \E i \in 1 .. Len(toServer) : RepairAt(i) /\ toServer[i].seq = p
    BY DEF SessionInv, Following
  <2>2. pc # "missing"
    BY <2>1, Served
  <2> SUFFICES ASSUME pc = "repair" PROVE Following'
    BY <1>2, <1>7, <2>1, <2>2 DEF Following
  <2>3. nextNonce' = seenNonces'.highest + Len(toServer') + 1
    BY <1>4, <1>5, <1>6, <1>7, <2>1
  <2>4. toRepair \subseteq DOMAIN pendingRepairs'
    BY <1>3, <1>11, <2>1
  <2>5. ASSUME NEW j \in 1 .. Len(toServer')
        PROVE  RepairAt(j)' /\ toServer'[j].seq \notin toRepair
    BY <1>6, <1>12, <2>1
  <2>6. ASSUME NEW p \in DOMAIN pendingRepairs' \ toRepair
        PROVE  \E i \in 1 .. Len(toServer') : RepairAt(i)' /\ toServer'[i].seq = p
    BY <1>3, <1>14, <2>1
  <2> QED
    BY <1>2, <1>7, <2>3, <2>4, <2>5, <2>6 DEF Following
<1>17. /\ counts'[Stream]["full"] = counts[Stream]["full"]
       /\ counts'[Stream]["ref"] = counts[Stream]["ref"]
       /\ counts'[Stream]["miss"] = counts[Stream]["miss"]
       /\ counts'[Stream]["repair"] = counts[Stream]["repair"] + 1
       /\ counts[Stream]["repair"] \in Nat
  BY <1>2, ServerTypes DEF Outcomes
<1>18. Answers' /\ Repairs'
  BY <1>2, <1>3, <1>7, <1>10, <1>17 DEF SessionInv, Answers, Repairs
<1>19. Tally'
  <2>1. /\ IsFiniteSet(DOMAIN pendingRepairs)
        /\ counts[Stream]["miss"]
             = counts[Stream]["repair"] + Cardinality(DOMAIN pendingRepairs)
    BY DEF SessionInv, Tally
  <2>2. /\ IsFiniteSet(DOMAIN pendingRepairs')
        /\ Cardinality(DOMAIN pendingRepairs')
             = Cardinality(DOMAIN pendingRepairs) - 1
        /\ Cardinality(DOMAIN pendingRepairs) \in Nat
    BY <1>1, <1>3, <2>1, FS_RemoveElement, FS_CardinalityType
  <2>3. counts'[Stream]["miss"]
          = counts'[Stream]["repair"] + Cardinality(DOMAIN pendingRepairs')
    BY <1>17, <2>1, <2>2
  <2>4. FullsRead' = FullsRead /\ RefsRead' = RefsRead
    BY <1>2, <1>7 DEF FullsRead, RefsRead
  <2> QED
    BY <1>2, <1>7, <1>17, <2>2, <2>3, <2>4 DEF SessionInv, Tally
<1> QED
  BY <1>6, <1>7, <1>8, <1>9, <1>15, <1>16, <1>18, <1>19 DEF SessionInv

\* FINISH comes when all is there, and the verdict is that the input is.
LEMMA FinishServed ==
    ASSUME SessionInv, ServerStep, phase[Stream] = "open", roundEnded,
           FinishAt(1), Len(toServer) = 1
    PROVE  SessionInv'
<1> DEFINE m == toServer[1]
           n == Len(frames)
           r == [t |-> "STATS", ok |-> Output = target, counts |-> counts[Stream]]
<1>1. /\ m.t = "FINISH" /\ expectedFrameCount = n /\ nextInitialSeq = n
      /\ n \in Nat
  BY FrameTypes DEF FinishAt, SessionInv, Reading
<1>2. /\ Handle(Stream, m) /\ IInv' /\ pc # "encode" /\ UNCHANGED <<client, link>>
      /\ toServer' \in Seq(MessageType) /\ link \in {"up", "failed", "idle"}
  BY Served
<1>3. DOMAIN pendingRepairs = {}
  <2> SUFFICES ASSUME NEW q \in DOMAIN pendingRepairs PROVE FALSE
    OBVIOUS
  <2>1. PICK i \in 1 .. Len(toServer) : RepairAt(i)
    BY DEF SessionInv, SecondRound
  <2>2. i = 1
    BY <2>1
  <2> QED
    BY <2>1, <2>2 DEF RepairAt, FinishAt
<1>4. DOMAIN delivered = 0 .. n - 1
  BY <1>1, <1>3 DEF SessionInv, IInv, Consistent, CursorPartition
<1>5. Output = target
  <2>1. /\ target \in Seq(Chunks) /\ n = Len(target)
    BY <1>2, InputsAssumption DEF SessionInv, IInv, TypeOK, Emission
  <2>2. ASSUME NEW i \in 1 .. n PROVE delivered[i - 1] = target[i]
    <3>1. i - 1 \in DOMAIN delivered /\ (i - 1) + 1 = i
      BY <1>1, <1>4
    <3> QED
      BY <3>1, DeliveredRight
  <2>3. target = [i \in 1 .. n |-> target[i]]
    BY <2>1
  <2>4. Output = [i \in 1 .. n |-> delivered[i - 1]]
    BY <1>1 DEF Output
  <2> HIDE DEF n
  <2> QED
    BY <2>2, <2>3, <2>4
<1> HIDE DEF m, n
<1>6. Finish(Stream, m)
  <2>1. Finishable
    BY <1>1, <1>3, <1>4 DEF Finishable
  <2> QED
    BY <1>1, <1>2, <2>1
    DEF Handle, HandleFrame, AcceptFull, AcceptRef, AcceptMiss, UnusableFrame,
        RefuseFrame, Admitted, Hello, BadHello, EndRound, BadEndRound,
        BadFinish, Unknown, Undecodable
<1>7. /\ UNCHANGED <<target, expectedFrameCount, dictionary, delivered,
                     nextInitialSeq, nextInitialOffset, pendingRepairs,
                     roundEnded, seenNonces, counts, promised>>
      /\ Send(Stream, r) /\ Return(Stream)
  BY <1>6 DEF Finish, session, reconstruction
<1>8. /\ SessionTypeOK' /\ Emission' /\ Quiet'
      /\ UNCHANGED <<warm, encoders, frames, pc, sent, toRepair, nextNonce,
                     repaired, stats>>
      /\ UNCHANGED Repairable
      /\ Len(frames) = Len(target)
  BY <1>2, <1>7, ServerInvariant
<1>9. /\ phase \in [Streams -> {"hello", "open", "closed"}] /\ Stream \in Streams
      /\ replies \in [Streams -> Seq(Replies)]
      /\ counts[Stream] \in [Outcomes -> Nat]
  BY ServerTypes
<1>10. phase'[Stream] = "closed"
  BY <1>7, <1>9 DEF Return
<1>11. Len(replies[Stream]) = 1 /\ replies[Stream][1].t = "MISSING"
  BY DEF SessionInv, SecondRound
<1>12. r \in Replies /\ r.t = "STATS" /\ r.ok /\ r.counts = counts[Stream]
  BY <1>5, <1>9 DEF Replies
<1> HIDE DEF r
<1>13. /\ Len(replies'[Stream]) = 2
       /\ replies'[Stream][1] = replies[Stream][1]
       /\ replies'[Stream][2] = r
  <2>1. /\ Len(replies'[Stream]) = Len(replies[Stream]) + 1
        /\ \A i \in 1 .. Len(replies[Stream]) : replies'[Stream][i] = replies[Stream][i]
        /\ replies'[Stream][Len(replies[Stream]) + 1] = r
    BY <1>7, <1>9, <1>12, SendFacts
  <2> QED
    BY <1>11, <2>1
<1>14. Reading'
  BY <1>7, <1>8, <1>10 DEF SessionInv, Reading
<1>15. FirstRound' /\ SecondRound' /\ Following'
  BY <1>10 DEF FirstRound, SecondRound, Following
<1>16. Answers'
  <2>1. /\ roundEnded /\ replies[Stream][1].items \subseteq Repairable
        /\ IsFiniteSet(replies[Stream][1].items)
        /\ Cardinality(replies[Stream][1].items) = counts[Stream]["miss"]
        /\ pc \notin {"closing", "done"}
    BY <1>11 DEF SessionInv, Answers
  <2>2. nextInitialSeq = Len(target)
    BY <1>1, <1>8 DEF n
  <2> QED
    BY <1>3, <1>7, <1>8, <1>10, <1>11, <1>12, <1>13, <2>1, <2>2 DEF Answers
<1>17. Repairs' /\ Tally'
  <2>1. FullsRead' = FullsRead /\ RefsRead' = RefsRead
    BY <1>7, <1>8 DEF FullsRead, RefsRead
  <2> QED
    BY <1>7, <1>8, <2>1 DEF SessionInv, Repairs, Tally
<1> QED
  BY <1>2, <1>8, <1>14, <1>15, <1>16, <1>17 DEF SessionInv

\* Whatever the server reads it expects.
LEMMA ServerStepInvariant ==
    ASSUME SessionInv, ServerStep
    PROVE  SessionInv'
<1>1. /\ phase[Stream] \in {"hello", "open"} /\ Len(toServer) \in Nat \ {0}
      /\ roundEnded \in BOOLEAN /\ nextInitialSeq \in Nat /\ Len(frames) \in Nat
  BY Served, ServerTypes, FrameTypes
<1>2. CASE phase[Stream] = "hello"
  BY <1>2, HelloServed
<1>3. CASE phase[Stream] = "open" /\ ~ roundEnded
  BY <1>1, <1>3, FrameServed, EndServed
<1>4. CASE phase[Stream] = "open" /\ roundEnded
  <2>1. 1 \in 1 .. Len(toServer)
    BY <1>1
  <2>2. RepairAt(1) \/ (FinishAt(1) /\ Len(toServer) = 1)
    BY <1>4, <2>1 DEF SessionInv, SecondRound
  <2> QED
    BY <1>4, <2>2, RepairServed, FinishServed
<1> QED
  BY <1>1, <1>2, <1>3, <1>4

-----------------------------------------------------------------------------
(* The connection.                                                         *)

\* The server's task ends with the connection.
LEMMA ServerEndInvariant ==
    ASSUME SessionInv, ServerEnd
    PROVE  SessionInv'
<1>1. /\ link # "up" /\ Abandon(Stream) /\ UNCHANGED <<client, toServer, link>>
      /\ Stream \in Streams /\ toServer \in Seq(MessageType)
      /\ phase \in [Streams -> {"hello", "open", "closed"}]
  BY ServerTypes DEF ServerEnd, Gone
<1>2. IInv'
  BY <1>1, AbandonInvariant DEF SessionInv
<1>3. /\ UNCHANGED <<target, expectedFrameCount, dictionary, delivered,
                     nextInitialSeq, nextInitialOffset, pendingRepairs,
                     roundEnded, seenNonces, counts, promised, replies>>
      /\ phase'[Stream] = "closed"
  BY <1>1 DEF Abandon, session, reconstruction, Silent, Return
<1>4. pc # "encode" /\ link \in {"up", "failed", "idle"}
  BY <1>1 DEF SessionInv, Quiet, SessionTypeOK
<1>5. /\ SessionTypeOK' /\ Emission' /\ Quiet'
      /\ UNCHANGED <<warm, encoders, frames, pc, sent, toRepair, nextNonce,
                     repaired, stats>>
      /\ UNCHANGED Repairable
  BY <1>1, <1>2, <1>3, <1>4, ServerInvariant
<1>6. FirstRound' /\ SecondRound' /\ Following'
  BY <1>3 DEF FirstRound, SecondRound, Following
<1>7. Reading'
  BY <1>3, <1>5 DEF SessionInv, Reading
<1>8. Answers'
  BY <1>3, <1>5 DEF SessionInv, Answers
<1>9. Repairs' /\ Tally'
  <2>1. FullsRead' = FullsRead /\ RefsRead' = RefsRead
    BY <1>3, <1>5 DEF FullsRead, RefsRead
  <2> QED
    BY <1>3, <1>5, <2>1 DEF SessionInv, Repairs, Tally
<1> QED
  BY <1>2, <1>5, <1>6, <1>7, <1>8, <1>9 DEF SessionInv

\* Of what was on its way a beginning may still arrive, and no more follows.
LEMMA LinkInvariant ==
    ASSUME SessionInv, UNCHANGED <<server, client>>, pc # "encode",
           link' \in {"failed", "idle"}, NEW n \in 0 .. Len(toServer),
           toServer' = SubSeq(toServer, 1, n)
    PROVE  SessionInv'
<1>1. UNCHANGED <<target, dictionary, delivered, seenNonces,
                  expectedFrameCount, nextInitialSeq, nextInitialOffset,
                  pendingRepairs, roundEnded, phase, counts, replies, promised>>
  BY DEF server, vars, reconstruction, session
<1>2. IInv'
  BY StutterInvariant DEF SessionInv, server
<1>3. /\ n \in Nat /\ Len(toServer) \in Nat /\ n <= Len(toServer)
      /\ toServer \in Seq(MessageType)
      /\ \A i \in 1 .. n : i \in 1 .. Len(toServer)
  BY ServerTypes
<1>4. /\ toServer' \in Seq(MessageType) /\ Len(toServer') = n
      /\ \A i \in 1 .. n : toServer'[i] = toServer[i]
  <2>1. \A i \in 1 .. n : toServer[i] \in MessageType
    BY <1>3, ElementOfSeq
  <2>2. /\ toServer' \in Seq(MessageType)
        /\ Len(toServer') = IF 1 <= n THEN n - 1 + 1 ELSE 0
        /\ \A i \in 1 .. n - 1 + 1 : toServer'[i] = toServer[1 + i - 1]
    BY <1>3, <2>1, SubSeqProperties
  <2>3. n - 1 + 1 = n /\ \A i \in 1 .. n : 1 + i - 1 = i
    BY <1>3
  <2>4. Len(toServer') = n
    BY <1>3, <2>2
  <2> QED
    BY <2>2, <2>3, <2>4
<1>5. /\ SessionTypeOK' /\ Emission' /\ Quiet'
      /\ UNCHANGED <<warm, encoders, frames, pc, sent, toRepair, nextNonce,
                     repaired, stats>>
      /\ UNCHANGED Repairable
      /\ \A i : RoundMessage(i)' = RoundMessage(i)
  BY <1>1, <1>2, <1>4, ServerInvariant
<1>6. UNCHANGED <<Taken, FullsRead, RefsRead>> /\ Taken \in Nat
  BY <1>1, <1>5, ServerTypes DEF Taken, FullsRead, RefsRead
<1>7. Reading' /\ Answers' /\ Repairs' /\ Tally'
  BY <1>1, <1>5, <1>6 DEF SessionInv, Reading, Answers, Repairs, Tally
<1>8. Following'
  BY DEF Following
<1>9. FirstRound'
  <2> SUFFICES ASSUME phase[Stream] # "closed", ~ roundEnded PROVE FirstRound'
    BY <1>1 DEF FirstRound
  <2>1. /\ replies[Stream] = <<>> /\ Taken + Len(toServer) <= Len(frames) + 2
        /\ \A j \in 1 .. Len(toServer) : toServer[j] = RoundMessage(Taken + j)
    BY DEF SessionInv, FirstRound
  <2>2. Taken + n <= Len(frames) + 2
    BY <1>3, <1>6, <2>1, FrameTypes
  <2>3. ASSUME NEW j \in 1 .. Len(toServer') PROVE toServer'[j] = RoundMessage(Taken + j)'
    BY <1>3, <1>4, <1>5, <1>6, <2>1
  <2> QED
    BY <1>1, <1>4, <1>5, <1>6, <2>1, <2>2, <2>3 DEF FirstRound
<1>10. SecondRound'
  <2> SUFFICES ASSUME phase[Stream] = "open", roundEnded PROVE SecondRound'
    BY <1>1 DEF SecondRound
  <2>1. ASSUME NEW j \in 1 .. n
        PROVE  /\ RepairAt(j)' <=> RepairAt(j)
               /\ FinishAt(j)' <=> FinishAt(j)
    BY <1>1, <1>4, <1>5, PlaceStays
  <2>2. ASSUME NEW j \in 1 .. n, FinishAt(j) PROVE j = n /\ n = Len(toServer)
    <3>1. ~ RepairAt(j)
      BY <2>2 DEF RepairAt, FinishAt
    <3>2. j = Len(toServer)
      BY <1>3, <3>1 DEF SessionInv, SecondRound
    <3> QED
      BY <1>3, <3>2
  <2>3. ASSUME NEW j \in 1 .. n PROVE RepairAt(j)' \/ (FinishAt(j)' /\ j = n)
    BY <1>3, <2>1, <2>2 DEF SessionInv, SecondRound
  <2>4. ASSUME NEW i \in 1 .. n, NEW j \in 1 .. n, RepairAt(i)', RepairAt(j)',
               toServer'[i].seq = toServer'[j].seq
        PROVE  i = j
    BY <1>3, <1>4, <2>1, <2>4 DEF SessionInv, SecondRound
  <2>5. ASSUME NEW j \in 1 .. n, FinishAt(j)', NEW q \in DOMAIN pendingRepairs
        PROVE  \E i \in 1 .. n : RepairAt(i)' /\ toServer'[i].seq = q
    <3>1. FinishAt(j) /\ n = Len(toServer)
      BY <2>1, <2>2, <2>5
    <3>2. PICK i \in 1 .. n : RepairAt(i) /\ toServer[i].seq = q
      BY <3>1 DEF SessionInv, SecondRound
    <3> QED
      BY <1>4, <2>1, <3>2
  <2> QED
    BY <1>1, <1>4, <2>3, <2>4, <2>5 DEF SessionInv, SecondRound
<1> QED
  BY <1>2, <1>5, <1>7, <1>8, <1>9, <1>10 DEF SessionInv

\* A connection that is closed for being idle delivers all.
LEMMA IdleInvariant ==
    ASSUME SessionInv, IdleTimeout
    PROVE  SessionInv'
<1>1. /\ UNCHANGED <<server, client, toServer>> /\ pc # "encode"
      /\ link' \in {"failed", "idle"}
  BY DEF IdleTimeout
<1>2. toServer \in Seq(MessageType) /\ Len(toServer) \in Nat
  BY ServerTypes
<1>3. toServer' = SubSeq(toServer, 1, Len(toServer))
  BY <1>1, <1>2
<1> QED
  BY <1>1, <1>2, <1>3, LinkInvariant

\* Nothing happens.
LEMMA SessionStutters ==
    ASSUME SessionInv, UNCHANGED sessionVars
    PROVE  SessionInv'
<1>1. UNCHANGED <<target, dictionary, delivered, seenNonces,
                  expectedFrameCount, nextInitialSeq, nextInitialOffset,
                  pendingRepairs, roundEnded, phase, counts, replies, promised,
                  warm, encoders, frames, pc, sent, toRepair, nextNonce,
                  repaired, stats, toServer, link>>
  BY DEF sessionVars, server, client, vars, reconstruction, session
<1>2. IInv'
  BY StutterInvariant DEF SessionInv, sessionVars, server
<1>3. SessionTypeOK'
  BY <1>1, <1>2 DEF SessionInv, SessionTypeOK, IInv
<1>4. Emission' /\ Quiet' /\ Reading'
  BY <1>1 DEF SessionInv, Emission, EmittedFrame, Quiet, Reading
<1>5. ASSUME NEW i PROVE RoundMessage(i)' = RoundMessage(i)
  BY <1>1 DEF RoundMessage, FrameMessage
<1>6. UNCHANGED <<Taken, Offered, Repairable, FullsRead, RefsRead>>
  BY <1>1 DEF Taken, Offered, Repairable, FullsRead, RefsRead
<1>7. FirstRound'
  BY <1>1, <1>5, <1>6 DEF SessionInv, FirstRound
<1>8. SecondRound'
  BY <1>1, SecondRoundStays DEF SessionInv
<1>9. Following'
  <2>1. ASSUME NEW j PROVE RepairAt(j)' <=> RepairAt(j)
    BY <1>1, PlaceStays
  <2> QED
    BY <1>1, <2>1 DEF SessionInv, Following
<1>10. Answers' /\ Repairs' /\ Tally'
  BY <1>1, <1>6 DEF SessionInv, Answers, Repairs, Tally
<1> QED
  BY <1>2, <1>3, <1>4, <1>7, <1>8, <1>9, <1>10 DEF SessionInv

\* Any step of either end or of the connection keeps the invariant.
LEMMA SessionStepInvariant ==
    ASSUME SessionInv, [SessionNext]_sessionVars
    PROVE  SessionInv'
<1>1. CASE ConnectionLost
  <2>1. PICK n \in 0 .. Len(toServer) : toServer' = SubSeq(toServer, 1, n)
    BY <1>1 DEF ConnectionLost
  <2> QED
    BY <1>1, <2>1, LinkInvariant DEF ConnectionLost
<1> QED
  BY <1>1, ClientStepInvariant, ServerStepInvariant, ServerEndInvariant,
     IdleInvariant, SessionStutters DEF SessionNext


\* The two ends keep in step whatever the input, the dictionaries and the loss.
THEOREM SessionInvariant == SessionSpec => []SessionInv
BY SessionInitInvariant, SessionStepInvariant, PTL DEF SessionSpec

\* Every reachable state of client, server and stream is type correct.
THEOREM SessionTypeCorrect == SessionSpec => []SessionTypeOK
BY SessionInvariant, PTL DEF SessionInv

-----------------------------------------------------------------------------
(* What the invariant says of a run.                                       *)

\* The misses are the frames the invariant says can be repaired.
LEMMA MissesRepairable ==
    ASSUME SessionInv
    PROVE  EveryMissRepairable
<1>1. ASSUME NEW q \in DOMAIN pendingRepairs
      PROVE  pendingRepairs[q].cid \in Keys(warm)
  <2>1. q \in Repairable /\ q \in DOMAIN promised
    BY ServerTypes DEF SessionInv, Repairs
  <2>2. pendingRepairs[q] = promised[q] /\ promised[q] = Reference(frames[q + 1])
    BY <2>1 DEF SessionInv, IInv, Consistent, PromisesKept, Reading
  <2> QED
    BY <2>1, <2>2 DEF Repairable, Reference
<1>2. ASSUME NEW q \in toRepair
      PROVE  frames[q + 1].cid \in Keys(warm)
  BY DEF SessionInv, Repairs, Repairable
<1> QED
  BY <1>1, <1>2 DEF EveryMissRepairable

\* A chunk the receiver lost is one the sender still has: the client of
\* run_async never raises "sender has no repair payload".
THEOREM MissesAreRepairable == SessionSpec => []EveryMissRepairable
BY SessionInvariant, MissesRepairable, PTL

\* What the server answers is MISSING and STATS, if the input is not too long.
LEMMA AnswersAccepted ==
    ASSUME SessionInv
    PROVE  NeverRejected
<1> SUFFICES ASSUME Len(target) <= MaxFrameCount,
                    NEW i \in DOMAIN replies[Stream]
             PROVE  replies[Stream][i].t # "ERROR"
  BY DEF NeverRejected
<1>1. /\ replies[Stream] \in Seq(Replies) /\ Len(replies[Stream]) \in Nat
      /\ Len(target) \in Nat
  BY ServerTypes, FrameTypes
<1>2. i \in 1 .. Len(replies[Stream])
  BY <1>1, LenProperties
<1>3. ~ (Len(target) > MaxFrameCount)
  BY <1>1, LimitAssumption
<1>4. /\ Len(replies[Stream]) <= 2
      /\ Len(replies[Stream]) >= 1 => replies[Stream][1].t = "MISSING"
      /\ Len(replies[Stream]) = 2 => replies[Stream][2].t = "STATS"
  BY <1>3 DEF SessionInv, Answers
<1>5. i = 1 \/ (i = 2 /\ Len(replies[Stream]) = 2)
  <2>1. PICK n : n = Len(replies[Stream])
    OBVIOUS
  <2>2. n \in Nat /\ n <= 2 /\ i \in 1 .. n
    BY <1>1, <1>2, <1>4, <2>1
  <2>3. i = 1 \/ (i = 2 /\ n = 2)
    BY <2>2
  <2> QED
    BY <2>1, <2>3
<1> QED
  BY <1>1, <1>2, <1>4, <1>5

\* The client says nothing that accept_hello, accept_frame, END_ROUND or FINISH
\* refuses.
THEOREM ClientIsNeverRejected == SessionSpec => []NeverRejected
BY SessionInvariant, AnswersAccepted, PTL

\* At the end both ends have counted all the frames.
LEMMA CountsAgreed ==
    ASSUME SessionInv
    PROVE  VerdictAgrees
<1> SUFFICES ASSUME pc \in {"closing", "done"} PROVE VerdictAgrees
  BY DEF VerdictAgrees
<1>1. /\ stats = replies[Stream][2] /\ stats.ok
      /\ stats.counts = counts[Stream]
      /\ nextInitialSeq = Len(target) /\ DOMAIN pendingRepairs = {}
      /\ Len(frames) = Len(target)
  BY DEF SessionInv, Answers, Emission
<1>2. DOMAIN frames = 1 .. nextInitialSeq
  BY <1>1, FrameTypes
<1>3. FramesOfKind("FULL") = Cardinality(FullsRead)
  BY <1>2 DEF FramesOfKind, FullsRead
<1>4. FramesOfKind("REF") = Cardinality(RefsRead)
  BY <1>2 DEF FramesOfKind, RefsRead
<1>5. /\ counts[Stream]["full"] = Cardinality(FullsRead)
      /\ counts[Stream]["ref"] + counts[Stream]["miss"] = Cardinality(RefsRead)
      /\ counts[Stream]["miss"]
           = counts[Stream]["repair"] + Cardinality(DOMAIN pendingRepairs)
      /\ repaired = counts[Stream]["miss"]
  BY DEF SessionInv, Tally
<1>6. Cardinality(DOMAIN pendingRepairs) = 0
  BY <1>1, FS_EmptySet
<1>7. counts[Stream]["miss"] \in Nat /\ counts[Stream]["repair"] \in Nat
  BY ServerTypes DEF Outcomes
<1>8. counts[Stream]["repair"] = repaired
  BY <1>5, <1>6, <1>7
<1> QED
  BY <1>1, <1>3, <1>4, <1>5, <1>8 DEF VerdictAgrees

\* A client that has read STATS holds a matching digest, and the numbers of the report
\* agree with what it sent.
THEOREM VerdictsAgree == SessionSpec => []VerdictAgrees
BY SessionInvariant, CountsAgreed, PTL

-----------------------------------------------------------------------------
(* The session implements a reliable transfer.                             *)

\* What the receiver has, place by place.
LEMMA GotFacts ==
    ASSUME SessionInv
    PROVE  /\ DOMAIN delivered \subseteq Nat
           /\ \A i : i \in DOMAIN Got <=> i - 1 \in DOMAIN delivered /\ i \in Int
           /\ \A i \in DOMAIN Got : Got[i] = target[i]
           /\ Got = [i \in DOMAIN Got |-> target[i]]
<1>1. DOMAIN delivered \subseteq Nat
  BY DEF SessionInv, IInv, TypeOK
<1>2. \A q \in DOMAIN delivered : delivered[q] = target[q + 1]
  BY DeliveredRight
<1>3. Got = [j \in {q + 1 : q \in DOMAIN delivered} |-> delivered[j - 1]]
  BY DEF Got
<1>4. /\ \A i : i \in DOMAIN Got <=> i - 1 \in DOMAIN delivered /\ i \in Int
      /\ \A i \in DOMAIN Got : Got[i] = target[i]
  BY <1>1, <1>2, <1>3, ShiftFacts
<1>5. Got = [i \in DOMAIN Got |-> Got[i]]
  BY DEF Got
<1> QED
  BY <1>1, <1>4, <1>5

\* The same of every state, the next one too.
Placed ==
    /\ \A q \in DOMAIN delivered : q \in Nat /\ q + 1 \in 1 .. Len(frames)
    /\ \A i : i \in DOMAIN Got <=> i - 1 \in DOMAIN delivered /\ i \in Int
    /\ Got = [i \in DOMAIN Got |-> target[i]]

LEMMA AlwaysPlaced == SessionInv => Placed
BY GotFacts, DeliveredRight DEF Placed

\* When the server has sent STATS it has the whole input.
LEMMA GotAll ==
    ASSUME SessionInv, Len(replies[Stream]) = 2
    PROVE  Got = target
<1>1. /\ nextInitialSeq = Len(target) /\ DOMAIN pendingRepairs = {}
      /\ Len(target) \in Nat /\ DOMAIN target = 1 .. Len(target)
  BY FrameTypes DEF SessionInv, Answers
<1>2. DOMAIN delivered = 0 .. Len(target) - 1
  BY <1>1 DEF SessionInv, IInv, Consistent, CursorPartition
<1>3. DOMAIN Got = 1 .. Len(target)
  <2>1. ASSUME NEW i PROVE i \in DOMAIN Got <=> i \in 1 .. Len(target)
    BY <1>1, <1>2, GotFacts
  <2> QED
    BY <2>1
<1>4. target = [i \in 1 .. Len(target) |-> target[i]]
  <2>1. target \in Seq(Chunks)
    BY InputsAssumption DEF SessionInv, IInv, TypeOK
  <2> QED
    BY <2>1, LenProperties
<1> QED
  BY <1>3, <1>4, GotFacts

\* A step that delivers nothing and after which the client still runs, or has
\* ended as it had, is a stutter of the transfer.
LEMMA StutterRefines ==
    ASSUME UNCHANGED <<target, delivered>>,
           \/ pc' = pc
           \/ pc \notin {"done", "aborted"} /\ pc' \notin {"done", "aborted"}
    PROVE  UNCHANGED <<target, Got, Outcome>>
BY DEF Got, Outcome

\* An exception in the client is the failure of the transfer.
LEMMA AbortRefines ==
    ASSUME UNCHANGED <<target, delivered>>, pc \notin {"done", "aborted"},
           pc' = "aborted"
    PROVE  Transfer!Next
<1>1. Outcome = "running" /\ Outcome' = "failed" /\ UNCHANGED <<target, Got>>
  BY DEF Got, Outcome
<1> QED
  BY <1>1 DEF Transfer!Next, Transfer!Abort

\* A chunk the server accepts fills one free place of the input.
LEMMA DeliverRefines ==
    ASSUME SessionInv, SessionInv', NEW m \in MessageType,
           AcceptFull(Stream, m) \/ AcceptRef(Stream, m), UNCHANGED client
    PROVE  Transfer!Next
<1>0. PICK q, i : q = m.seq /\ i = q + 1
  OBVIOUS
<1>1. Admitted(Stream, m) /\ IInv /\ Stream \in Streams
  BY ServerTypes DEF AcceptFull, AcceptRef, SessionInv
<1>2. /\ q \notin DOMAIN delivered /\ UNCHANGED <<target, pc>>
      /\ DOMAIN delivered' = DOMAIN delivered \cup {q}
  <2>1. PICK c : delivered' = Put(delivered, m.seq, c)
    BY DEF AcceptFull, AcceptRef, Slot
  <2>2. m.seq \notin DOMAIN delivered
    BY <1>1, InitialAdmitted, RepairAdmitted
  <2> QED
    BY <1>0, <2>1, <2>2 DEF AcceptFull, AcceptRef, Put, session, client
<1>3. /\ \A p \in DOMAIN delivered' : p \in Nat /\ p + 1 \in 1 .. Len(frames')
      /\ \A j : j \in DOMAIN Got' <=> j - 1 \in DOMAIN delivered' /\ j \in Int
      /\ Got' = [j \in DOMAIN Got' |-> target'[j]]
  <2>1. Placed'
    BY AlwaysPlaced, PTL
  <2> QED
    BY <2>1 DEF Placed
<1>4. i \in DOMAIN target /\ i \in Int /\ i - 1 = q
  <2>1. /\ UNCHANGED frames /\ Len(frames) <= Len(target) /\ Len(target) \in Nat
        /\ Len(frames) \in Nat /\ DOMAIN target = 1 .. Len(target)
    BY FrameTypes DEF client
  <2> QED
    BY <1>0, <1>2, <1>3, <2>1
<1>5. i \notin DOMAIN Got
  BY <1>2, <1>4, GotFacts
<1>6. /\ \A j : j \in DOMAIN Got' <=> j - 1 \in DOMAIN delivered' /\ j \in Int
      /\ Got' = [j \in DOMAIN Got' |-> target[j]]
  BY <1>2, <1>3
<1>7. DOMAIN Got' = DOMAIN Got \cup {i}
  <2>1. ASSUME NEW j PROVE j \in DOMAIN Got' <=> j \in DOMAIN Got \cup {i}
    <3>1. j \in Int => (j - 1 = q <=> j = i)
      BY <1>4
    <3> QED
      BY <1>2, <1>4, <1>6, <3>1, GotFacts
  <2> QED
    BY <2>1
<1>8. Outcome' = Outcome
  BY <1>2 DEF Outcome
<1> QED
  BY <1>2, <1>4, <1>5, <1>6, <1>7, <1>8
  DEF Transfer!Next, Transfer!Deliver, Transfer!Filled

\* Every step of the session is a step of the transfer or a stutter.
LEMMA SessionStepRefines ==
    ASSUME SessionInv, SessionInv', [SessionNext]_sessionVars
    PROVE  [Transfer!Next]_<<target, Got, Outcome>>
<1>1. CASE ClientStep
  <2>1. UNCHANGED <<target, delivered>>
    BY <1>1 DEF ClientStep, Encode, SendHello, SendFrame, SendEndRound,
                ReadMissing, SendRepair, SendFinish, ReadStats, ReadFails, Close,
                server, vars, reconstruction, session
  <2>2. CASE Close
    <3>1. pc = "closing" /\ pc' \in {"done", "aborted"}
      BY <2>2 DEF Close
    <3>2. CASE pc' = "done"
      <4>1. Len(replies[Stream]) = 2
        BY <3>1 DEF SessionInv, Answers
      <4>2. Got = target /\ Outcome = "running" /\ Outcome' = "done"
        BY <3>1, <3>2, <4>1, GotAll DEF Outcome
      <4>3. UNCHANGED <<target, Got>>
        BY <2>1 DEF Got
      <4> QED
        BY <4>2, <4>3 DEF Transfer!Next, Transfer!Complete
    <3> QED
      BY <2>1, <3>1, <3>2, AbortRefines
  <2>3. CASE ~ Close
    <3>1. /\ pc \notin {"done", "aborted"} /\ pc' # "done"
      BY <1>1, <2>3 DEF ClientStep, Encode, SendHello, SendFrame, SendEndRound,
                        ReadMissing, SendRepair, SendFinish, ReadStats, ReadFails
    <3> QED
      BY <2>1, <3>1, AbortRefines, StutterRefines
  <2> QED
    BY <2>2, <2>3
<1>2. CASE ServerStep
  <2>1. /\ toServer # <<>> /\ toServer' = Tail(toServer)
        /\ Handle(Stream, Head(toServer)) /\ UNCHANGED client
    BY <1>2 DEF ServerStep
  <2>2. PICK m \in MessageType : Handle(Stream, m)
    BY <2>1, ReadFacts, ServerTypes
  <2>3. CASE AcceptFull(Stream, m) \/ AcceptRef(Stream, m)
    BY <2>1, <2>3, DeliverRefines
  <2>4. CASE ~ (AcceptFull(Stream, m) \/ AcceptRef(Stream, m))
    <3>1. UNCHANGED <<target, delivered>>
      BY <2>2, <2>4
      DEF Handle, HandleFrame, AcceptMiss, UnusableFrame, RefuseFrame, Hello,
          BadHello, EndRound, BadEndRound, Finish, BadFinish, Unknown,
          Undecodable, Abandon, reconstruction, session
    <3> QED
      BY <2>1, <3>1, StutterRefines DEF client
  <2> QED
    BY <2>3, <2>4
<1>3. CASE ServerEnd \/ ConnectionLost \/ IdleTimeout \/ UNCHANGED sessionVars
  <2>1. UNCHANGED <<target, delivered, pc>>
    BY <1>3 DEF ServerEnd, Abandon, ConnectionLost, IdleTimeout, sessionVars,
                server, client, vars, reconstruction, session
  <2> QED
    BY <2>1, StutterRefines
<1> QED
  BY <1>1, <1>2, <1>3 DEF SessionNext

\* Wherever the connection is lost, the receiver only ever gets the right
\* chunks, and run_async returns only when it has them all.
THEOREM SessionIsReliableTransfer == SessionSpec => ImplementsTransfer
<1>1. SessionInit => Transfer!Init
  <2> SUFFICES ASSUME SessionInit PROVE Transfer!Init
    OBVIOUS
  <2>1. delivered = <<>> /\ pc = "encode"
    BY DEF SessionInit, Init
  <2>2. {q + 1 : q \in DOMAIN delivered} = {}
    BY <2>1
  <2>3. Got = <<>> /\ Outcome = "running"
    BY <2>1, <2>2 DEF Got, Outcome
  <2> QED
    BY <2>3 DEF Transfer!Init
<1>2. SessionInv /\ SessionInv' /\ [SessionNext]_sessionVars
        => [Transfer!Next]_<<target, Got, Outcome>>
  BY SessionStepRefines
<1> QED
  BY <1>1, <1>2, SessionInvariant, PTL
  DEF SessionSpec, Transfer!Spec, ImplementsTransfer
=============================================================================
