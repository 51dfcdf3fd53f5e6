----------------------- MODULE SemanticRepairProofs -----------------------
(***************************************************************************)
(* Semantic repair for every input, dictionary bound, warm dictionary and  *)
(* thinning: a sender that follows its own FULL frames can repair every    *)
(* miss, no entry is missed twice while nothing need be evicted, and the   *)
(* run is a reliable transfer.                                             *)
(***************************************************************************)
EXTENDS SemanticRepair, EncodingProofs

-----------------------------------------------------------------------------
(* The inductive invariant.                                                *)

\* Frame i and what encode remembers of it.
FrameMade(i) ==
    /\ frames[i] = FrameOf(input[i], encoders[i])
    /\ encoders[i + 1] = Remembered(encoders[i], input[i])

EncodingRight ==
    /\ encoders[1] = warm
    /\ \A i \in 1 .. Len(encoders) : SoundDictionary(encoders[i], MaxDictChunks)
    /\ \A i \in 1 .. Len(frames) : FrameMade(i)

OutputRight == \A i \in 1 .. Len(output) : output[i] = input[i]

Phases ==
    /\ pc = "encode" => output = <<>>
    /\ pc # "encode" => Len(frames) = Len(input)
    /\ pc = "done" => Len(output) = Len(frames)

\* EveryMissRepaired needs that the sender has, at every frame, what its
\* encoder had.
RInv ==
    /\ RepairTypeOK
    /\ EncodingRight
    /\ SoundDictionary(sender, MaxDictChunks)
    /\ SoundDictionary(receiver, MaxDictChunks)
    /\ OutputRight
    /\ Phases
    /\ SenderFollowsEncoder
    /\ EveryMissRepaired

-----------------------------------------------------------------------------
(* The inductive step.                                                     *)

LEMMA InputElements ==
    ASSUME RInv
    PROVE  /\ input \in Seq(Chunks) /\ Len(input) \in Nat
           /\ \A i \in 1 .. Len(input) : input[i] \in Chunks
BY InputsAssumption, LenProperties, ElementOfSeq DEF RInv, RepairTypeOK

\* A dictionary thinned at random is still sound.
LEMMA RandomlyThinnedSound ==
    ASSUME NEW d, SoundDictionary(d, MaxDictChunks), NEW e \in RandomlyThinned(d)
    PROVE  SoundDictionary(e, MaxDictChunks)
<1>1. PICK P \in SUBSET DOMAIN d : e \in Kept(d, P)
  BY DEF RandomlyThinned
<1>2. MaxDictChunks \in Nat
  BY CapacityAssumption
<1> QED
  BY <1>1, <1>2, KeptSound

\* What the encoder remembers of a chunk leaves its dictionary sound.
LEMMA RememberedSound ==
    ASSUME NEW d, SoundDictionary(d, MaxDictChunks), NEW c \in Chunks
    PROVE  SoundDictionary(Remembered(d, c), MaxDictChunks)
<1>1. SoundDictionary(Touched(d, c), MaxDictChunks)
  BY TouchedSound
<1> QED
  BY <1>1 DEF Remembered, Touched

LEMMA InitInvariant ==
    ASSUME RepairInit
    PROVE  RInv
<1>1. SoundDictionary(warm, MaxDictChunks)
  BY WarmSound, CapacityAssumption DEF RepairInit
<1>2. SoundDictionary(thinned, MaxDictChunks)
  BY <1>1, RandomlyThinnedSound DEF RepairInit
<1>3. /\ encoders = <<warm>> /\ Len(encoders) = 1
      /\ encoders \in Seq(Seq(Entries))
  BY <1>1 DEF RepairInit, SoundDictionary
<1>4. /\ Len(frames) = 0 /\ Len(output) = 0
      /\ frames \in Seq(ModelFrames) /\ output \in Seq(Chunks)
  BY EmptySeq DEF RepairInit
<1>5. input \in Seq(Chunks) /\ Len(input) \in Nat
  BY InputsAssumption, LenProperties DEF RepairInit
<1>6. /\ warm \in Seq(Entries) /\ Len(warm) <= MaxDictChunks
      /\ thinned \in Seq(Entries) /\ Len(thinned) <= MaxDictChunks
  BY <1>1, <1>2 DEF SoundDictionary
<1>7. RepairTypeOK
  BY <1>3, <1>4, <1>5, <1>6 DEF RepairInit, RepairTypeOK
<1>8. EncodingRight
  <2>1. \A i \in 1 .. Len(encoders) : encoders[i] = warm
    BY <1>3
  <2> QED
    BY <1>1, <1>3, <1>4, <2>1 DEF EncodingRight
<1>9. OutputRight /\ Phases /\ EveryMissRepaired /\ SenderFollowsEncoder
  BY <1>3, <1>4 DEF RepairInit, OutputRight, Phases, EveryMissRepaired,
                    SenderFollowsEncoder
<1> QED
  BY <1>1, <1>2, <1>7, <1>8, <1>9 DEF RInv, RepairInit

LEMMA EncodeInvariant ==
    ASSUME RInv, EncodeChunk
    PROVE  RInv'
<1> DEFINE n == Len(frames)
           c == input[n + 1]
           d == encoders[n + 1]
           f == FrameOf(c, d)
           e == Remembered(d, c)
<1>1. /\ n \in Nat /\ n < Len(input) /\ Len(encoders) = n + 1
      /\ frames \in Seq(ModelFrames) /\ encoders \in Seq(Seq(Entries))
  BY LenProperties DEF RInv, RepairTypeOK, EncodeChunk
<1>2. c \in Chunks
  BY <1>1, InputElements
<1>3. SoundDictionary(d, MaxDictChunks) /\ SoundDictionary(e, MaxDictChunks)
  <2>1. SoundDictionary(d, MaxDictChunks)
    BY <1>1 DEF RInv, EncodingRight
  <2> QED
    BY <1>2, <2>1, RememberedSound
<1>4. f \in ModelFrames /\ e \in Seq(Entries)
  BY <1>2, <1>3 DEF FrameOf, ModelFrames, SoundDictionary
<1>5. frames' = Append(frames, f) /\ encoders' = Append(encoders, e)
  BY DEF EncodeChunk
<1>6. UNCHANGED <<input, warm, thinned, pc, sender, receiver, output, misses>>
      /\ pc = "encode"
  BY DEF EncodeChunk, given
<1>7. /\ frames' \in Seq(ModelFrames) /\ Len(frames') = n + 1
      /\ \A i \in 1 .. n : frames'[i] = frames[i]
      /\ frames'[n + 1] = f
  <2> HIDE DEF f
  <2> QED
    BY <1>1, <1>4, <1>5, Appended
<1>8. /\ encoders' \in Seq(Seq(Entries)) /\ Len(encoders') = n + 2
      /\ \A i \in 1 .. n + 1 : encoders'[i] = encoders[i]
      /\ encoders'[n + 2] = e
  <2> HIDE DEF e
  <2>1. /\ encoders' \in Seq(Seq(Entries)) /\ Len(encoders') = Len(encoders) + 1
        /\ \A i \in 1 .. Len(encoders) : encoders'[i] = encoders[i]
        /\ encoders'[Len(encoders) + 1] = e
    BY <1>1, <1>4, <1>5, Appended
  <2> QED
    BY <1>1, <2>1
<1>made. /\ f = FrameOf(input[n + 1], encoders[n + 1])
         /\ e = Remembered(encoders[n + 1], input[n + 1])
  OBVIOUS
<1>at. n = Len(frames) /\ Len(encoders) = n + 1 /\ n \in Nat
  BY <1>1
<1> HIDE DEF n, c, d, f, e
<1>9. Len(output) = 0 /\ output = <<>>
  BY <1>6 DEF RInv, Phases
<1>10. RepairTypeOK'
  <2>1. Len(frames') <= Len(input) /\ Len(encoders') = Len(frames') + 1
        /\ Len(output') <= Len(frames')
    BY <1>1, <1>6, <1>7, <1>8, <1>9, InputElements
  <2> QED
    BY <1>6, <1>7, <1>8, <2>1 DEF RInv, RepairTypeOK
<1>11. EncodingRight'
  <2>1. encoders'[1] = warm'
    BY <1>at, <1>6, <1>8 DEF RInv, EncodingRight
  <2>2. ASSUME NEW i \in 1 .. n + 2
        PROVE  SoundDictionary(encoders'[i], MaxDictChunks)
    <3>1. CASE i = n + 2
      BY <1>3, <1>8, <3>1
    <3>2. CASE i # n + 2
      <4>1. i \in 1 .. n + 1 /\ i \in 1 .. Len(encoders)
        BY <1>at, <3>2
      <4>2. encoders'[i] = encoders[i]
        BY <1>8, <4>1
      <4> QED
        BY <4>1, <4>2 DEF RInv, EncodingRight
    <3> QED
      BY <3>1, <3>2
  <2>3. ASSUME NEW i \in 1 .. n PROVE FrameMade(i)'
    <3>1. /\ i \in 1 .. n + 1 /\ i + 1 \in 1 .. n + 1
          /\ i \in 1 .. Len(frames)
      BY <1>at
    <3>2. /\ frames'[i] = frames[i] /\ encoders'[i] = encoders[i]
          /\ encoders'[i + 1] = encoders[i + 1]
      BY <1>7, <1>8, <3>1
    <3>3. FrameMade(i)
      BY <3>1 DEF RInv, EncodingRight
    <3> QED
      BY <1>6, <3>2, <3>3 DEF FrameMade
  <2>4. ASSUME NEW i \in 1 .. n + 1, i = n + 1 PROVE FrameMade(i)'
    <3>1. i + 1 = n + 2
      BY <1>at, <2>4
    <3>2. encoders'[i] = encoders[i]
      BY <1>8, <2>4
    <3>3. frames'[i] = FrameOf(input[i], encoders[i])
      BY <1>made, <1>7, <2>4
    <3>4. encoders'[i + 1] = Remembered(encoders[i], input[i])
      BY <1>made, <1>8, <2>4, <3>1
    <3> QED
      BY <1>6, <3>2, <3>3, <3>4 DEF FrameMade
  <2>5. ASSUME NEW i \in 1 .. n + 1 PROVE FrameMade(i)'
    <3>1. i \in 1 .. n \/ i = n + 1
      BY <1>at
    <3> QED
      BY <2>3, <2>4, <3>1
  <2> QED
    BY <1>7, <1>8, <2>1, <2>2, <2>5 DEF EncodingRight
<1>12. SenderFollowsEncoder'
  BY <1>at, <1>6, <1>8, <1>9 DEF RInv, SenderFollowsEncoder
<1>13. OutputRight' /\ Phases' /\ EveryMissRepaired'
       /\ SoundDictionary(sender', MaxDictChunks)
       /\ SoundDictionary(receiver', MaxDictChunks)
  BY <1>6 DEF RInv, OutputRight, Phases, EveryMissRepaired
<1> QED
  BY <1>10, <1>11, <1>12, <1>13 DEF RInv

\* What the loop works with.
LEMMA ProcessingFacts ==
    ASSUME RInv, NEW kind, Processing(kind)
    PROVE  /\ Len(output) \in Nat /\ Len(output) + 1 \in 1 .. Len(frames)
           /\ At.chunk = input[Len(output) + 1] /\ At.chunk \in Chunks
           /\ Len(frames) = Len(input)
           /\ At.kind = "REF" <=> CidOf[At.chunk] \in Keys(sender)
           /\ encoders[Len(output) + 2] = Remembered(sender, At.chunk)
<1> DEFINE n == Len(output)
<1>1. /\ n \in Nat /\ Len(frames) \in Nat
      /\ n < Len(frames) /\ Len(frames) = Len(input)
  BY LenProperties DEF RInv, RepairTypeOK, Phases, Processing
<1>2. n + 1 \in 1 .. Len(frames) /\ (n + 1) + 1 = n + 2
  BY <1>1
<1>3. FrameMade(n + 1) /\ sender = encoders[n + 1] /\ At = frames[n + 1]
  BY <1>2 DEF RInv, EncodingRight, SenderFollowsEncoder, At
<1>4. At = FrameOf(input[n + 1], sender)
      /\ encoders[n + 2] = Remembered(sender, input[n + 1])
  BY <1>2, <1>3 DEF FrameMade
<1>5. /\ At.chunk = input[n + 1]
      /\ At.kind = "REF" <=> CidOf[At.chunk] \in Keys(sender)
  BY <1>4 DEF FrameOf
<1> QED
  BY <1>1, <1>2, <1>4, <1>5, InputElements

\* A turn of the loop that puts the right chunk out while the sender follows
\* the encoder.
LEMMA ProcessedInvariant ==
    ASSUME RInv, NEW kind, Processing(kind),
           output' = Append(output, At.chunk),
           sender' = Remembered(sender, At.chunk),
           SoundDictionary(sender', MaxDictChunks),
           SoundDictionary(receiver', MaxDictChunks),
           misses' \in Nat,
           UNCHANGED <<given, encoding, pc>>
    PROVE  RInv'
<1> DEFINE n == Len(output)
<1>1. /\ n \in Nat /\ n + 1 \in 1 .. Len(frames)
      /\ At.chunk = input[n + 1] /\ At.chunk \in Chunks /\ Len(frames) = Len(input)
      /\ encoders[n + 2] = Remembered(sender, At.chunk)
  BY ProcessingFacts
<1>2. /\ output' \in Seq(Chunks) /\ Len(output') = n + 1
      /\ \A i \in 1 .. n : output'[i] = output[i]
      /\ output'[n + 1] = At.chunk
  BY <1>1, Appended DEF RInv, RepairTypeOK
<1>3. UNCHANGED <<input, warm, thinned, frames, encoders>> /\ pc = "run"
  BY DEF given, encoding, Processing
<1>4. RepairTypeOK'
  <2>1. Len(output') <= Len(frames)
    BY <1>1, <1>2
  <2> QED
    BY <1>2, <1>3, <2>1 DEF RInv, RepairTypeOK, SoundDictionary
<1>5. EncodingRight' /\ Phases' /\ EveryMissRepaired'
  BY <1>1, <1>3 DEF RInv, EncodingRight, FrameMade, Phases, EveryMissRepaired
<1>6. OutputRight'
  BY <1>1, <1>2, <1>3 DEF RInv, OutputRight
<1>7. SenderFollowsEncoder'
  <2>1. Len(output') + 1 = n + 2
    BY <1>1, <1>2
  <2> QED
    BY <1>1, <1>3, <2>1 DEF SenderFollowsEncoder
<1> QED
  BY <1>4, <1>5, <1>6, <1>7 DEF RInv

\* The three ways a frame is processed put its chunk out; a miss is always
\* repaired.
LEMMA Processed ==
    ASSUME RInv, ProcessFull \/ ProcessRef \/ ProcessMiss
    PROVE  /\ \E kind : Processing(kind)
           /\ output' = Append(output, At.chunk)
           /\ sender' = Remembered(sender, At.chunk)
           /\ SoundDictionary(sender', MaxDictChunks)
           /\ SoundDictionary(receiver', MaxDictChunks)
           /\ misses' \in Nat
           /\ UNCHANGED <<given, encoding, pc>>
<1>1. PICK kind : Processing(kind) /\ At.kind = kind
  BY DEF ProcessFull, ProcessRef, ProcessMiss, Processing
<1>2. /\ At.chunk \in Chunks
      /\ At.kind = "REF" <=> CidOf[At.chunk] \in Keys(sender)
  BY <1>1, ProcessingFacts
<1>3. /\ SoundDictionary(sender, MaxDictChunks)
      /\ SoundDictionary(receiver, MaxDictChunks) /\ misses \in Nat
  BY DEF RInv, RepairTypeOK
<1>4. /\ SoundDictionary(Touched(sender, At.chunk), MaxDictChunks)
      /\ SoundDictionary(Touched(receiver, At.chunk), MaxDictChunks)
  BY <1>2, <1>3, TouchedSound
<1>5. CASE ProcessFull
  <2>1. CidOf[At.chunk] \notin Keys(sender)
    BY <1>2, <1>5 DEF ProcessFull, Processing
  <2>2. sender' = Remembered(sender, At.chunk)
    BY <1>5, <2>1 DEF ProcessFull, SenderAfterFull, Touched, Remembered
  <2> QED
    BY <1>1, <1>3, <1>4, <1>5, <2>2 DEF ProcessFull, SenderAfterFull
<1>6. ASSUME At.kind = "REF"
      PROVE  /\ Remembered(sender, At.chunk) = sender
             /\ Holds(sender, At)
             /\ Lookup(sender, CidOf[At.chunk]) = At.chunk
  <2>1. CidOf[At.chunk] \in Keys(sender)
    BY <1>2, <1>6
  <2>2. Lookup(sender, CidOf[At.chunk]) = At.chunk
    <3>1. /\ Lookup(sender, CidOf[At.chunk]) \in Chunks
          /\ CidOf[Lookup(sender, CidOf[At.chunk])] = CidOf[At.chunk]
      BY <1>3, <2>1, LookupFinds DEF SoundDictionary
    <3> QED
      BY <1>2, <3>1, CidAssumption DEF IsInjective
  <2> QED
    BY <2>1, <2>2 DEF Remembered, Holds
<1>7. CASE ProcessRef
  <2>1. At.kind = "REF" /\ Holds(receiver, At)
    BY <1>7 DEF ProcessRef, Processing
  <2>2. Lookup(receiver, CidOf[At.chunk]) = At.chunk
    BY <1>2, <1>3, <2>1, HoldsIsRight DEF SoundDictionary
  <2> QED
    BY <1>1, <1>3, <1>6, <1>7, <2>1, <2>2 DEF ProcessRef
<1>8. CASE ProcessMiss
  <2>1. At.kind = "REF"
    BY <1>8 DEF ProcessMiss, Processing
  <2>2. /\ receiver' = Touched(receiver, At.chunk) /\ sender' = sender
        /\ output' = Append(output, At.chunk) /\ misses' = misses + 1
        /\ UNCHANGED <<given, encoding, pc>>
    BY <1>6, <1>8, <2>1 DEF ProcessMiss, ReceiverAfterRepair, SenderAfterRepair,
                            RepairPayload
  <2> QED
    BY <1>1, <1>3, <1>4, <1>6, <2>1, <2>2
<1> QED
  BY <1>5, <1>7, <1>8

\* When all frames are processed, the output is the input.
LEMMA ReturnsInput ==
    ASSUME RInv, Return
    PROVE  output = input
<1>1. /\ output \in Seq(Chunks) /\ input \in Seq(Chunks)
      /\ Len(output) = Len(input)
      /\ \A i \in 1 .. Len(output) : output[i] = input[i]
  BY InputElements DEF Return, RInv, RepairTypeOK, Phases, OutputRight
<1> QED
  BY <1>1, SeqEqual

LEMMA PhaseInvariant ==
    ASSUME RInv, StartTransfer \/ Return \/ UNCHANGED repairVars
    PROVE  RInv'
<1>1. UNCHANGED <<input, warm, thinned, frames, encoders, sender, receiver, output, misses>>
  BY DEF StartTransfer, Return, repairVars, given, encoding
<1>2. Return => pc' = "done"
  BY ReturnsInput DEF Return
<1>3. /\ pc' \in {"encode", "run", "done", "failed"} /\ Phases' /\ EveryMissRepaired'
  BY <1>1, <1>2 DEF StartTransfer, Return, repairVars, RInv, RepairTypeOK, Phases,
                    EveryMissRepaired
<1>4. RepairTypeOK'
  BY <1>1, <1>3 DEF RInv, RepairTypeOK
<1>5. EncodingRight' /\ OutputRight' /\ SenderFollowsEncoder'
  BY <1>1 DEF RInv, EncodingRight, FrameMade, OutputRight, SenderFollowsEncoder
<1> QED
  BY <1>1, <1>3, <1>4, <1>5 DEF RInv

LEMMA RepairInvariant == RepairSpec => []RInv
<1>1. RepairInit => RInv
  BY InitInvariant
<1>2. RInv /\ [RepairNext]_repairVars => RInv'
  <2> SUFFICES ASSUME RInv, [RepairNext]_repairVars PROVE RInv'
    OBVIOUS
  <2>1. CASE EncodeChunk
    BY <2>1, EncodeInvariant
  <2>2. CASE ProcessFull \/ ProcessRef \/ ProcessMiss
    BY <2>2, Processed, ProcessedInvariant
  <2>3. CASE StartTransfer \/ Return \/ UNCHANGED repairVars
    BY <2>3, PhaseInvariant
  <2> QED
    BY <2>1, <2>2, <2>3 DEF RepairNext
<1> QED
  BY <1>1, <1>2, PTL DEF RepairSpec

\* Type correctness.
THEOREM RepairTypeCorrect == RepairSpec => []RepairTypeOK
<1>1. RInv => RepairTypeOK
  BY DEF RInv
<1> QED
  BY <1>1, RepairInvariant, PTL

\* The sender has, at every frame, what its encoder had there.
THEOREM SenderFollows == RepairSpec => []SenderFollowsEncoder
<1>1. RInv => SenderFollowsEncoder
  BY DEF RInv
<1> QED
  BY <1>1, RepairInvariant, PTL

\* No miss is beyond repair, whatever is evicted or missing.
THEOREM MissesAreRepaired == RepairSpec => []EveryMissRepaired
<1>1. RInv => EveryMissRepaired
  BY DEF RInv
<1> QED
  BY <1>1, RepairInvariant, PTL

-----------------------------------------------------------------------------
(* What a repair costs, while nothing need be evicted.                     *)

\* The chunks a dictionary knows are those whose ids it has.
LEMMA KnownByKey ==
    ASSUME NEW d \in Seq(Entries), Authentic(d)
    PROVE  /\ Known(d) \subseteq Chunks
           /\ \A c \in Chunks : c \in Known(d) <=> CidOf[c] \in Keys(d)
           /\ Keys(d) = {CidOf[c] : c \in Known(d)}
<1>1. \A i \in DOMAIN d : d[i].chunk \in Chunks /\ d[i].cid = CidOf[d[i].chunk]
  <2>1. DOMAIN d = 1 .. Len(d)
    BY LenProperties
  <2>2. \A i \in DOMAIN d : d[i] \in Entries
    BY <2>1, ElementOfSeq
  <2> QED
    BY <2>2 DEF Authentic, Entries
<1>2. \A x, y \in Chunks : CidOf[x] = CidOf[y] => x = y
  BY CidAssumption DEF IsInjective
<1> QED
  BY <1>1, <1>2 DEF Known, Keys

\* The chunks that are ever in a dictionary of the run.
Around == Known(warm) \cup ToSet(input)

\* While nothing need be evicted, touching adds a chunk and nothing else.
LEMMA TouchedKnown ==
    ASSUME NEW d, SoundDictionary(d, MaxDictChunks), NEW c \in Chunks,
           IsFiniteSet(Around), Cardinality(Around) <= MaxDictChunks,
           Known(d) \subseteq Around, c \in Around
    PROVE  Known(Touched(d, c)) = Known(d) \cup {c}
<1> DEFINE A == Known(d) \cup {c}
           K == Keys(d) \cup {CidOf[c]}
           f == [x \in A |-> CidOf[x]]
<1>1. /\ d \in Seq(Entries) /\ Authentic(d)
      /\ SoundDictionary(Touched(d, c), MaxDictChunks)
      /\ Touched(d, c) \in Seq(Entries) /\ Authentic(Touched(d, c))
  BY TouchedSound DEF SoundDictionary
<1>2. IsFiniteSet(A) /\ Cardinality(A) \in Nat /\ Cardinality(A) <= Cardinality(Around)
      /\ Cardinality(Around) \in Nat
  BY FS_Subset, FS_CardinalityType
<1>3. f \in Surjection(A, K)
  <2>1. Keys(d) = {CidOf[x] : x \in Known(d)}
    BY <1>1, KnownByKey
  <2> QED
    BY <2>1 DEF Surjection
<1>4. IsFiniteSet(K) /\ Cardinality(K) <= Cardinality(A) /\ Cardinality(K) \in Nat
  BY <1>2, <1>3, FS_Surjection, FS_CardinalityType
<1>5. Cardinality(K) <= MaxDictChunks
  BY <1>2, <1>4, CapacityAssumption
<1>6. Keys(Touched(d, c)) = K
  BY <1>5, TouchedKeepsAll
<1>7. /\ Known(d) \subseteq Chunks /\ Known(Touched(d, c)) \subseteq Chunks
      /\ \A x \in Chunks : x \in Known(d) <=> CidOf[x] \in Keys(d)
      /\ \A x \in Chunks : x \in Known(Touched(d, c)) <=> CidOf[x] \in Keys(Touched(d, c))
  BY <1>1, KnownByKey
<1>8. \A x \in Chunks : CidOf[x] = CidOf[c] => x = c
  BY CidAssumption DEF IsInjective
<1> QED
  BY <1>6, <1>7, <1>8

\* MissedOnce counts what the receiver still lacks: as long as nothing need be
\* evicted, each miss takes one chunk from it and nothing adds to it.
LackInv ==
    IsFiniteSet(Around) /\ Cardinality(Around) <= MaxDictChunks =>
        /\ Known(sender) \subseteq Around
        /\ Known(receiver) \subseteq Known(sender)
        /\ misses + Cardinality(Known(sender) \ Known(receiver))
               = Cardinality(Known(warm) \ Known(thinned))

\* The run starts with all that the receiver lacks, and no misses.
LEMMA InitLack == RepairInit => LackInv
<1> SUFFICES ASSUME RepairInit PROVE LackInv
  OBVIOUS
<1>1. SoundDictionary(warm, MaxDictChunks)
  BY WarmSound, CapacityAssumption DEF RepairInit
<1>2. PICK P \in SUBSET DOMAIN warm : thinned \in Kept(warm, P)
  BY DEF RepairInit, RandomlyThinned
<1>3. SoundDictionary(thinned, MaxDictChunks) /\ Keys(thinned) \subseteq Keys(warm)
  BY <1>1, <1>2, KeptSound, CapacityAssumption
<1>4. Known(thinned) \subseteq Known(warm)
  <2>1. /\ Known(thinned) \subseteq Chunks
        /\ \A c \in Chunks : /\ c \in Known(thinned) <=> CidOf[c] \in Keys(thinned)
                             /\ c \in Known(warm) <=> CidOf[c] \in Keys(warm)
    BY <1>1, <1>3, KnownByKey DEF SoundDictionary
  <2> QED
    BY <1>3, <2>1
<1>5. sender = warm /\ receiver = thinned /\ misses = 0
  BY DEF RepairInit
<1> SUFFICES ASSUME IsFiniteSet(Around)
             PROVE  0 + Cardinality(Known(warm) \ Known(thinned))
                        = Cardinality(Known(warm) \ Known(thinned))
  BY <1>4, <1>5 DEF LackInv, Around
<1>6. Cardinality(Known(warm) \ Known(thinned)) \in Nat
  BY FS_Subset, FS_CardinalityType DEF Around
<1> QED
  BY <1>6

\* A FULL is new to both ends; a repair brings what the sender has.
LEMMA StepLack ==
    ASSUME RInv, LackInv, [RepairNext]_repairVars
    PROVE  LackInv'
<1>1. UNCHANGED <<input, warm, thinned>>
  BY DEF RepairNext, EncodeChunk, StartTransfer, ProcessFull, ProcessRef, ProcessMiss,
         Return, repairVars, given
<1>2. Around' = Around
  BY <1>1 DEF Around
<1>3. CASE UNCHANGED <<sender, receiver, misses>>
  BY <1>1, <1>2, <1>3 DEF LackInv
<1>4. CASE ProcessFull \/ ProcessMiss
  <2> SUFFICES ASSUME IsFiniteSet(Around), Cardinality(Around) <= MaxDictChunks
               PROVE  /\ Known(sender') \subseteq Around
                      /\ Known(receiver') \subseteq Known(sender')
                      /\ misses' + Cardinality(Known(sender') \ Known(receiver'))
                             = Cardinality(Known(warm) \ Known(thinned))
    BY <1>1, <1>2 DEF LackInv
  <2>1. /\ Known(sender) \subseteq Around
        /\ Known(receiver) \subseteq Known(sender)
        /\ misses + Cardinality(Known(sender) \ Known(receiver))
               = Cardinality(Known(warm) \ Known(thinned))
    BY DEF LackInv
  <2>2. PICK kind : Processing(kind) /\ At.kind = kind
    BY <1>4 DEF ProcessFull, ProcessMiss, Processing
  <2>3. /\ At.chunk \in Chunks /\ At.chunk \in Around
        /\ At.kind = "REF" <=> CidOf[At.chunk] \in Keys(sender)
    <3>1. /\ Len(output) + 1 \in 1 .. Len(input) /\ At.chunk = input[Len(output) + 1]
          /\ At.chunk \in Chunks
          /\ At.kind = "REF" <=> CidOf[At.chunk] \in Keys(sender)
      BY <2>2, ProcessingFacts
    <3>2. DOMAIN input = 1 .. Len(input)
      BY InputElements, LenProperties
    <3> QED
      BY <3>1, <3>2 DEF Around, ToSet
  <2>4. /\ SoundDictionary(sender, MaxDictChunks)
        /\ sender \in Seq(Entries) /\ Authentic(sender)
        /\ SoundDictionary(receiver, MaxDictChunks)
        /\ receiver \in Seq(Entries) /\ Authentic(receiver)
    BY DEF RInv, SoundDictionary
  <2>5. /\ At.chunk \in Known(sender) <=> CidOf[At.chunk] \in Keys(sender)
        /\ At.chunk \in Known(receiver) <=> CidOf[At.chunk] \in Keys(receiver)
    BY <2>3, <2>4, KnownByKey
  <2>6. /\ Known(Touched(sender, At.chunk)) = Known(sender) \cup {At.chunk}
        /\ Known(Touched(receiver, At.chunk)) = Known(receiver) \cup {At.chunk}
    BY <2>1, <2>3, <2>4, TouchedKnown
  <2>7. CASE ProcessFull
    <3>1. /\ sender' = Touched(sender, At.chunk) /\ receiver' = Touched(receiver, At.chunk)
          /\ misses' = misses
          /\ At.kind = "FULL"
      BY <2>7 DEF ProcessFull, SenderAfterFull, encoding, Processing
    <3>2. At.chunk \notin Known(sender)
      BY <2>3, <2>5, <3>1
    <3>3. Known(sender') \ Known(receiver') = Known(sender) \ Known(receiver)
      BY <2>6, <3>1, <3>2
    <3> QED
      BY <2>1, <2>3, <2>6, <3>1, <3>3
  <2>8. CASE ProcessMiss
    <3>1. At.kind = "REF" /\ ~ Holds(receiver, At) /\ misses' = misses + 1
      BY <2>8 DEF ProcessMiss, Processing
    <3>2. At.chunk \in Known(sender)
      BY <2>3, <2>5, <3>1
    <3>3. At.chunk \notin Known(receiver)
      <4>1. ASSUME CidOf[At.chunk] \in Keys(receiver) PROVE FALSE
        <5>1. /\ Lookup(receiver, CidOf[At.chunk]) \in Chunks
              /\ CidOf[Lookup(receiver, CidOf[At.chunk])] = CidOf[At.chunk]
          BY <2>4, <4>1, LookupFinds
        <5>2. Lookup(receiver, CidOf[At.chunk]) = At.chunk
          BY <2>3, <5>1, CidAssumption DEF IsInjective
        <5> QED
          BY <3>1, <4>1, <5>2 DEF Holds
      <4> QED
        BY <2>5, <4>1
    <3>4. sender' = sender /\ receiver' = Touched(receiver, At.chunk)
      <4>1. output' = Append(output, At.chunk) /\ pc' = pc /\ sender' = Remembered(sender, At.chunk)
        BY <2>8, Processed
      <4>2. pc = "run" /\ pc' # "failed"
        BY <2>2, <4>1 DEF Processing
      <4> QED
        BY <2>8, <4>2 DEF ProcessMiss, ReceiverAfterRepair, SenderAfterRepair
    <3> DEFINE L == Known(sender) \ Known(receiver)
    <3>5. Known(sender') \ Known(receiver') = L \ {At.chunk} /\ At.chunk \in L
      BY <2>6, <3>2, <3>3, <3>4
    <3>6. IsFiniteSet(L) /\ Cardinality(L) \in Nat
      BY <2>1, FS_Subset, FS_CardinalityType
    <3>7. misses \in Nat
      BY DEF RInv, RepairTypeOK
    <3>8. misses + Cardinality(L) = Cardinality(Known(warm) \ Known(thinned))
      BY <2>1
    <3> HIDE DEF L
    <3>9. Cardinality(L \ {At.chunk}) = Cardinality(L) - 1
      BY <3>5, <3>6, FS_RemoveElement
    <3>10. misses' + Cardinality(L \ {At.chunk}) = misses + Cardinality(L)
      BY <3>1, <3>6, <3>7, <3>9
    <3>11. Known(sender') \subseteq Around /\ Known(receiver') \subseteq Known(sender')
      BY <2>1, <2>6, <3>2, <3>4
    <3> QED
      BY <3>5, <3>8, <3>10, <3>11
  <2> QED
    BY <1>4, <2>7, <2>8
<1> QED
  BY <1>3, <1>4 DEF RepairNext, EncodeChunk, StartTransfer, ProcessRef, Return, repairVars

\* What is around is finite.
LEMMA AroundFinite ==
    ASSUME RInv
    PROVE  IsFiniteSet(Around)
<1>1. warm \in Seq(Entries) /\ input \in Seq(Chunks)
  BY InputElements DEF RInv, RepairTypeOK
<1>2. ASSUME NEW T, NEW s \in Seq(T)
      PROVE  IsFiniteSet(ToSet(s))
  <2> DEFINE f == [i \in 1 .. Len(s) |-> s[i]]
  <2>1. Len(s) \in Nat /\ DOMAIN s = 1 .. Len(s)
    BY <1>2, LenProperties
  <2>2. f \in Surjection(1 .. Len(s), ToSet(s))
    BY <2>1 DEF Surjection, ToSet
  <2> QED
    BY <2>1, <2>2, FS_Interval, FS_Surjection
<1>3. IsFiniteSet(Known(warm))
  <2> DEFINE f == [i \in 1 .. Len(warm) |-> warm[i].chunk]
  <2>1. Len(warm) \in Nat /\ DOMAIN warm = 1 .. Len(warm)
    BY <1>1, LenProperties
  <2>2. f \in Surjection(1 .. Len(warm), Known(warm))
    BY <2>1 DEF Surjection, Known
  <2> QED
    BY <2>1, <2>2, FS_Interval, FS_Surjection
<1>4. IsFiniteSet(ToSet(input))
  BY <1>1, <1>2
<1> QED
  BY <1>3, <1>4, FS_Union DEF Around

\* As long as nothing need be evicted, a repair costs a missing entry once.
THEOREM MissesCostOnce == RepairSpec => []MissedOnce
<1>1. RInv /\ LackInv => MissedOnce
  <2> SUFFICES ASSUME RInv, LackInv, Cardinality(Around) <= MaxDictChunks
               PROVE  misses <= Cardinality(Known(warm) \ Known(thinned))
    BY DEF MissedOnce, Around
  <2>1. IsFiniteSet(Around)
    BY AroundFinite
  <2> DEFINE L == Known(sender) \ Known(receiver)
  <2>2. L \subseteq Around /\ misses + Cardinality(L) = Cardinality(Known(warm) \ Known(thinned))
    BY <2>1 DEF LackInv
  <2>3. Cardinality(L) \in Nat /\ misses \in Nat
    BY <2>1, <2>2, FS_Subset, FS_CardinalityType DEF RInv, RepairTypeOK
  <2> HIDE DEF L
  <2> QED
    BY <2>2, <2>3
<1>2. RepairInit => LackInv
  BY InitLack
<1>3. RInv /\ LackInv /\ [RepairNext]_repairVars => LackInv'
  BY StepLack
<1> QED
  BY <1>1, <1>2, <1>3, RepairInvariant, PTL DEF RepairSpec

\* Whatever is missed, the run builds the input from its beginning, and is done
\* only with all of it.
THEOREM RepairBuildsInput ==
    RepairSpec => [](IsPrefix(output, input) /\ (pc = "done" => output = input))
<1>1. RInv => IsPrefix(output, input) /\ (pc = "done" => output = input)
  <2> SUFFICES ASSUME RInv
               PROVE  IsPrefix(output, input) /\ (pc = "done" => output = input)
    OBVIOUS
  <2>1. /\ output \in Seq(Chunks) /\ input \in Seq(Chunks)
        /\ Len(output) <= Len(input)
        /\ \A i \in 1 .. Len(output) : output[i] = input[i]
        /\ pc = "done" => Len(output) = Len(input)
    <3>1. output \in Seq(Chunks) /\ input \in Seq(Chunks) /\ frames \in Seq(ModelFrames)
      BY InputElements DEF RInv, RepairTypeOK
    <3>2. Len(output) \in Nat /\ Len(frames) \in Nat /\ Len(input) \in Nat
      BY <3>1, LenProperties
    <3> QED
      BY <3>1, <3>2 DEF RInv, RepairTypeOK, Phases, OutputRight
  <2>2. IsPrefix(output, input)
    BY <2>1, BeginsIsPrefix DEF Begins
  <2>3. pc = "done" => output = input
    BY <2>1, SeqEqual
  <2> QED
    BY <2>2, <2>3
<1> QED
  BY <1>1, RepairInvariant, PTL

-----------------------------------------------------------------------------
(* Refinement.                                                             *)

Outcome == IF pc \in {"encode", "run"} THEN "running" ELSE pc

LEMMA DeliverRefines ==
    ASSUME RInv, ProcessFull \/ ProcessRef \/ ProcessMiss
    PROVE  Transfer!Deliver
<1> DEFINE n == Len(output)
<1>1. /\ n \in Nat /\ n + 1 \in 1 .. Len(frames) /\ Len(frames) = Len(input)
      /\ At.chunk = input[n + 1] /\ At.chunk \in Chunks
  BY Processed, ProcessingFacts
<1>2. output' = Append(output, At.chunk) /\ UNCHANGED <<input, pc>>
  BY Processed DEF given
<1>3. /\ output \in Seq(Chunks) /\ DOMAIN output = 1 .. n
      /\ DOMAIN input = 1 .. Len(input)
  BY InputElements, LenProperties DEF RInv, RepairTypeOK
<1>4. /\ output' \in Seq(Chunks) /\ Len(output') = n + 1
      /\ \A i \in 1 .. n : output'[i] = output[i]
      /\ output'[n + 1] = At.chunk
  BY <1>1, <1>2, <1>3, Appended
<1>5. DOMAIN output' = DOMAIN output \cup {n + 1}
  <2>1. DOMAIN output' = 1 .. n + 1
    BY <1>4, LenProperties
  <2> QED
    BY <1>1, <1>3, <2>1
<1>6. \A i \in DOMAIN output' : output'[i] = input[i]
  BY <1>1, <1>3, <1>4, <1>5 DEF RInv, OutputRight
<1>7. output' = [j \in DOMAIN output' |-> output'[j]]
  BY <1>4, LenProperties
<1>8. output' = [j \in DOMAIN output \cup {n + 1} |-> input[j]]
  BY <1>5, <1>6, <1>7
<1>9. n + 1 \in DOMAIN input \ DOMAIN output
  BY <1>1, <1>3
<1>10. Outcome' = Outcome
  BY <1>2 DEF Outcome
<1> HIDE DEF n
<1> QED
  BY <1>2, <1>8, <1>9, <1>10 DEF Transfer!Deliver, Transfer!Filled, Outcome

\* Every step of the run is a step of the transfer or a stutter.
LEMMA RepairStepRefines ==
    ASSUME RInv, [RepairNext]_repairVars
    PROVE  [Transfer!Next]_<<input, output, Outcome>>
<1>1. CASE EncodeChunk \/ StartTransfer \/ UNCHANGED repairVars
  <2>1. /\ UNCHANGED <<input, output>>
        /\ pc' = pc \/ (pc = "encode" /\ pc' = "run")
    BY <1>1 DEF EncodeChunk, StartTransfer, repairVars, given
  <2>2. Outcome' = Outcome
    BY <2>1 DEF Outcome
  <2> QED
    BY <2>1, <2>2
<1>2. CASE ProcessFull \/ ProcessRef \/ ProcessMiss
  BY <1>2, DeliverRefines DEF Transfer!Next
<1>3. CASE Return
  <2>1. UNCHANGED <<input, output>> /\ pc = "run" /\ pc' = "done" /\ output = input
    BY <1>3, ReturnsInput DEF Return, given
  <2>2. Outcome = "running" /\ Outcome' = "done"
    BY <2>1 DEF Outcome
  <2> QED
    BY <2>1, <2>2 DEF Transfer!Next, Transfer!Complete, Outcome
<1> QED
  BY <1>1, <1>2, <1>3 DEF RepairNext

\* The run only ever puts out the input's chunks in their order, and reports a
\* good reconstruction only with all of them.
THEOREM RepairIsReliableTransfer == RepairSpec => ImplementsTransfer
<1>1. RepairInit => Transfer!Init
  BY DEF RepairInit, Transfer!Init
<1>2. RInv /\ [RepairNext]_repairVars => [Transfer!Next]_<<input, output, Outcome>>
  BY RepairStepRefines
<1> QED
  BY <1>1, <1>2, RepairInvariant, PTL
  DEF RepairSpec, Transfer!Spec, ImplementsTransfer, Outcome
=============================================================================
