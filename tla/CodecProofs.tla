---------------------------- MODULE CodecProofs ----------------------------
(***************************************************************************)
(* The plain codec and the TCP prototype that carries its frames, for      *)
(* every input, dictionary bound and pair of warm dictionaries: encoder    *)
(* and decoder stay in lock step, what one makes the other takes, decoding *)
(* is a reliable transfer, and a client that gets a report is told the     *)
(* truth.  Last, the codecs of Codecs side by side: what the modules prove *)
(* of each holds of the composition.                                       *)
(***************************************************************************)
EXTENDS Codecs, SocketPrototype, EncodingProofs

-----------------------------------------------------------------------------
(* The inductive invariant.                                                *)

\* encode has made one frame of each chunk so far.
FramesOfInput == \A i \in 1 .. Len(frames) : frames[i].chunk = input[i]

\* What the encoder remembers of frame i: nothing of a REF, which is to a chunk
\* it has.
Followed(i) ==
    IF frames[i].kind = "REF"
    THEN /\ encoders[i + 1] = encoders[i]
         /\ CidOf[frames[i].chunk] \in Keys(encoders[i])
    ELSE encoders[i + 1] = Touched(encoders[i], frames[i].chunk)

EncodersFollow ==
    /\ encoders[1] = senderWarm
    /\ \A i \in 1 .. Len(encoders) : SoundDictionary(encoders[i], MaxDictChunks)
    /\ \A i \in 1 .. Len(frames) : Followed(i)

\* What is built is the input's beginning.
OutputRight == \A i \in 1 .. Len(output) : output[i] = input[i]

\* What each phase starts and ends with.
Phases ==
    /\ pc = "encode" => output = <<>> /\ dictionary = receiverWarm
    /\ pc # "encode" => Len(frames) = Len(input)
    /\ pc = "done" => Len(output) = Len(frames)

\* LockStep needs what the encoder had before every frame; RoundTrips that it
\* referred only to what it had.
CInv ==
    /\ CodecTypeOK
    /\ FramesOfInput
    /\ EncodersFollow
    /\ SoundDictionary(dictionary, MaxDictChunks)
    /\ OutputRight
    /\ Phases
    /\ LockStep
    /\ RoundTrips

-----------------------------------------------------------------------------
(* The inductive step, action by action.                                   *)

LEMMA InputElements ==
    ASSUME CInv
    PROVE  /\ input \in Seq(Chunks) /\ Len(input) \in Nat
           /\ \A i \in 1 .. Len(input) : input[i] \in Chunks
BY InputsAssumption, LenProperties, ElementOfSeq DEF CInv, CodecTypeOK

LEMMA InitInvariant ==
    ASSUME CodecInit
    PROVE  CInv
<1>1. /\ SoundDictionary(senderWarm, MaxDictChunks)
      /\ SoundDictionary(receiverWarm, MaxDictChunks)
  BY WarmSound, CapacityAssumption DEF CodecInit
<1>2. /\ senderWarm \in Seq(Entries) /\ receiverWarm \in Seq(Entries)
      /\ Len(receiverWarm) <= MaxDictChunks
  BY <1>1 DEF SoundDictionary
<1>3. /\ encoders = <<senderWarm>> /\ Len(encoders) = 1
      /\ encoders \in Seq(Seq(Entries))
  BY <1>2 DEF CodecInit
<1>4. Len(frames) = 0 /\ Len(output) = 0 /\ frames \in Seq(ModelFrames)
      /\ output \in Seq(Chunks)
  BY EmptySeq DEF CodecInit
<1>5. input \in Seq(Chunks) /\ Len(input) \in Nat
  BY InputsAssumption, LenProperties DEF CodecInit
<1>6. CodecTypeOK
  BY <1>2, <1>3, <1>4, <1>5 DEF CodecInit, CodecTypeOK
<1>7. FramesOfInput /\ OutputRight
  BY <1>4 DEF FramesOfInput, OutputRight
<1>8. EncodersFollow
  <2>1. \A i \in 1 .. Len(encoders) : encoders[i] = senderWarm
    BY <1>3
  <2> QED
    BY <1>1, <1>3, <1>4, <2>1 DEF EncodersFollow
<1>9. Phases /\ RoundTrips
  BY DEF CodecInit, Phases, RoundTrips
<1>10. LockStep
  BY <1>3, <1>4 DEF CodecInit, LockStep, Before
<1> QED
  BY <1>1, <1>6, <1>7, <1>8, <1>9, <1>10 DEF CInv, CodecInit

LEMMA EncodeInvariant ==
    ASSUME CInv, EncodeChunk
    PROVE  CInv'
<1> DEFINE n == Len(frames)
           c == input[n + 1]
           d == encoders[n + 1]
<1>1. /\ n \in Nat /\ n < Len(input) /\ Len(encoders) = n + 1
      /\ frames \in Seq(ModelFrames) /\ encoders \in Seq(Seq(Entries))
  BY LenProperties DEF CInv, CodecTypeOK, EncodeChunk
<1>2. c \in Chunks
  BY <1>1, InputElements
<1>3. SoundDictionary(d, MaxDictChunks)
  BY <1>1 DEF CInv, EncodersFollow
<1>4. /\ SoundDictionary(Touched(d, c), MaxDictChunks)
      /\ d \in Seq(Entries) /\ Touched(d, c) \in Seq(Entries)
  BY <1>2, <1>3, TouchedSound DEF SoundDictionary
<1>5. PICK f \in ModelFrames, e \in Seq(Entries) :
        /\ frames' = Append(frames, f) /\ encoders' = Append(encoders, e)
        /\ f.chunk = c /\ SoundDictionary(e, MaxDictChunks)
        /\ IF f.kind = "REF" THEN e = d /\ CidOf[c] \in Keys(d)
                             ELSE e = Touched(d, c)
  <2>1. CASE /\ MayRefer(d, c)
             /\ frames' = Append(frames, [kind |-> "REF", chunk |-> c])
             /\ encoders' = Append(encoders, d)
    <3>1. [kind |-> "REF", chunk |-> c] \in ModelFrames
      BY <1>2 DEF ModelFrames
    <3> QED
      BY <1>3, <1>4, <2>1, <3>1 DEF MayRefer
  <2>2. CASE /\ frames' = Append(frames, [kind |-> "FULL", chunk |-> c])
             /\ encoders' = Append(encoders, Touched(d, c))
    <3>1. [kind |-> "FULL", chunk |-> c] \in ModelFrames
      BY <1>2 DEF ModelFrames
    <3> QED
      BY <1>4, <2>2, <3>1
  <2> QED
    BY <2>1, <2>2 DEF EncodeChunk, Before
<1> HIDE DEF c, d
<1>6. /\ frames' \in Seq(ModelFrames) /\ Len(frames') = n + 1
      /\ \A i \in 1 .. n : frames'[i] = frames[i]
      /\ frames'[n + 1] = f
  BY <1>1, <1>5, Appended
<1>7. /\ encoders' \in Seq(Seq(Entries)) /\ Len(encoders') = n + 2
      /\ \A i \in 1 .. n + 1 : encoders'[i] = encoders[i]
      /\ encoders'[n + 2] = e
  <2>1. /\ encoders' \in Seq(Seq(Entries)) /\ Len(encoders') = Len(encoders) + 1
        /\ \A i \in 1 .. Len(encoders) : encoders'[i] = encoders[i]
        /\ encoders'[Len(encoders) + 1] = e
    BY <1>1, <1>5, Appended
  <2> QED
    BY <1>1, <2>1
<1>8. /\ UNCHANGED <<input, senderWarm, receiverWarm, pc, dictionary, output>>
      /\ pc = "encode" /\ output = <<>> /\ Len(output) = 0
  BY DEF EncodeChunk, source, CInv, Phases
<1>9. CodecTypeOK'
  <2>1. Len(frames') <= Len(input) /\ Len(encoders') = Len(frames') + 1
        /\ Len(output') <= Len(frames')
    BY <1>1, <1>6, <1>7, <1>8, InputElements
  <2> QED
    BY <1>6, <1>7, <1>8, <2>1 DEF CInv, CodecTypeOK
<1>10. FramesOfInput'
  <2>1. \A i \in 1 .. n : frames'[i].chunk = input[i]
    BY <1>6 DEF CInv, FramesOfInput
  <2>2. frames'[n + 1].chunk = input[n + 1]
    BY <1>5, <1>6 DEF c
  <2>3. n \in Nat /\ Len(frames') = n + 1 /\ input' = input
    BY <1>1, <1>6, <1>8
  <2>4. ASSUME NEW i \in 1 .. n + 1 PROVE frames'[i].chunk = input[i]
    <3>1. i \in 1 .. n \/ i = n + 1
      BY <2>3
    <3> QED
      BY <2>1, <2>2, <3>1
  <2> QED
    BY <2>3, <2>4 DEF FramesOfInput
<1>11. EncodersFollow'
  <2>1. encoders'[1] = senderWarm'
    <3>1. 1 \in 1 .. Len(encoders)
      BY <1>1
    <3>2. encoders'[1] = encoders[1] /\ senderWarm' = senderWarm
      BY <1>7, <1>8, <3>1
    <3> QED
      BY <3>2 DEF CInv, EncodersFollow
  <2>2. \A i \in 1 .. n + 2 : SoundDictionary(encoders'[i], MaxDictChunks)
    BY <1>1, <1>5, <1>7 DEF CInv, EncodersFollow
  <2>3. ASSUME NEW i \in 1 .. n PROVE Followed(i)'
    <3>1. i \in 1 .. Len(frames) /\ i \in 1 .. n + 1 /\ i + 1 \in 1 .. n + 1
      BY <1>1
    <3>2. Followed(i)
      BY <3>1 DEF CInv, EncodersFollow
    <3>3. frames'[i] = frames[i] /\ encoders'[i] = encoders[i]
          /\ encoders'[i + 1] = encoders[i + 1]
      BY <1>6, <1>7, <3>1
    <3> QED
      BY <3>2, <3>3 DEF Followed
  <2>4. ASSUME NEW i \in 1 .. n + 1, i = n + 1 PROVE Followed(i)'
    <3>1. /\ frames'[i] = f /\ encoders'[i] = d
          /\ i + 1 = n + 2 /\ encoders'[i + 1] = e
      <4>1. /\ i + 1 = n + 2 /\ i \in 1 .. n + 1
        BY <1>1, <2>4
      <4> QED
        BY <1>6, <1>7, <2>4, <4>1 DEF d
    <3>2. IF f.kind = "REF" THEN e = d /\ CidOf[f.chunk] \in Keys(d)
                            ELSE e = Touched(d, f.chunk)
      BY <1>5
    <3> QED
      BY <3>1, <3>2 DEF Followed
  <2>5. ASSUME NEW i \in 1 .. n + 1 PROVE Followed(i)'
    <3>1. i \in 1 .. n \/ i = n + 1
      BY <1>1
    <3> QED
      BY <2>3, <2>4, <3>1
  <2> QED
    BY <1>6, <1>7, <2>1, <2>2, <2>5 DEF EncodersFollow
<1>12. OutputRight' /\ Phases' /\ RoundTrips' /\ SoundDictionary(dictionary', MaxDictChunks)
  BY <1>8 DEF CInv, OutputRight, Phases, RoundTrips
<1>13. LockStep'
  <2>1. 0 + 1 = 1 /\ 1 \in 1 .. n + 1
    BY <1>1
  <2>2. encoders'[1] = encoders[1] /\ Len(output') = 0
    BY <1>7, <1>8, <2>1
  <2>3. senderWarm = receiverWarm => dictionary = encoders[1]
    BY <1>8, <2>1 DEF CInv, LockStep, Before
  <2> QED
    BY <1>8, <2>1, <2>2, <2>3 DEF LockStep, Before
<1> QED
  BY <1>9, <1>10, <1>11, <1>12, <1>13 DEF CInv

\* What the loop of decode works with.
LEMMA DecodingFacts ==
    ASSUME CInv, NEW kind, Decoding(kind)
    PROVE  /\ Len(output) \in Nat /\ Len(output) + 1 \in 1 .. Len(frames)
           /\ At.chunk = input[Len(output) + 1] /\ At.chunk \in Chunks
           /\ Len(output) < Len(frames) /\ Len(frames) = Len(input)
           /\ Followed(Len(output) + 1)
<1>1. /\ Len(output) \in Nat /\ Len(frames) \in Nat
      /\ Len(output) < Len(frames) /\ Len(frames) = Len(input)
  BY LenProperties DEF CInv, CodecTypeOK, Phases, Decoding
<1>2. Len(output) + 1 \in 1 .. Len(frames)
  BY <1>1
<1> QED
  BY <1>1, <1>2, InputElements DEF CInv, At, FramesOfInput, EncodersFollow

\* A step of decode that puts the right chunk out and follows the encoder.
LEMMA DecodedInvariant ==
    ASSUME CInv, NEW kind, Decoding(kind),
           output' = Append(output, At.chunk),
           SoundDictionary(dictionary', MaxDictChunks),
           senderWarm = receiverWarm => dictionary' = encoders[Len(output) + 2],
           UNCHANGED <<source, pc, frames, encoders>>
    PROVE  CInv'
<1> DEFINE n == Len(output)
<1>1. /\ n \in Nat /\ n + 1 \in 1 .. Len(frames)
      /\ At.chunk = input[n + 1] /\ At.chunk \in Chunks /\ Len(frames) = Len(input)
  BY DecodingFacts
<1>2. /\ output' \in Seq(Chunks) /\ Len(output') = n + 1
      /\ \A i \in 1 .. n : output'[i] = output[i]
      /\ output'[n + 1] = At.chunk
  BY <1>1, Appended DEF CInv, CodecTypeOK
<1>3. UNCHANGED <<input, senderWarm, receiverWarm>> /\ pc = "decode"
  BY DEF source, Decoding
<1>4. CodecTypeOK'
  <2>1. Len(output') <= Len(frames)
    BY <1>1, <1>2
  <2> QED
    BY <1>2, <1>3, <2>1 DEF CInv, CodecTypeOK, SoundDictionary
<1>5. FramesOfInput' /\ EncodersFollow' /\ Phases' /\ RoundTrips'
  BY <1>1, <1>3 DEF CInv, FramesOfInput, EncodersFollow, Followed, Phases, RoundTrips
<1>6. OutputRight'
  BY <1>1, <1>2, <1>3 DEF CInv, OutputRight
<1>7. LockStep'
  <2>1. Len(output') + 1 = n + 2
    BY <1>1, <1>2
  <2> QED
    BY <1>3, <2>1 DEF LockStep, Before
<1> QED
  BY <1>4, <1>5, <1>6, <1>7 DEF CInv

LEMMA DecodeFullInvariant ==
    ASSUME CInv, DecodeFull
    PROVE  CInv'
<1>1. Decoding("FULL") /\ At.kind = "FULL"
  BY DEF DecodeFull, Decoding
<1>2. At.chunk \in Chunks /\ Followed(Len(output) + 1) /\ Len(output) \in Nat
  BY <1>1, DecodingFacts
<1>3. SoundDictionary(Touched(dictionary, At.chunk), MaxDictChunks)
  BY <1>2, TouchedSound DEF CInv
<1>4. encoders[Len(output) + 2] = Touched(encoders[Len(output) + 1], At.chunk)
  <2>1. (Len(output) + 1) + 1 = Len(output) + 2
    BY <1>2
  <2> QED
    BY <1>1, <1>2, <2>1 DEF Followed, At
<1>5. senderWarm = receiverWarm => dictionary = encoders[Len(output) + 1]
  BY DEF CInv, LockStep, Before
<1> QED
  BY <1>1, <1>3, <1>4, <1>5, DecodedInvariant DEF DecodeFull

LEMMA DecodeRefInvariant ==
    ASSUME CInv, DecodeRef
    PROVE  CInv'
<1>1. Decoding("REF") /\ At.kind = "REF" /\ Holds(dictionary, At)
  BY DEF DecodeRef, Decoding
<1>2. At.chunk \in Chunks /\ Followed(Len(output) + 1) /\ Len(output) \in Nat
  BY <1>1, DecodingFacts
<1>3. Lookup(dictionary, CidOf[At.chunk]) = At.chunk
  BY <1>1, <1>2, HoldsIsRight DEF CInv, SoundDictionary
<1>4. encoders[Len(output) + 2] = encoders[Len(output) + 1]
  <2>1. (Len(output) + 1) + 1 = Len(output) + 2
    BY <1>2
  <2> QED
    BY <1>1, <1>2, <2>1 DEF Followed, At
<1>5. senderWarm = receiverWarm => dictionary = encoders[Len(output) + 1]
  BY DEF CInv, LockStep, Before
<1>6. dictionary' = dictionary /\ SoundDictionary(dictionary, MaxDictChunks)
  BY DEF DecodeRef, AfterRef, CInv
<1>7. output' = Append(output, At.chunk) /\ UNCHANGED <<source, pc, frames, encoders>>
  BY <1>3 DEF DecodeRef
<1> QED
  BY <1>1, <1>4, <1>5, <1>6, <1>7, DecodedInvariant

\* What the encoder refers to, a decoder in lock step has.
LEMMA LockStepHolds ==
    ASSUME CInv, Decoding("REF"), senderWarm = receiverWarm
    PROVE  Holds(dictionary, At)
<1>1. At.kind = "REF"
  BY DEF Decoding
<1>2. At.chunk \in Chunks /\ Followed(Len(output) + 1)
  BY DecodingFacts
<1>3. dictionary = encoders[Len(output) + 1]
  BY DEF CInv, LockStep, Before
<1>4. CidOf[At.chunk] \in Keys(dictionary)
  BY <1>1, <1>2, <1>3 DEF Followed, At
<1>5. /\ Lookup(dictionary, CidOf[At.chunk]) \in Chunks
      /\ CidOf[Lookup(dictionary, CidOf[At.chunk])] = CidOf[At.chunk]
  BY <1>4, LookupFinds DEF CInv, SoundDictionary
<1>6. Lookup(dictionary, CidOf[At.chunk]) = At.chunk
  BY <1>2, <1>5, CidAssumption DEF IsInjective
<1> QED
  BY <1>4, <1>6 DEF Holds

\* A step that only moves the program counter.
LEMMA PhaseInvariant ==
    ASSUME CInv, StartDecoding \/ RejectMiss \/ Return \/ UNCHANGED codecVars
    PROVE  CInv'
<1>1. UNCHANGED <<input, senderWarm, receiverWarm, frames, encoders, dictionary, output>>
  BY DEF StartDecoding, RejectMiss, Return, codecVars, source
<1>2. pc' \in {"encode", "decode", "done", "rejected"}
  BY DEF StartDecoding, RejectMiss, Return, AfterMiss, codecVars, CInv, CodecTypeOK
<1>3. Phases'
  BY <1>1 DEF StartDecoding, RejectMiss, Return, AfterMiss, Decoding, codecVars,
              CInv, Phases
<1>4. RoundTrips'
  <2>1. CASE RejectMiss
    BY <1>1, <2>1, LockStepHolds DEF RejectMiss, RoundTrips
  <2>2. CASE StartDecoding \/ Return \/ UNCHANGED codecVars
    BY <1>1, <2>2 DEF StartDecoding, Return, codecVars, RoundTrips, CInv
  <2> QED
    BY <2>1, <2>2
<1>5. CodecTypeOK'
  BY <1>1, <1>2 DEF CInv, CodecTypeOK
<1>6. FramesOfInput' /\ EncodersFollow' /\ OutputRight' /\ LockStep'
  BY <1>1 DEF CInv, FramesOfInput, EncodersFollow, Followed, OutputRight,
              LockStep, Before
<1> QED
  BY <1>1, <1>3, <1>4, <1>5, <1>6 DEF CInv

LEMMA CodecInvariant == CodecSpec => []CInv
<1>1. CodecInit => CInv
  BY InitInvariant
<1>2. CInv /\ [CodecNext]_codecVars => CInv'
  BY EncodeInvariant, DecodeFullInvariant, DecodeRefInvariant, PhaseInvariant
  DEF CodecNext
<1> QED
  BY <1>1, <1>2, PTL DEF CodecSpec

\* The codec is type correct.
THEOREM CodecTypeCorrect == CodecSpec => []CodecTypeOK
<1>1. CInv => CodecTypeOK
  BY DEF CInv
<1> QED
  BY <1>1, CodecInvariant, PTL

\* From the same warm bytes the two dictionaries, order of eviction included,
\* are the same at every frame.
THEOREM CodecInLockStep == CodecSpec => []LockStep
<1>1. CInv => LockStep
  BY DEF CInv
<1> QED
  BY <1>1, CodecInvariant, PTL

\* From the same warm bytes decode refuses nothing encode makes.
THEOREM CodecRoundTrips == CodecSpec => []RoundTrips
<1>1. CInv => RoundTrips
  BY DEF CInv
<1> QED
  BY <1>1, CodecInvariant, PTL

-----------------------------------------------------------------------------
(* Refinement.                                                             *)

Outcome == CASE pc = "done" -> "done"
             [] pc = "rejected" -> "failed"
             [] OTHER -> "running"

\* A frame decoded is a chunk delivered at its place.
LEMMA DeliverRefines ==
    ASSUME CInv, DecodeFull \/ DecodeRef
    PROVE  Transfer!Deliver
<1> DEFINE n == Len(output)
<1>1. PICK kind : Decoding(kind)
  BY DEF DecodeFull, DecodeRef
<1>2. /\ n \in Nat /\ n + 1 \in 1 .. Len(frames) /\ Len(frames) = Len(input)
      /\ At.chunk = input[n + 1] /\ At.chunk \in Chunks
  BY <1>1, DecodingFacts
<1>3. output' = Append(output, At.chunk)
  <2>1. CASE DecodeFull
    BY <2>1 DEF DecodeFull
  <2>2. CASE DecodeRef
    <3>1. Lookup(dictionary, CidOf[At.chunk]) = At.chunk
      BY <1>2, <2>2, HoldsIsRight DEF CInv, SoundDictionary, DecodeRef
    <3> QED
      BY <2>2, <3>1 DEF DecodeRef
  <2> QED
    BY <2>1, <2>2
<1>4. /\ output \in Seq(Chunks) /\ DOMAIN output = 1 .. n
      /\ DOMAIN input = 1 .. Len(input)
  BY InputElements, LenProperties DEF CInv, CodecTypeOK
<1>5. /\ output' \in Seq(Chunks) /\ Len(output') = n + 1
      /\ \A i \in 1 .. n : output'[i] = output[i]
      /\ output'[n + 1] = At.chunk
  BY <1>2, <1>3, <1>4, Appended
<1>6. DOMAIN output' = DOMAIN output \cup {n + 1}
  <2>1. DOMAIN output' = 1 .. n + 1
    BY <1>5, LenProperties
  <2> QED
    BY <1>2, <1>4, <2>1
<1>7. \A i \in DOMAIN output' : output'[i] = input[i]
  BY <1>2, <1>4, <1>5, <1>6 DEF CInv, OutputRight
<1>8. output' = [j \in DOMAIN output' |-> output'[j]]
  BY <1>5, LenProperties
<1>9. output' = [j \in DOMAIN output \cup {n + 1} |-> input[j]]
  BY <1>6, <1>7, <1>8
<1>10. n + 1 \in DOMAIN input \ DOMAIN output
  BY <1>2, <1>4
<1>11. UNCHANGED <<input, pc>>
  BY DEF DecodeFull, DecodeRef, source
<1>12. Outcome' = Outcome
  BY <1>11 DEF Outcome
<1> HIDE DEF n
<1> QED
  BY <1>9, <1>10, <1>11, <1>12 DEF Transfer!Deliver, Transfer!Filled, Outcome

\* Every step of the codec is a step of the transfer or a stutter.
LEMMA CodecStepRefines ==
    ASSUME CInv, [CodecNext]_codecVars
    PROVE  [Transfer!Next]_<<input, output, Outcome>>
<1>1. CASE EncodeChunk \/ StartDecoding \/ UNCHANGED codecVars
  <2>1. /\ UNCHANGED <<input, output>>
        /\ pc' = pc \/ (pc = "encode" /\ pc' = "decode")
    BY <1>1 DEF EncodeChunk, StartDecoding, codecVars, source
  <2>2. Outcome' = Outcome
    BY <2>1 DEF Outcome
  <2> QED
    BY <2>1, <2>2
<1>2. CASE DecodeFull \/ DecodeRef
  BY <1>2, DeliverRefines DEF Transfer!Next
<1>3. CASE RejectMiss
  <2>1. UNCHANGED <<input, output>> /\ pc = "decode" /\ pc' = "rejected"
    BY <1>3 DEF RejectMiss, AfterMiss, Decoding, source
  <2>2. Outcome = "running" /\ Outcome' = "failed"
    BY <2>1 DEF Outcome
  <2> QED
    BY <2>1, <2>2 DEF Transfer!Next, Transfer!Abort, Outcome
<1>4. CASE Return
  <2>1. UNCHANGED <<input, output>> /\ pc = "decode" /\ pc' = "done"
        /\ Len(output) = Len(frames)
    BY <1>4 DEF Return, source
  <2>2. Outcome = "running" /\ Outcome' = "done"
    BY <2>1 DEF Outcome
  <2>3. output = input
    <3>1. /\ output \in Seq(Chunks) /\ input \in Seq(Chunks)
          /\ Len(output) = Len(input)
          /\ \A i \in 1 .. Len(output) : output[i] = input[i]
      BY <2>1, InputElements DEF CInv, CodecTypeOK, Phases, OutputRight
    <3> QED
      BY <3>1, SeqEqual
  <2> QED
    BY <2>1, <2>2, <2>3 DEF Transfer!Next, Transfer!Complete, Outcome
<1> QED
  BY <1>1, <1>2, <1>3, <1>4 DEF CodecNext

\* Whatever each end knew, decode builds the input from its beginning and
\* returns only with all of it.
THEOREM CodecIsReliableTransfer == CodecSpec => ImplementsTransfer
<1>1. CodecInit => Transfer!Init
  BY DEF CodecInit, Transfer!Init
<1>2. CInv /\ [CodecNext]_codecVars => [Transfer!Next]_<<input, output, Outcome>>
  BY CodecStepRefines
<1> QED
  BY <1>1, <1>2, CodecInvariant, PTL
  DEF CodecSpec, Transfer!Spec, ImplementsTransfer, Outcome

-----------------------------------------------------------------------------
(* The TCP prototype: how far into the frames a number of units reaches.   *)

\* A frame is a prefix and a header, and a payload if it is a FULL.
LEMMA UnitsType ==
    ASSUME NEW f
    PROVE  Units(f) \in Nat /\ Units(f) >= 2
BY DEF Units

\* w says after how many units each frame of p ends.
Tabulates(w, p) ==
    /\ w \in [0 .. Len(p) -> Nat]
    /\ w[0] = 0
    /\ \A k \in 1 .. Len(p) : w[k] = w[k - 1] + Units(p[k])
    /\ UnitsOf(p) = w[Len(p)]

\* The units of a sequence of frames, added up from its first frame on.
LEMMA UnitsTable ==
    ASSUME NEW p \in Seq(ModelFrames)
    PROVE  \E w : Tabulates(w, p)
<1> DEFINE h == [x \in DOMAIN p |-> [v \in Nat |-> Added(v, p[x])]]
           c == [s \in SUBSET DOMAIN p |-> Max(s)]
           g == CHOOSE f : f = [s \in SUBSET DOMAIN p |->
                            IF s = {} THEN 0
                            ELSE Added(f[s \ {Max(s)}], p[Max(s)])]
<1>1. PICK n : n = Len(p) /\ n \in Nat /\ DOMAIN p = 1 .. n
  BY LenProperties
<1>2. ASSUME NEW s \in SUBSET DOMAIN p, s # {}
      PROVE  Max(s) \in s
  BY <1>1, <1>2, MaxIsIn
<1>3. ASSUME NEW v \in Nat, NEW x \in DOMAIN p
      PROVE  Added(v, p[x]) \in Nat
  BY UnitsType DEF Added
<1>4. Turns(h, DOMAIN p, Nat)
  BY <1>3 DEF Turns
<1>5. Picks(c, DOMAIN p)
  BY <1>2 DEF Picks
<1>6. PICK f : Unfolds(f, DOMAIN p, Nat, 0, c, h)
  <2> HIDE DEF h, c, g
  <2>1. 0 \in Nat /\ IsFiniteSet(DOMAIN p)
    BY <1>1, FS_Interval
  <2> QED
    BY <1>4, <1>5, <2>1, SetRecursion
<1>7. ASSUME NEW s \in SUBSET DOMAIN p
      PROVE  f[s] = IF s = {} THEN 0 ELSE Added(f[s \ {Max(s)}], p[Max(s)])
  <2>1. s # {} => Max(s) \in DOMAIN p /\ f[s \ {Max(s)}] \in Nat
    BY <1>2, <1>6 DEF Unfolds
  <2> QED
    BY <1>6, <2>1 DEF Unfolds
<1>8. f = [s \in SUBSET DOMAIN p |->
             IF s = {} THEN 0 ELSE Added(f[s \ {Max(s)}], p[Max(s)])]
  BY <1>6, <1>7 DEF Unfolds
<1>9. g = [s \in SUBSET DOMAIN p |->
              IF s = {} THEN 0 ELSE Added(g[s \ {Max(s)}], p[Max(s)])]
  BY <1>8, Zenon
<1>10. UnitsOf(p) = g[DOMAIN p]
  BY Zenon DEF UnitsOf, FoldLeft, MapThenFoldSet
<1> HIDE DEF g
<1>11. \A s \in SUBSET DOMAIN p :
          g[s] = IF s = {} THEN 0 ELSE Added(g[s \ {Max(s)}], p[Max(s)])
  BY <1>9, Zenon
<1>12. g[1 .. 0] = 0
  <2>1. 1 .. 0 = {} /\ 1 .. 0 \in SUBSET DOMAIN p
    OBVIOUS
  <2> QED
    BY <1>11, <2>1, Zenon
<1>13. ASSUME NEW k \in 1 .. n
       PROVE  g[1 .. k] = g[1 .. k - 1] + Units(p[k])
  <2>1. 1 .. k \in SUBSET DOMAIN p /\ k \in Nat \ {0}
    BY <1>1
  <2>2. Max(1 .. k) = k /\ (1 .. k) \ {k} = 1 .. k - 1 /\ 1 .. k # {}
    BY <2>1, GreatestOfSome
  <2>3. g[1 .. k] = Added(g[(1 .. k) \ {Max(1 .. k)}], p[Max(1 .. k)])
    BY <1>11, <2>1, <2>2, Zenon
  <2> QED
    BY <2>2, <2>3 DEF Added
<1> DEFINE P == {k \in Nat : k <= n => g[1 .. k] \in Nat}
<1>14. 0 \in P
  BY <1>12
<1>15. ASSUME NEW k \in P PROVE k + 1 \in P
  <2> SUFFICES ASSUME k + 1 <= n PROVE g[1 .. k + 1] \in Nat
    OBVIOUS
  <2>1. k \in Nat /\ g[1 .. k] \in Nat /\ k + 1 \in 1 .. n /\ (k + 1) - 1 = k
    BY <1>1
  <2>2. g[1 .. k + 1] = g[1 .. k] + Units(p[k + 1])
    BY <1>13, <2>1
  <2> QED
    BY <2>1, <2>2, UnitsType
<1>16. P = Nat
  <2> HIDE DEF P
  <2>1. P \subseteq Nat
    BY DEF P
  <2> QED
    BY <1>14, <1>15, <2>1, AllOfNat
<1> DEFINE w == [k \in 0 .. n |-> g[1 .. k]]
<1>17. w \in [0 .. n -> Nat]
  BY <1>1, <1>16
<1>18. \A k \in 1 .. n : w[k] = w[k - 1] + Units(p[k])
  <2> SUFFICES ASSUME NEW k \in 1 .. n
               PROVE  w[k] = w[k - 1] + Units(p[k])
    OBVIOUS
  <2>1. k \in 0 .. n /\ k - 1 \in 0 .. n
    BY <1>1
  <2> QED
    BY <1>13, <2>1
<1>19. w[0] = 0 /\ w[n] = UnitsOf(p)
  BY <1>1, <1>10, <1>12
<1> QED
  BY <1>1, <1>17, <1>18, <1>19 DEF Tabulates

LEMMA TwoMore ==
    ASSUME NEW a \in Nat, NEW b \in Nat, NEW t \in Nat, NEW u \in Nat,
           a + t <= b, u >= 2
    PROVE  a + (t + 2) <= b + u
  OBVIOUS

\* The units of what begins q are less than those of q, by two a frame at
\* least.
LEMMA UnitsBegin ==
    ASSUME NEW p \in Seq(ModelFrames), NEW q \in Seq(ModelFrames), Begins(p, q)
    PROVE  /\ UnitsOf(p) \in Nat /\ UnitsOf(q) \in Nat
           /\ UnitsOf(p) + 2 * (Len(q) - Len(p)) <= UnitsOf(q)
           /\ Len(q) = Len(p) + 1 => UnitsOf(q) = UnitsOf(p) + Units(q[Len(q)])
<1>1. PICK n : n = Len(p) /\ n \in Nat
  BY LenProperties
<1>2. PICK l : l = Len(q) /\ l \in Nat /\ n <= l
  BY <1>1, LenProperties DEF Begins
<1>3. PICK v : Tabulates(v, p)
  BY UnitsTable
<1>4. PICK w : Tabulates(w, q)
  BY UnitsTable
<1>5. /\ v \in [0 .. n -> Nat] /\ v[0] = 0 /\ UnitsOf(p) = v[n]
      /\ \A k \in 1 .. n : v[k] = v[k - 1] + Units(p[k])
  BY <1>1, <1>3 DEF Tabulates
<1>6. /\ w \in [0 .. l -> Nat] /\ w[0] = 0 /\ UnitsOf(q) = w[l]
      /\ \A k \in 1 .. l : w[k] = w[k - 1] + Units(q[k])
  BY <1>2, <1>4 DEF Tabulates
<1>7. \A k \in 1 .. n : p[k] = q[k]
  BY <1>1 DEF Begins
<1> DEFINE P == {k \in Nat : k <= n => v[k] = w[k]}
           Q == {k \in Nat : n + k <= l => w[n] + 2 * k <= w[n + k]}
<1>8. 0 \in P
  BY <1>5, <1>6
<1>9. ASSUME NEW k \in P PROVE k + 1 \in P
  <2> SUFFICES ASSUME k + 1 <= n PROVE v[k + 1] = w[k + 1]
    OBVIOUS
  <2>1. /\ k \in Nat /\ k + 1 \in 1 .. n /\ k + 1 \in 1 .. l /\ (k + 1) - 1 = k
        /\ v[k] = w[k]
    BY <1>1, <1>2
  <2>2. v[k + 1] = v[k] + Units(p[k + 1]) /\ w[k + 1] = w[k] + Units(q[k + 1])
    BY <1>5, <1>6, <2>1
  <2> QED
    BY <1>7, <2>1, <2>2
<1>10. P = Nat
  <2> HIDE DEF P
  <2>1. P \subseteq Nat
    BY DEF P
  <2> QED
    BY <1>8, <1>9, <2>1, AllOfNat
<1>11. v[n] = w[n]
  BY <1>1, <1>10
<1>12. 0 \in Q
  <2>1. n + 0 = n /\ 2 * 0 = 0 /\ w[n] \in Nat
    BY <1>1, <1>2, <1>6
  <2> QED
    BY <2>1
<1>13. ASSUME NEW k \in Q PROVE k + 1 \in Q
  <2> SUFFICES ASSUME n + (k + 1) <= l PROVE w[n] + 2 * (k + 1) <= w[n + (k + 1)]
    OBVIOUS
  <2>1. PICK j : j = n + k /\ j \in Nat /\ j + 1 = n + (k + 1) /\ k \in Nat
                 /\ j + 1 \in 1 .. l /\ j \in 0 .. l /\ (j + 1) - 1 = j
    BY <1>1, <1>2
  <2>2. w[n] + 2 * k <= w[j]
    BY <1>2, <2>1
  <2>3. PICK u : u = Units(q[j + 1]) /\ u \in Nat /\ u >= 2
    BY UnitsType
  <2>4. w[j + 1] = w[j] + u
    BY <1>6, <2>1, <2>3
  <2>5. PICK a, b : a = w[n] /\ b = w[j] /\ a \in Nat /\ b \in Nat
    BY <1>1, <1>2, <1>6, <2>1
  <2>6. a + 2 * (k + 1) <= b + u
    <3> HIDE DEF Q
    <3>1. PICK t : t = 2 * k /\ t \in Nat /\ 2 * (k + 1) = t + 2
      BY <2>1
    <3>2. a + t <= b
      BY <2>2, <2>5, <3>1
    <3>3. a + (t + 2) <= b + u
      BY <2>3, <2>5, <3>1, <3>2, TwoMore
    <3> QED
      BY <3>1, <3>3
  <2>7. w[j + 1] = b + u
    BY <2>4, <2>5
  <2> QED
    BY <2>1, <2>5, <2>6, <2>7
<1>14. Q = Nat
  <2> HIDE DEF Q
  <2>1. Q \subseteq Nat
    BY DEF Q
  <2> QED
    BY <1>12, <1>13, <2>1, AllOfNat
<1>15. w[n] + 2 * (l - n) <= w[l]
  <2>1. PICK k : k = l - n /\ k \in Nat /\ n + k = l
    BY <1>1, <1>2
  <2>2. k \in Q
    BY <1>14, <2>1
  <2>3. w[n] + 2 * k <= w[n + k]
    BY <1>2, <2>1, <2>2
  <2> QED
    BY <2>1, <2>3
<1>16. l = n + 1 => w[l] = w[n] + Units(q[l])
  <2>1. l = n + 1 => l \in 1 .. l /\ l - 1 = n
    BY <1>1, <1>2
  <2> QED
    BY <1>6, <2>1
<1> HIDE DEF P, Q
<1>17. v[n] \in Nat /\ w[l] \in Nat
  <2>1. n \in 0 .. n /\ l \in 0 .. l
    BY <1>1, <1>2
  <2> QED
    BY <1>5, <1>6, <2>1
<1> QED
  BY <1>1, <1>2, <1>5, <1>6, <1>11, <1>15, <1>16, <1>17

-----------------------------------------------------------------------------
(* What decode makes of the first frames.                                  *)

\* The state of decode's loop.
DecodingStates ==
    [dictionary : {d \in Seq(Entries) : SoundDictionary(d, MaxDictChunks)},
     output : Seq(Chunks), ok : BOOLEAN]

\* One turn of the loop builds the chunk the frame stands for, or nothing any
\* more.
LEMMA DecodedFrameShape ==
    ASSUME NEW st \in DecodingStates, NEW f \in ModelFrames
    PROVE  \/ /\ st.ok
              /\ \E d \in Seq(Entries) :
                    /\ SoundDictionary(d, MaxDictChunks)
                    /\ DecodedFrame(st, f)
                         = [dictionary |-> d, output |-> Append(st.output, f.chunk),
                            ok |-> TRUE]
           \/ DecodedFrame(st, f)
                = [dictionary |-> st.dictionary, output |-> st.output, ok |-> FALSE]
<1> DEFINE c == f.chunk
<1>1. c \in Chunks /\ f.kind \in {"FULL", "REF"}
  BY DEF ModelFrames
<1>2. /\ st = [dictionary |-> st.dictionary, output |-> st.output, ok |-> st.ok]
      /\ SoundDictionary(st.dictionary, MaxDictChunks)
      /\ st.dictionary \in Seq(Entries) /\ st.ok \in BOOLEAN
  BY DEF DecodingStates
<1>3. CASE ~ st.ok
  <2>1. DecodedFrame(st, f) = st
    BY <1>3, Zenon DEF DecodedFrame
  <2>2. st.ok = FALSE
    BY <1>2, <1>3
  <2> QED
    BY <1>2, <2>1, <2>2
<1>4. CASE st.ok /\ f.kind = "FULL"
  <2>1. DecodedFrame(st, f)
          = [st EXCEPT !.dictionary = Touched(@, c), !.output = Append(@, c)]
    BY <1>4 DEF DecodedFrame
  <2>2. DecodedFrame(st, f)
          = [dictionary |-> Touched(st.dictionary, c),
             output |-> Append(st.output, c), ok |-> TRUE]
    BY <1>2, <1>4, <2>1
  <2>3. /\ SoundDictionary(Touched(st.dictionary, c), MaxDictChunks)
        /\ Touched(st.dictionary, c) \in Seq(Entries)
    BY <1>1, <1>2, TouchedSound DEF SoundDictionary
  <2> QED
    BY <1>4, <2>2, <2>3
<1>5. CASE st.ok /\ f.kind = "REF" /\ Holds(st.dictionary, f)
  <2>1. Lookup(st.dictionary, CidOf[c]) = c
    BY <1>1, <1>2, <1>5, HoldsIsRight DEF SoundDictionary
  <2>2. DecodedFrame(st, f)
          = [st EXCEPT !.output = Append(@, Lookup(st.dictionary, CidOf[c]))]
    BY <1>5 DEF DecodedFrame
  <2>3. DecodedFrame(st, f)
          = [dictionary |-> st.dictionary, output |-> Append(st.output, c),
             ok |-> TRUE]
    BY <1>2, <1>5, <2>1, <2>2
  <2> QED
    BY <1>2, <1>5, <2>3
<1>6. CASE st.ok /\ f.kind = "REF" /\ ~ Holds(st.dictionary, f)
  <2>1. DecodedFrame(st, f) = [st EXCEPT !.ok = FALSE]
    BY <1>6 DEF DecodedFrame
  <2> QED
    BY <1>2, <2>1
<1> QED
  BY <1>1, <1>2, <1>3, <1>4, <1>5, <1>6

\* decode's loop keeps its types.
LEMMA DecodedFrameType ==
    ASSUME NEW st \in DecodingStates, NEW f \in ModelFrames
    PROVE  DecodedFrame(st, f) \in DecodingStates
<1>1. f.chunk \in Chunks /\ st.output \in Seq(Chunks)
  BY DEF ModelFrames, DecodingStates
<1>2. Append(st.output, f.chunk) \in Seq(Chunks)
  BY <1>1, AppendProperties
<1>3. CASE \E d \in Seq(Entries) :
             /\ SoundDictionary(d, MaxDictChunks)
             /\ DecodedFrame(st, f)
                  = [dictionary |-> d, output |-> Append(st.output, f.chunk), ok |-> TRUE]
  <2>1. PICK d \in Seq(Entries) :
             /\ SoundDictionary(d, MaxDictChunks)
             /\ DecodedFrame(st, f)
                  = [dictionary |-> d, output |-> Append(st.output, f.chunk), ok |-> TRUE]
    BY <1>3
  <2> QED
    BY <1>2, <2>1 DEF DecodingStates
<1>4. CASE DecodedFrame(st, f)
             = [dictionary |-> st.dictionary, output |-> st.output, ok |-> FALSE]
  BY <1>4 DEF DecodingStates
<1> QED
  BY <1>3, <1>4, DecodedFrameShape, Zenon

\* After the first k frames of p: what is built are their chunks, all of them
\* unless there was a miss.
DecodedRight(st, p, k) ==
    /\ st \in DecodingStates
    /\ Len(st.output) <= k
    /\ \A i \in 1 .. Len(st.output) : st.output[i] = p[i].chunk
    /\ st.ok => Len(st.output) = k

\* One more turn of the loop.
LEMMA DecodedFrameRight ==
    ASSUME NEW p \in Seq(ModelFrames), NEW k \in Nat, k + 1 <= Len(p),
           NEW st, DecodedRight(st, p, k)
    PROVE  DecodedRight(DecodedFrame(st, p[k + 1]), p, k + 1)
<1> DEFINE f == p[k + 1]
           c == f.chunk
           new == DecodedFrame(st, f)
           whole == Append(st.output, c)
<1>1. k + 1 \in 1 .. Len(p) /\ f \in ModelFrames
  BY LenProperties, ElementOfSeq
<1>2. c \in Chunks /\ st \in DecodingStates /\ st.output \in Seq(Chunks)
  BY <1>1 DEF ModelFrames, DecodedRight, DecodingStates
<1>3. PICK n : n = Len(st.output) /\ n \in Nat /\ n <= k
               /\ (st.ok => n = k)
               /\ \A i \in 1 .. n : st.output[i] = p[i].chunk
  BY <1>2, LenProperties DEF DecodedRight
<1>4. new \in DecodingStates
  BY <1>1, <1>2, DecodedFrameType
<1>5. \/ st.ok /\ new.output = whole /\ new.ok = TRUE
      \/ new.output = st.output /\ new.ok = FALSE
  BY <1>1, <1>2, DecodedFrameShape
<1>6. CASE st.ok /\ new.output = whole /\ new.ok = TRUE
  <2>1. /\ Len(whole) = n + 1 /\ whole[n + 1] = c
        /\ \A i \in 1 .. n : whole[i] = st.output[i]
    <3> HIDE DEF c
    <3> QED
      BY <1>2, <1>3, Appended
  <2>2. n = k
    BY <1>3, <1>6
  <2> HIDE DEF new, whole, f
  <2>3. ASSUME NEW i \in 1 .. n + 1 PROVE new.output[i] = p[i].chunk
    <3>1. i \in 1 .. n \/ i = n + 1
      BY <1>3, <2>3
    <3>2. whole[n + 1] = p[n + 1].chunk
      BY <2>1, <2>2 DEF f
    <3> QED
      BY <1>3, <1>6, <2>1, <3>1, <3>2
  <2> QED
    BY <1>3, <1>4, <1>6, <2>1, <2>2, <2>3 DEF DecodedRight, new, f
<1>7. CASE new.output = st.output /\ new.ok = FALSE
  <2> HIDE DEF new, f
  <2> QED
    BY <1>3, <1>4, <1>7 DEF DecodedRight, new, f
<1> QED
  BY <1>5, <1>6, <1>7

\* The loop of decode as a recursion on the first frames of p.
LEMMA DecodedRecursion ==
    ASSUME NEW p \in Seq(ModelFrames), NEW st \in DecodingStates
    PROVE  \E g : /\ g = [s \in SUBSET DOMAIN p |->
                            IF s = {} THEN st
                            ELSE DecodedFrame(g[s \ {Max(s)}], p[Max(s)])]
                  /\ FoldLeft(DecodedFrame, st, p) = g[DOMAIN p]
<1> DEFINE V == DecodingStates
           h == [x \in DOMAIN p |-> [v \in V |-> DecodedFrame(v, p[x])]]
           c == [s \in SUBSET DOMAIN p |-> Max(s)]
           g == CHOOSE f : f = [s \in SUBSET DOMAIN p |->
                            IF s = {} THEN st
                            ELSE DecodedFrame(f[s \ {Max(s)}], p[Max(s)])]
<1>1. PICK n : n = Len(p) /\ n \in Nat /\ DOMAIN p = 1 .. n
               /\ \A x \in 1 .. n : p[x] \in ModelFrames
  BY LenProperties, ElementOfSeq
<1>2. ASSUME NEW s \in SUBSET DOMAIN p, s # {}
      PROVE  Max(s) \in s
  BY <1>1, <1>2, MaxIsIn
<1>3. ASSUME NEW v \in V, NEW x \in DOMAIN p
      PROVE  DecodedFrame(v, p[x]) \in V
  BY <1>1, DecodedFrameType
<1>4. Turns(h, DOMAIN p, V)
  BY <1>3 DEF Turns
<1>5. Picks(c, DOMAIN p)
  BY <1>2 DEF Picks
<1> HIDE DEF V
<1>6. PICK f : Unfolds(f, DOMAIN p, V, st, c, h)
  <2>1. st \in V /\ IsFiniteSet(DOMAIN p)
    BY <1>1, FS_Interval DEF V
  <2> HIDE DEF h, c, g
  <2> QED
    BY <1>4, <1>5, <2>1, SetRecursion
<1>7. ASSUME NEW s \in SUBSET DOMAIN p
      PROVE  f[s] = IF s = {} THEN st
                    ELSE DecodedFrame(f[s \ {Max(s)}], p[Max(s)])
  <2>1. s # {} => Max(s) \in DOMAIN p /\ f[s \ {Max(s)}] \in V
    BY <1>2, <1>6 DEF Unfolds
  <2> QED
    BY <1>6, <2>1 DEF Unfolds
<1>8. f = [s \in SUBSET DOMAIN p |->
             IF s = {} THEN st ELSE DecodedFrame(f[s \ {Max(s)}], p[Max(s)])]
  BY <1>6, <1>7 DEF Unfolds
<1>9. g = [s \in SUBSET DOMAIN p |->
              IF s = {} THEN st ELSE DecodedFrame(g[s \ {Max(s)}], p[Max(s)])]
  BY <1>8, Zenon
<1>10. FoldLeft(DecodedFrame, st, p) = g[DOMAIN p]
  BY Zenon DEF FoldLeft, MapThenFoldSet
<1> HIDE DEF g
<1> QED
  BY <1>9, <1>10, Zenon

\* What decode builds begins with the chunks the frames stand for, and is all
\* of them if it meets no miss, whatever dictionary it starts with.
LEMMA DecodedFold ==
    ASSUME NEW p \in Seq(ModelFrames),
           NEW dict \in Seq(Entries), SoundDictionary(dict, MaxDictChunks)
    PROVE  DecodedRight(Decoded(p, dict), p, Len(p))
<1> DEFINE st == [dictionary |-> dict, output |-> <<>>, ok |-> TRUE]
<1>1. st \in DecodingStates
  BY DEF DecodingStates
<1>2. DecodedRight(st, p, 0)
  <2>1. Len(st.output) = 0
    OBVIOUS
  <2> QED
    BY <1>1, <2>1 DEF DecodedRight
<1>3. Decoded(p, dict) = FoldLeft(DecodedFrame, st, p)
  BY DEF Decoded
<1> HIDE DEF st
<1>4. PICK g : /\ g = [s \in SUBSET DOMAIN p |->
                         IF s = {} THEN st
                         ELSE DecodedFrame(g[s \ {Max(s)}], p[Max(s)])]
               /\ FoldLeft(DecodedFrame, st, p) = g[DOMAIN p]
  BY <1>1, DecodedRecursion
<1>5. PICK n : n = Len(p) /\ n \in Nat /\ DOMAIN p = 1 .. n
  BY LenProperties
<1> DEFINE P == {k \in Nat : k <= n => DecodedRight(g[1 .. k], p, k)}
<1>6. 0 \in P
  <2>1. 1 .. 0 = {} /\ g[{}] = st
    BY <1>4
  <2> QED
    BY <1>2, <2>1
<1>7. ASSUME NEW k \in P PROVE k + 1 \in P
  <2> SUFFICES ASSUME k + 1 <= n PROVE DecodedRight(g[1 .. k + 1], p, k + 1)
    OBVIOUS
  <2>1. k \in Nat /\ k <= n /\ k + 1 \in 1 .. n /\ k + 1 \in Nat \ {0} /\ (k + 1) - 1 = k
    BY <1>5
  <2>2. DecodedRight(g[1 .. k], p, k)
    BY <2>1
  <2>3. 1 .. k + 1 \in SUBSET DOMAIN p
    BY <1>5, <2>1
  <2>4. /\ Max(1 .. k + 1) = k + 1 /\ (1 .. k + 1) \ {k + 1} = 1 .. k
        /\ 1 .. k + 1 # {}
    BY <2>1, GreatestOfSome
  <2>5. g[1 .. k + 1] = DecodedFrame(g[1 .. k], p[k + 1])
    <3> HIDE DEF P
    <3>1. \A s \in SUBSET DOMAIN p :
             g[s] = IF s = {} THEN st ELSE DecodedFrame(g[s \ {Max(s)}], p[Max(s)])
      BY <1>4, Zenon
    <3> QED
      BY <2>3, <2>4, <3>1, Zenon
  <2> QED
    BY <1>5, <2>1, <2>2, <2>5, DecodedFrameRight
<1>8. n \in P
  <2> HIDE DEF P
  <2>1. P \subseteq Nat
    BY DEF P
  <2> QED
    BY <1>5, <1>6, <1>7, <2>1, AllOfNat
<1>9. DecodedRight(g[1 .. n], p, n)
  BY <1>5, <1>8
<1> HIDE DEF P
<1> QED
  BY <1>3, <1>4, <1>5, <1>9, Zenon

-----------------------------------------------------------------------------
(* The TCP prototype's invariant.  The stream delivers a prefix of what was *)
(* written, so a server at its end has read whole frames of which it can    *)
(* only build the beginning of the input; a client is told of bytes only    *)
(* after it wrote everything.                                               *)

\* What either end has, and what is on its way.
SocketTypes ==
    /\ data \in Inputs
    /\ SoundDictionary(serverWarm, MaxDictChunks)
    /\ client \in {"start", "sending", "waiting", "done", "failed"}
    /\ stream \in {"open", "ended", "reset"}
    /\ server \in {"accept", "reading", "decode", "write", "writing", "ack",
                   "returned", "failed"}
    /\ written \in Nat /\ reported \in Nat /\ partial \in Nat
    /\ ack \in Nat \cup {-1}
    /\ received \in Seq(ModelFrames)

\* The frames are those of encode, one of each chunk.
Outgoing ==
    /\ outgoing \in Seq(ModelFrames)
    /\ Len(outgoing) = Len(data)
    /\ \A i \in 1 .. Len(data) : outgoing[i].chunk = data[i]

\* What is read is less than what is written, and that less than there is.
InOrder ==
    /\ Begins(received, outgoing)
    /\ Read <= written /\ written <= UnitsOf(outgoing)

\* A client shuts the stream when it has written everything, and one that has
\* not shut it is still at it.
ClientAtIt ==
    /\ client \in {"start", "sending"} => stream = "open"
    /\ client \in {"waiting", "done"} => written = UnitsOf(outgoing)

\* A server past the end of the stream has read all the client will ever write.
ServerPastEnd ==
    server \in {"decode", "write", "writing", "ack", "returned"} =>
        /\ partial = 0 /\ UnitsOf(received) = written
        /\ client \notin {"start", "sending"}

\* The server decodes before it opens the file, writes what it decoded from the
\* beginning, and reports after it wrote all of it.
ServerWrites ==
    /\ server = "writing" =>
          /\ file \in Seq(Chunks)
          /\ Begins(file, Decoded(received, serverWarm).output)
    /\ server \in {"write", "writing", "ack", "returned"} =>
          Decoded(received, serverWarm).ok
    /\ server \in {"ack", "returned"} =>
          file = Decoded(received, serverWarm).output

\* What is reported was sent, and what was sent is the truth.
ReportsSent ==
    /\ ack # -1 => server = "returned" /\ ack = Len(received)
    /\ reported > 0 => client = "done" /\ ack = reported

\* The file holds the beginning of the input.
FileRight == file # OldFile => IsPrefix(file, data)

SocketInv ==
    /\ SocketTypes /\ Outgoing /\ InOrder
    /\ ClientAtIt /\ ServerPastEnd /\ ServerWrites /\ ReportsSent /\ FileRight

\* Before the connection nothing is written, read or reported.
LEMMA SocketInitInvariant ==
    ASSUME SocketInit
    PROVE  SocketInv
<1>1. data \in Seq(Chunks) /\ outgoing = Encoded(data, clientWarm)
  BY InputsAssumption DEF SocketInit
<1>2. Outgoing
  BY <1>1, EncodedCovers DEF Outgoing
<1>3. received = <<>> /\ partial = 0 /\ written = 0
  BY DEF SocketInit
<1>4. /\ Len(received) = 0 /\ received \in Seq(ModelFrames)
      /\ Len(outgoing) \in Nat
  BY <1>2, <1>3, LenProperties DEF Outgoing
<1>5. Begins(received, received) /\ Begins(received, outgoing)
  BY <1>4 DEF Begins
<1>6. UnitsOf(received) = 0
  <2>1. PICK w : Tabulates(w, received)
    BY <1>4, UnitsTable
  <2> QED
    BY <1>4, <2>1 DEF Tabulates
<1>7. UnitsOf(outgoing) \in Nat
  BY <1>2, <1>4, <1>5, UnitsBegin DEF Outgoing
<1>8. InOrder
  BY <1>3, <1>5, <1>6, <1>7 DEF InOrder, Read
<1>9. SoundDictionary(serverWarm, MaxDictChunks)
  BY WarmSound, CapacityAssumption DEF SocketInit
<1>10. SocketTypes
  BY <1>4, <1>9 DEF SocketInit, SocketTypes
<1>11. ClientAtIt /\ ServerPastEnd /\ ServerWrites /\ ReportsSent /\ FileRight
  BY DEF SocketInit, ClientAtIt, ServerPastEnd, ServerWrites, ReportsSent,
         FileRight
<1> QED
  BY <1>2, <1>8, <1>10, <1>11 DEF SocketInv

\* What the server builds, whole or not.
LEMMA ServerBuilds ==
    ASSUME SocketInv
    PROVE  /\ Decoded(received, serverWarm).output \in Seq(Chunks)
           /\ Begins(Decoded(received, serverWarm).output, data)
           /\ Decoded(received, serverWarm).ok =>
                 Len(Decoded(received, serverWarm).output) = Len(received)
<1> DEFINE st == Decoded(received, serverWarm)
<1>1. /\ received \in Seq(ModelFrames)
      /\ SoundDictionary(serverWarm, MaxDictChunks) /\ serverWarm \in Seq(Entries)
  BY DEF SocketInv, SocketTypes, SoundDictionary
<1>2. DecodedRight(st, received, Len(received))
  BY <1>1, DecodedFold
<1>3. PICK n : n = Len(received) /\ n \in Nat /\ n <= Len(data)
               /\ \A i \in 1 .. n : received[i].chunk = data[i]
  <2>1. /\ Len(received) \in Nat /\ Len(received) <= Len(outgoing)
        /\ \A i \in 1 .. Len(received) : received[i] = outgoing[i]
    BY <1>1, LenProperties DEF SocketInv, InOrder, Begins
  <2>2. /\ Len(outgoing) = Len(data) /\ Len(outgoing) \in Nat
        /\ \A i \in 1 .. Len(data) : outgoing[i].chunk = data[i]
    BY LenProperties DEF SocketInv, Outgoing
  <2> QED
    BY <2>1, <2>2
<1> HIDE DEF st
<1>4. /\ st.output \in Seq(Chunks) /\ Len(st.output) <= n
      /\ \A i \in 1 .. Len(st.output) : st.output[i] = received[i].chunk
      /\ st.ok => Len(st.output) = n
  BY <1>2, <1>3 DEF DecodedRight, DecodingStates
<1>5. PICK l : l = Len(st.output) /\ l \in Nat /\ l <= n
  BY <1>4, LenProperties
<1>6. Len(data) \in Nat
  BY LenProperties, InputsAssumption DEF SocketInv, SocketTypes
<1>7. Begins(st.output, data)
  BY <1>3, <1>4, <1>5, <1>6 DEF Begins
<1> QED
  BY <1>3, <1>4, <1>7 DEF st

\* The steps of the client, and a connection that is reset: a report is taken
\* only by a client that has written everything.
LEMMA ClientStepInvariant ==
    ASSUME SocketInv, Connect \/ ClientStep \/ ClientFails
    PROVE  SocketInv'
<1>1. UNCHANGED <<data, clientWarm, serverWarm, outgoing, received, partial,
                  file, ack>>
  BY DEF Connect, ClientStep, Write, FinishWriting, ReceiveAck, ClientFails,
         given, serverVars
<1>2. /\ written \in Nat /\ UnitsOf(outgoing) \in Nat /\ Read \in Nat
      /\ Read <= written /\ written <= UnitsOf(outgoing)
  <2>1. UnitsOf(outgoing) \in Nat /\ UnitsOf(received) \in Nat
    BY UnitsBegin DEF SocketInv, SocketTypes, Outgoing, InOrder
  <2> QED
    BY <2>1 DEF SocketInv, SocketTypes, InOrder, Read
<1>3. Read' = Read /\ UnitsOf(outgoing)' = UnitsOf(outgoing)
      /\ UnitsOf(received)' = UnitsOf(received)
      /\ Decoded(received, serverWarm)' = Decoded(received, serverWarm)
  BY <1>1 DEF Read
<1>4. written' \in Nat /\ Read' <= written' /\ written' <= UnitsOf(outgoing)'
  BY <1>2, <1>3
  DEF Connect, ClientStep, Write, FinishWriting, ReceiveAck, ClientFails,
      clientVars
<1>5. Outgoing' /\ FileRight' /\ InOrder'
  BY <1>1, <1>4 DEF SocketInv, Outgoing, FileRight, InOrder
<1>6. CASE Connect
  <2>1. /\ client = "start" /\ server = "accept"
        /\ client' = "sending" /\ server' = "reading"
        /\ UNCHANGED <<written, stream, reported>>
    BY <1>6 DEF Connect
  <2> QED
    BY <1>1, <1>3, <1>5, <2>1
    DEF SocketInv, SocketTypes, ClientAtIt, ServerPastEnd, ServerWrites, ReportsSent
<1>7. CASE Write
  <2>1. /\ client = "sending" /\ client' \in {"sending", "failed"}
        /\ client' = "sending" => server' = server
        /\ UNCHANGED <<server, stream, reported>>
        /\ written' # written => client' = client
    BY <1>7 DEF Write, serverVars
  <2> QED
    BY <1>1, <1>3, <1>4, <1>5, <2>1
    DEF SocketInv, SocketTypes, ClientAtIt, ServerPastEnd, ServerWrites, ReportsSent
<1>8. CASE FinishWriting
  <2>1. /\ client = "sending" /\ written = UnitsOf(outgoing)
        /\ client' = "waiting" /\ stream' = "ended"
        /\ UNCHANGED <<written, reported, server>>
    BY <1>8 DEF FinishWriting, Shut, serverVars
  <2> QED
    BY <1>1, <1>3, <1>5, <2>1
    DEF SocketInv, SocketTypes, ClientAtIt, ServerPastEnd, ServerWrites, ReportsSent
<1>9. CASE ReceiveAck
  <2>1. /\ client = "waiting" /\ client' \in {"done", "failed"}
        /\ \/ client' = "done" /\ reported' = Report
           \/ reported' = reported
        /\ UNCHANGED <<written, stream, server>>
    BY <1>9 DEF ReceiveAck, Answered, ResetOnClient, PartOfReport, serverVars
  <2>2. reported = 0 /\ reported \in Nat
    BY <2>1 DEF SocketInv, SocketTypes, ReportsSent
  <2>3. /\ reported' \in Nat
        /\ reported' > 0 => client' = "done" /\ ack' = reported'
    BY <1>1, <2>1, <2>2 DEF Report, SocketInv, SocketTypes
  <2> QED
    BY <1>1, <1>3, <1>5, <2>1, <2>3
    DEF SocketInv, SocketTypes, ClientAtIt, ServerPastEnd, ServerWrites, ReportsSent
<1>10. CASE ClientFails
  <2>1. /\ client \notin {"done", "failed"} /\ client' = "failed"
        /\ stream' \in {stream, "ended", "reset"}
        /\ UNCHANGED <<written, reported, server>>
    BY <1>10 DEF ClientFails, ClientOver, serverVars
  <2> QED
    BY <1>1, <1>3, <1>5, <2>1
    DEF SocketInv, SocketTypes, ClientAtIt, ServerPastEnd, ServerWrites, ReportsSent
<1> QED
  BY <1>6, <1>7, <1>8, <1>9, <1>10 DEF ClientStep

\* recv brings some of the units there are, and at most those of one frame.
LEMMA ReceiveInvariant ==
    ASSUME SocketInv, Receive
    PROVE  SocketInv'
<1> DEFINE k == Len(received)
           f == outgoing[k + 1]
<1>1. /\ server = "reading" /\ Read < written
      /\ UNCHANGED <<data, clientWarm, serverWarm, outgoing, client, written,
                     stream, reported, server, file, ack>>
  BY DEF Receive, given, clientVars
<1>2. /\ received \in Seq(ModelFrames) /\ outgoing \in Seq(ModelFrames)
      /\ Begins(received, outgoing) /\ partial \in Nat /\ written \in Nat
      /\ Read = UnitsOf(received) + partial /\ written <= UnitsOf(outgoing)
  BY DEF SocketInv, SocketTypes, Outgoing, InOrder, Read
<1>3. PICK l : l = Len(outgoing) /\ l \in Nat /\ k \in Nat /\ k <= l
  BY <1>2, LenProperties DEF Begins
<1>4. /\ UnitsOf(received) \in Nat /\ UnitsOf(outgoing) \in Nat
  BY <1>2, UnitsBegin
<1>5. k < l
  <2>1. CASE k = l
    <3>1. received = outgoing
      BY <1>2, <1>3, <2>1, SeqEqual DEF Begins
    <3> QED
      BY <1>1, <1>2, <1>4, <3>1
  <2> QED
    BY <1>3, <2>1
<1>6. k + 1 \in 1 .. l /\ f \in ModelFrames
  <2>1. k + 1 \in 1 .. l
    BY <1>3, <1>5
  <2> QED
    BY <1>2, <1>3, <2>1, ElementOfSeq
<1>7. Units(f) \in Nat
  BY UnitsType
<1>8. PICK n \in 1 .. written - Read :
        \/ /\ partial + n < Units(f)
           /\ partial' = partial + n
           /\ UNCHANGED received
        \/ /\ partial + n = Units(f)
           /\ partial' = 0
           /\ received' = Append(received, f)
  BY DEF Receive
<1>9. n \in Nat /\ Read + n <= written
  BY <1>1, <1>2, <1>4, <1>8
<1>10. /\ received' \in Seq(ModelFrames) /\ partial' \in Nat
       /\ Begins(received', outgoing) /\ Read' <= written
  <2>1. CASE partial' = partial + n /\ UNCHANGED received
    <3>1. Read' = UnitsOf(received) + (partial + n)
      BY <2>1 DEF Read
    <3> QED
      BY <1>2, <1>4, <1>9, <2>1, <3>1
  <2>2. CASE /\ partial + n = Units(f) /\ partial' = 0
             /\ received' = Append(received, f)
    <3> DEFINE new == Append(received, f)
    <3>1. /\ new \in Seq(ModelFrames) /\ Len(new) = k + 1 /\ new[k + 1] = f
          /\ \A i \in 1 .. k : new[i] = received[i]
      <4> HIDE DEF f
      <4> QED
        BY <1>2, <1>6, Appended
    <3> HIDE DEF new
    <3>2. Begins(received, new)
      BY <1>3, <3>1 DEF Begins
    <3>3. UnitsOf(new) = UnitsOf(received) + Units(f)
      BY <1>2, <3>1, <3>2, UnitsBegin
    <3>4. Begins(new, outgoing)
      <4> SUFFICES ASSUME NEW i \in 1 .. k + 1
                   PROVE  new[i] = outgoing[i]
        BY <1>3, <1>5, <3>1 DEF Begins
      <4>1. i \in 1 .. k \/ i = k + 1
        BY <1>3
      <4> QED
        BY <1>2, <3>1, <4>1 DEF Begins
    <3>5. received' = new
      BY <2>2 DEF new
    <3>6. Read' = UnitsOf(new) + 0
      BY <2>2, <3>5 DEF Read
    <3>7. Read' <= written
      <4> HIDE DEF f
      <4>1. Read' = UnitsOf(received) + (partial + n)
        BY <1>2, <1>4, <1>9, <2>2, <3>3, <3>6
      <4>2. Read' = Read + n
        BY <1>2, <1>4, <1>9, <4>1 DEF Read
      <4> QED
        BY <1>9, <4>2
    <3> QED
      BY <2>2, <3>1, <3>4, <3>5, <3>7
  <2> QED
    BY <1>8, <2>1, <2>2
<1>11. UnitsOf(outgoing)' = UnitsOf(outgoing)
  BY <1>1
<1> QED
  BY <1>1, <1>10, <1>11
  DEF SocketInv, SocketTypes, Outgoing, InOrder, ClientAtIt, ServerPastEnd,
      ServerWrites, ReportsSent, FileRight

\* The server's other steps, and its death.
LEMMA ServerStepInvariant ==
    ASSUME SocketInv,
           \/ EndOfStream \/ ConnectionReset \/ Decode \/ OpenFile
           \/ WriteFile \/ SendAck \/ ServerDies
    PROVE  SocketInv'
<1>1. /\ UNCHANGED <<data, clientWarm, serverWarm, outgoing, client, written,
                     stream, reported, received, partial>>
  BY DEF EndOfStream, ConnectionReset, Decode, OpenFile, WriteFile, SendAck,
         ServerDies, given, clientVars
<1>2. Read' = Read /\ UnitsOf(outgoing)' = UnitsOf(outgoing)
      /\ UnitsOf(received)' = UnitsOf(received)
      /\ Decoded(received, serverWarm)' = Decoded(received, serverWarm)
  BY <1>1 DEF Read
<1>3. Outgoing' /\ InOrder' /\ ClientAtIt'
  BY <1>1, <1>2 DEF SocketInv, Outgoing, InOrder, ClientAtIt
<1>4. data \in Seq(Chunks) /\ UnitsOf(received) \in Nat /\ partial \in Nat
  BY InputsAssumption, UnitsBegin
  DEF SocketInv, SocketTypes, Outgoing, InOrder
<1>5. ack = -1 \/ server = "returned"
  BY DEF SocketInv, ReportsSent
<1>6. CASE EndOfStream
  <2>1. /\ server = "reading" /\ stream = "ended" /\ Read = written
        /\ server' \in {"decode", "failed"}
        /\ server' = "decode" => partial = 0
        /\ UNCHANGED <<file, ack>>
    BY <1>6 DEF EndOfStream, AtFrameBoundary
  <2>2. client \notin {"start", "sending"}
    BY <2>1 DEF SocketInv, ClientAtIt
  <2>3. server' = "decode" => UnitsOf(received) = written
    BY <1>4, <2>1 DEF Read
  <2> QED
    BY <1>1, <1>2, <1>3, <1>5, <2>1, <2>2, <2>3
    DEF SocketInv, SocketTypes, ServerPastEnd, ServerWrites, ReportsSent, FileRight
<1>7. CASE ConnectionReset \/ ServerDies
  <2>1. server # "returned" /\ server' = "failed" /\ UNCHANGED <<file, ack>>
    BY <1>7 DEF ConnectionReset, ServerDies, ServerOver
  <2> QED
    BY <1>1, <1>2, <1>3, <1>5, <2>1
    DEF SocketInv, SocketTypes, ServerPastEnd, ServerWrites, ReportsSent, FileRight
<1>8. CASE Decode
  <2>1. /\ server = "decode" /\ server' \in {"write", "failed"}
        /\ server' = "write" => Decoded(received, serverWarm).ok
        /\ UNCHANGED <<file, ack>>
    BY <1>8 DEF Decode
  <2> QED
    BY <1>1, <1>2, <1>3, <1>5, <2>1
    DEF SocketInv, SocketTypes, ServerPastEnd, ServerWrites, ReportsSent, FileRight
<1>9. CASE OpenFile
  <2>1. /\ server = "write" /\ server' = "writing" /\ file' = <<>>
        /\ UNCHANGED ack
    BY <1>9 DEF OpenFile
  <2>2. IsPrefix(<<>>, data)
        /\ <<>> \in Seq(Chunks) /\ Begins(<<>>, Decoded(received, serverWarm).output)
    <3>1. <<>> \in Seq(Chunks) /\ Len(<<>>) = 0 /\ Len(data) \in Nat
          /\ Len(Decoded(received, serverWarm).output) \in Nat
      BY <1>4, ServerBuilds, LenProperties
    <3>2. Begins(<<>>, data) /\ Begins(<<>>, Decoded(received, serverWarm).output)
      BY <3>1 DEF Begins
    <3> QED
      BY <1>4, <3>1, <3>2, BeginsIsPrefix
  <2> QED
    BY <1>1, <1>2, <1>3, <1>5, <2>1, <2>2
    DEF SocketInv, SocketTypes, ServerPastEnd, ServerWrites, ReportsSent, FileRight
<1>10. CASE WriteFile
  <2> DEFINE whole == Decoded(received, serverWarm).output
  <2>0. /\ server = "writing" /\ UNCHANGED ack
        /\ \/ /\ Len(file) < Len(received)
              /\ file' = Append(file, whole[Len(file) + 1])
              /\ server' = "writing"
           \/ /\ Len(file) = Len(received)
              /\ server' = "ack" /\ file' = file
    BY <1>10 DEF WriteFile
  <2>1. /\ server = "writing" /\ UNCHANGED ack
        /\ \/ /\ Len(file) < Len(whole)
              /\ file' = Append(file, whole[Len(file) + 1])
              /\ server' = "writing"
           \/ /\ Len(file) = Len(whole)
              /\ server' = "ack" /\ file' = file
    <3>1. Len(whole) = Len(received)
      BY <2>0, ServerBuilds DEF SocketInv, ServerWrites
    <3> QED
      BY <2>0, <3>1
  <2>2. /\ file \in Seq(Chunks) /\ Begins(file, whole)
        /\ whole \in Seq(Chunks) /\ Begins(whole, data)
    BY <2>1, ServerBuilds DEF SocketInv, ServerWrites
  <2>3. Decoded(received, serverWarm).ok /\ whole' = whole
    BY <1>2, <2>1 DEF SocketInv, ServerWrites
  <2> HIDE DEF whole
  <2>4. Len(file) \in Nat /\ Len(whole) \in Nat /\ Len(data) \in Nat
        /\ Len(file) <= Len(whole) /\ Len(whole) <= Len(data)
    BY <1>4, <2>2, LenProperties DEF Begins
  <2>5. CASE /\ Len(file) < Len(whole) /\ server' = "writing"
             /\ file' = Append(file, whole[Len(file) + 1])
    <3> DEFINE k == Len(file)
               new == Append(file, whole[k + 1])
    <3>1. k + 1 \in 1 .. Len(whole) /\ k \in Nat
      BY <2>4, <2>5
    <3>2. whole[k + 1] \in Chunks
      BY <2>2, <3>1, ElementOfSeq
    <3>3. /\ new \in Seq(Chunks) /\ Len(new) = k + 1 /\ new[k + 1] = whole[k + 1]
          /\ \A i \in 1 .. k : new[i] = file[i]
      BY <2>2, <3>2, Appended
    <3>4. file' = new
      BY <2>5
    <3> HIDE DEF k, new
    <3>5. ASSUME NEW i \in 1 .. k + 1 PROVE new[i] = whole[i]
      <4>1. i \in 1 .. k \/ i = k + 1
        BY <3>1
      <4> QED
        BY <2>2, <3>3, <4>1 DEF Begins, k
    <3>6. Begins(new, whole)
      BY <2>4, <3>1, <3>3, <3>5 DEF Begins
    <3>7. Begins(new, data)
      BY <2>2, <2>4, <3>1, <3>3, <3>5, <3>6 DEF Begins
    <3>8. IsPrefix(file', data)
      BY <1>4, <3>3, <3>4, <3>7, BeginsIsPrefix
    <3>9. ServerWrites'
      <4>1. file' \in Seq(Chunks) /\ Begins(file', whole')
        BY <2>3, <3>3, <3>4, <3>6
      <4>2. (Decoded(received, serverWarm).ok)' /\ server' = "writing"
        BY <1>2, <2>3, <2>5
      <4> QED
        BY <4>1, <4>2 DEF ServerWrites, whole
    <3> QED
      BY <1>1, <1>2, <1>3, <1>5, <2>1, <2>5, <3>8, <3>9
      DEF SocketInv, SocketTypes, ServerPastEnd, ReportsSent, FileRight
  <2>6. CASE Len(file) = Len(whole) /\ server' = "ack" /\ file' = file
    <3>1. file = whole
      BY <2>2, <2>6, SeqEqual DEF Begins
    <3>2. ServerWrites'
      <4>1. (Decoded(received, serverWarm).ok)' /\ server' = "ack" /\ file' = whole'
        BY <1>2, <2>3, <2>6, <3>1
      <4> QED
        BY <4>1 DEF ServerWrites, whole
    <3> QED
      BY <1>1, <1>2, <1>3, <1>5, <2>1, <2>6, <3>2
      DEF SocketInv, SocketTypes, ServerPastEnd, ReportsSent, FileRight
  <2> QED
    BY <2>1, <2>5, <2>6
<1>11. CASE SendAck
  <2>1. /\ server = "ack" /\ UNCHANGED file
        /\ \/ server' = "returned" /\ ack' = Len(received)
           \/ server' = "failed" /\ ack' = ack
    BY <1>11 DEF SendAck, Written
  <2>2. ack = -1 /\ reported = 0 /\ Len(received) \in Nat
    BY <1>5, <2>1, LenProperties DEF SocketInv, SocketTypes, ReportsSent
  <2> QED
    BY <1>1, <1>2, <1>3, <2>1, <2>2
    DEF SocketInv, SocketTypes, ServerPastEnd, ServerWrites, ReportsSent, FileRight
<1> QED
  BY <1>6, <1>7, <1>8, <1>9, <1>10, <1>11

\* Both processes keep the invariant, whatever is cut, killed or late.
LEMMA SocketInvariant == SocketSpec => []SocketInv
<1>1. SocketInit => SocketInv
  BY SocketInitInvariant
<1>2. SocketInv /\ SocketNext => SocketInv'
  BY ClientStepInvariant, ReceiveInvariant, ServerStepInvariant
  DEF SocketNext, ServerStep
<1>3. SocketInv /\ UNCHANGED socketVars => SocketInv'
  <2> SUFFICES ASSUME SocketInv, UNCHANGED socketVars PROVE SocketInv'
    OBVIOUS
  <2>1. UNCHANGED <<data, clientWarm, serverWarm, outgoing, client, written,
                    stream, reported, server, received, partial, file, ack>>
    BY DEF socketVars, given, clientVars, serverVars
  <2> QED
    BY <2>1
    DEF SocketInv, SocketTypes, Outgoing, InOrder, ClientAtIt, ServerPastEnd,
        ServerWrites, ReportsSent, FileRight, Read
<1> QED
  BY <1>1, <1>2, <1>3, PTL DEF SocketSpec

\* A client that is told of bytes is told the truth, the server reads the
\* first frames, and its file never holds a wrong chunk: for every input,
\* every pair of warm dictionaries, every way the stream is cut and every
\* moment a process dies.
THEOREM ReportsAreTheTruth == SocketSpec => []AckTellsTruth
<1>1. SocketInv => AckTellsTruth
  <2> SUFFICES ASSUME SocketInv PROVE AckTellsTruth
    OBVIOUS
  <2>1. /\ data \in Seq(Chunks) /\ received \in Seq(ModelFrames)
        /\ outgoing \in Seq(ModelFrames) /\ Begins(received, outgoing)
        /\ Len(outgoing) = Len(data)
    BY InputsAssumption DEF SocketInv, SocketTypes, Outgoing, InOrder
  <2>2. IsPrefix(received, outgoing)
    BY <2>1, BeginsIsPrefix
  <2>3. ASSUME reported > 0 PROVE reported = Len(data) /\ file = data
    <3> DEFINE whole == Decoded(received, serverWarm).output
    <3>1. /\ client = "done" /\ ack = reported /\ reported \in Nat
          /\ server = "returned" /\ ack = Len(received)
      BY <2>3 DEF SocketInv, SocketTypes, ReportsSent
    <3>2. UnitsOf(received) = UnitsOf(outgoing) /\ file = whole
          /\ Decoded(received, serverWarm).ok
      BY <3>1 DEF SocketInv, ClientAtIt, ServerPastEnd, ServerWrites
    <3>3. /\ whole \in Seq(Chunks) /\ Begins(whole, data)
          /\ Len(whole) = Len(received)
      BY <3>2, ServerBuilds
    <3> HIDE DEF whole
    <3>4. PICK k, l : k = Len(received) /\ l = Len(outgoing) /\ k \in Nat
                      /\ l \in Nat /\ k <= l
      BY <2>1, LenProperties DEF Begins
    <3>5. UnitsOf(received) + 2 * (l - k) <= UnitsOf(outgoing)
          /\ UnitsOf(received) \in Nat
      BY <2>1, <3>4, UnitsBegin
    <3>6. k = l
      BY <3>2, <3>4, <3>5
    <3>7. whole = data
      BY <2>1, <3>3, <3>4, <3>6, SeqEqual DEF Begins
    <3> QED
      BY <2>1, <3>1, <3>2, <3>4, <3>6, <3>7
  <2>4. file # OldFile => IsPrefix(file, data)
    BY DEF SocketInv, FileRight
  <2> QED
    BY <2>2, <2>3, <2>4 DEF AckTellsTruth
<1> QED
  BY <1>1, SocketInvariant, PTL
-----------------------------------------------------------------------------
(* The codecs side by side.  A run of one of them is a run of its module,  *)
(* whose theorems hold of it.                                              *)

LEMMA SecureAlone == codec = "secure" /\ CodecsSpec => S!SecureSpec
<1>1. codec = "secure" /\ CodecsInit => S!SecureInit
  BY DEF CodecsInit
<1>2. codec = "secure" /\ [CodecsNext]_codecsVars
      => (codec = "secure")' /\ [S!SecureNext]_(S!secureVars)
  BY DEF CodecsNext, codecsVars, theirs, encoder, checks, S!secureVars, S!source
<1> QED
  BY <1>1, <1>2, PTL DEF CodecsSpec, S!SecureSpec

LEMMA ObjectsAlone == codec = "objects" /\ CodecsSpec => S!ObjectSpec
<1>1. codec = "objects" /\ CodecsInit => S!ObjectInit
  BY DEF CodecsInit
<1>2. codec = "objects" /\ [CodecsNext]_codecsVars
      => (codec = "objects")' /\ [S!ObjectNext]_(S!objectVars)
  BY DEF CodecsNext, codecsVars, theirs, object, checks, S!objectVars, S!given
<1> QED
  BY <1>1, <1>2, PTL DEF CodecsSpec, S!ObjectSpec

LEMMA RepairAlone == codec = "repair" /\ CodecsSpec => R!RepairSpec
<1>1. codec = "repair" /\ CodecsInit => R!RepairInit
  BY DEF CodecsInit
<1>2. codec = "repair" /\ [CodecsNext]_codecsVars
      => (codec = "repair")' /\ [R!RepairNext]_(R!repairVars)
  BY DEF CodecsNext, codecsVars, theirs, repair, R!repairVars, R!given, R!encoding
<1> QED
  BY <1>1, <1>2, PTL DEF CodecsSpec, R!RepairSpec

\* No codec turns into another.
LEMMA CodecStays ==
    ASSUME [CodecsNext]_codecsVars
    PROVE  codec' = codec
  BY DEF CodecsNext, codecsVars

LEMMA SecurePromises ==
    S!SecureSpec => [](/\ S!SecureTypeOK
                       /\ S!FailsClosed /\ S!CleanListAccepted /\ S!DictionariesAgree)
<1> USE CidAssumption, LengthAssumption, CapacityAssumption, InputsAssumption
    DEF IsInjective, S!IsInjective
<1>1. S!SecureSpec => []S!SecureTypeOK
  BY S!SecureTypeCorrect
<1>2. S!SecureSpec => []S!FailsClosed
  BY S!SecureFailsClosed
<1>3. S!SecureSpec => []S!CleanListAccepted
  BY S!CleanListsAccepted, CodecsAssumption
<1>4. S!SecureSpec => []S!DictionariesAgree
  BY S!SecureDictionariesAgree
<1> QED
  BY <1>1, <1>2, <1>3, <1>4, PTL

LEMMA ObjectPromises ==
    S!ObjectSpec => [](/\ S!ObjectTypeOK
                       /\ S!ObjectsFailClosed /\ S!CleanRecordsAccepted /\ S!BoundariesKept)
<1> USE CidAssumption, LengthAssumption, CapacityAssumption, InputsAssumption,
        CodecsAssumption DEF IsInjective, S!IsInjective
<1>1. S!ObjectSpec => []S!ObjectTypeOK
  BY S!ObjectTypeCorrect
<1>2. S!ObjectSpec => []S!ObjectsFailClosed
  BY S!ObjectsFailClosedProved
<1>3. S!ObjectSpec => []S!CleanRecordsAccepted
  BY S!CleanRecordsAreAccepted
<1>4. S!ObjectSpec => []S!BoundariesKept
  BY S!BoundariesAreKept
<1> QED
  BY <1>1, <1>2, <1>3, <1>4, PTL

LEMMA RepairPromises ==
    R!RepairSpec => [](/\ R!RepairTypeOK
                       /\ R!SenderFollowsEncoder /\ R!EveryMissRepaired /\ R!MissedOnce
                       /\ IsPrefix(out, taken) /\ (at = "done" => out = taken))
<1> USE CidAssumption, LengthAssumption, CapacityAssumption, InputsAssumption
    DEF IsInjective, R!IsInjective
<1>1. R!RepairSpec => []R!RepairTypeOK
  BY R!RepairTypeCorrect
<1>2. R!RepairSpec => []R!SenderFollowsEncoder
  BY R!SenderFollows
<1>3. R!RepairSpec => []R!EveryMissRepaired
  BY R!MissesAreRepaired
<1>4. R!RepairSpec => []R!MissedOnce
  BY R!MissesCostOnce
<1>5. R!RepairSpec => [](R!IsPrefix(out, taken) /\ (at = "done" => out = taken))
  BY R!RepairBuildsInput
<1>6. R!IsPrefix(out, taken) => IsPrefix(out, taken)
  BY DEF R!IsPrefix, IsPrefix
<1> QED
  BY <1>1, <1>2, <1>3, <1>4, <1>5, <1>6, PTL

\* The codec of authenticated frames and the decoder of objects hand out exactly
\* what was made, and refuse nothing that was not touched.
THEOREM CodecsDecodeWhatWasMade == CodecsSpec => []DecodesWhatWasMade
<1> DEFINE Secured == /\ S!SecureTypeOK
                      /\ S!FailsClosed /\ S!CleanListAccepted /\ S!DictionariesAgree
           Rebuilt == /\ S!ObjectTypeOK
                      /\ S!ObjectsFailClosed /\ S!CleanRecordsAccepted /\ S!BoundariesKept
<1>1. codec = "secure" /\ CodecsSpec => []Secured
  BY SecureAlone, SecurePromises, PTL
<1>2. codec = "objects" /\ CodecsSpec => []Rebuilt
  BY ObjectsAlone, ObjectPromises, PTL
<1>3. ~ (codec = "secure") /\ [CodecsNext]_codecsVars => (~ (codec = "secure"))'
  BY CodecStays
<1>4. ~ (codec = "objects") /\ [CodecsNext]_codecsVars => (~ (codec = "objects"))'
  BY CodecStays
<1>5. (~ (codec = "secure") \/ Secured) /\ (~ (codec = "objects") \/ Rebuilt)
      => DecodesWhatWasMade
  BY DEF DecodesWhatWasMade
<1> QED
  BY <1>1, <1>2, <1>3, <1>4, <1>5, PTL DEF CodecsSpec

\* A sender that touches its FULL frames repairs every miss, once while nothing
\* need be evicted, and the receiver builds the input.
THEOREM CodecsRepairMisses == CodecsSpec => []MissesRepaired
<1> DEFINE Repaired == /\ R!RepairTypeOK
                       /\ R!SenderFollowsEncoder /\ R!EveryMissRepaired /\ R!MissedOnce
                       /\ IsPrefix(out, taken) /\ (at = "done" => out = taken)
<1>1. codec = "repair" /\ CodecsSpec => []Repaired
  BY RepairAlone, RepairPromises, PTL
<1>2. ~ (codec = "repair") /\ [CodecsNext]_codecsVars => (~ (codec = "repair"))'
  BY CodecStays
<1>3. ~ (codec = "repair") \/ Repaired => MissesRepaired
  BY DEF MissesRepaired
<1> QED
  BY <1>1, <1>2, <1>3, PTL DEF CodecsSpec
=============================================================================
