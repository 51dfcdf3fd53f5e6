---------------------------- MODULE SecureProofs ----------------------------
(***************************************************************************)
(* The codec of authenticated frames, for all inputs, warm bytes and       *)
(* capacities of its dictionary and of its replay window: it decodes an    *)
(* untouched beginning of the list encode made, and from the same warm     *)
(* bytes all of one.  And the decoder of object records, for all lists of  *)
(* objects with distinct names, warm chunks and window capacities, in      *)
(* either mode: it decodes what was made and refuses nothing untouched.    *)
(***************************************************************************)
EXTENDS SecureCodec, ObjectCodec, EncodingProofs

\* The size of the first i chunks of some data.
SizeAt(data, i) == FoldLeft(Advanced, 0, SubSeq(data, 1, i))

\* The offset after the first i chunks of the input.
OffsetAfter(i) == SizeAt(input, i)

\* What encode made for chunk i of the input.
FrameMade(i) ==
    [kind |-> FrameOf(input[i], EncoderBefore(i, input, senderWarm)).kind,
     chunk |-> input[i], nonce |-> i, offset |-> OffsetAfter(i - 1),
     genuine |-> TRUE]

\* What is fixed from the start: the ends' dictionaries and the encoder's frames.
Source ==
    /\ input \in Seq(Chunks)
    /\ SoundDictionary(senderWarm, MaxDictChunks)
    /\ made = SecurelyEncoded(input, senderWarm)

\* decode has accepted the frames of the chunks it has returned, and of no
\* other; a frame it refused was not the next one of the list encode made, where
\* both ends began with the same dictionary.
InStep ==
    /\ Begins(output, input)
    /\ expected = OffsetAfter(Len(output))
    /\ seenNonces.highest = Len(output)
    /\ seenNonces.seen \subseteq 1 .. Len(output)
    /\ pc # "rejected" => Begins(handed, made) /\ Len(handed) = Len(output)
    /\ pc = "rejected" /\ senderWarm = receiverWarm /\ WindowSize \in Nat
         => ~ Begins(handed, made)

SecureInv ==
    /\ SecureTypeOK
    /\ Source
    /\ SoundDictionary(dictionary, MaxDictChunks)
    /\ InStep
    /\ DictionariesAgree

\* The frames encode made are among those decode can be handed.
LEMMA MadeShape ==
    ASSUME Source
    PROVE  /\ Len(made) = Len(input) /\ Len(input) \in Nat
           /\ made \in Seq(Offered)
           /\ \A i \in 1 .. Len(input) : made[i] = FrameMade(i) /\ input[i] \in Chunks
<1>1. input \in Seq(Chunks) /\ made = SecurelyEncoded(input, senderWarm)
  BY DEF Source
<1>2. /\ Len(input) \in Nat /\ DOMAIN input = 1 .. Len(input)
      /\ \A i \in 1 .. Len(input) : input[i] \in Chunks
  BY <1>1, LenProperties, ElementOfSeq
<1>3. /\ DOMAIN made = 1 .. Len(input) /\ made = [i \in DOMAIN made |-> made[i]]
      /\ \A i \in 1 .. Len(input) : made[i] = FrameMade(i)
  <2>1. ASSUME NEW i \in 1 .. Len(input) PROVE made[i] = FrameMade(i)
    BY <1>1, <1>2 DEF SecurelyEncoded, Encoded, FrameMade, OffsetAfter, SizeAt
  <2>2. DOMAIN made = 1 .. Len(input) /\ made = [i \in DOMAIN made |-> made[i]]
    BY <1>1, <1>2 DEF SecurelyEncoded
  <2> QED
    BY <2>1, <2>2
<1>4. Len(made) = Len(input)
  BY <1>1, SecurelyEncodedCovers
<1>5. ASSUME NEW i \in 1 .. Len(input) PROVE made[i] \in Offered
  <2>1. made[i] \in ToSet(made)
    BY <1>3 DEF ToSet
  <2>2. made[i] = [made[i] EXCEPT !.genuine = TRUE]
    BY <1>3 DEF FrameMade
  <2>3. \E f \in ToSet(made), g \in BOOLEAN : made[i] = [f EXCEPT !.genuine = g]
    BY <2>1, <2>2, Zenon
  <2> QED
    BY <2>3 DEF Offered
<1>6. made \in Seq(Offered)
  <2>1. made \in [1 .. Len(input) -> Offered]
    BY <1>3, <1>5
  <2> QED
    BY <1>2, <2>1, SeqDef
<1> QED
  BY <1>2, <1>3, <1>4, <1>6

\* A frame that is handed over is one encode made, but for its tag.
LEMMA OfferedShape ==
    ASSUME Source, NEW f \in Offered
    PROVE  \E j \in 1 .. Len(input) :
              /\ f.kind = FrameMade(j).kind /\ f.chunk = input[j]
              /\ f.nonce = j /\ f.offset = OffsetAfter(j - 1)
              /\ f.genuine => f = made[j]
<1>1. /\ Len(made) = Len(input) /\ Len(input) \in Nat /\ made \in Seq(Offered)
      /\ \A i \in 1 .. Len(input) : made[i] = FrameMade(i)
  BY MadeShape
<1>2. PICK m \in ToSet(made), g \in BOOLEAN : f = [m EXCEPT !.genuine = g]
  BY DEF Offered
<1>3. PICK j \in 1 .. Len(input) : m = made[j]
  <2>1. DOMAIN made = 1 .. Len(input)
    BY <1>1, LenProperties
  <2> QED
    BY <2>1 DEF ToSet
<1>4. f = [FrameMade(j) EXCEPT !.genuine = g]
  BY <1>1, <1>2, <1>3
<1>5. /\ f.kind = FrameMade(j).kind /\ f.chunk = input[j]
      /\ f.nonce = j /\ f.offset = OffsetAfter(j - 1) /\ f.genuine = g
  BY <1>4 DEF FrameMade
<1>6. f.genuine => f = made[j]
  <2> SUFFICES ASSUME f.genuine PROVE f = made[j]
    OBVIOUS
  <2>1. g = TRUE
    BY <1>5
  <2>2. f = FrameMade(j)
    BY <1>4, <2>1 DEF FrameMade
  <2> QED
    BY <1>1, <2>2
<1> QED
  BY <1>5, <1>6

\* Every chunk of some data is at an offset of its own.
LEMMA SizesGrow ==
    ASSUME NEW data \in Seq(Chunks)
    PROVE  /\ SizeAt(data, 0) = 0
           /\ \A i \in 0 .. Len(data) : SizeAt(data, i) \in Nat
           /\ \A i \in 1 .. Len(data) :
                SizeAt(data, i) = SizeAt(data, i - 1) + LengthOf[data[i]]
           /\ \A i, j \in 0 .. Len(data) : i < j => SizeAt(data, i) < SizeAt(data, j)
<1>1. /\ data \in Seq(Chunks) /\ Len(data) \in Nat
      /\ \A i \in 1 .. Len(data) : LengthOf[data[i]] \in Nat \ {0}
  BY LenProperties, ElementOfSeq, LengthAssumption
<1>2. SizeAt(data, 0) = 0
  <2>1. SubSeq(data, 1, 0) \in Seq(Chunks) /\ Len(SubSeq(data, 1, 0)) = 0
    BY <1>1, Beginning
  <2>2. FoldLeft(Advanced, 0, SubSeq(data, 1, 0)) = 0 * 0
    <3>1. 0 \in Nat /\ \A j \in 1 .. 0 : LengthOf[SubSeq(data, 1, 0)[j]] = 0
      OBVIOUS
    <3> QED
      BY <2>1, <3>1, LengthFold
  <2> QED
    BY <2>2 DEF SizeAt
<1>3. \A i \in 1 .. Len(data) :
          SizeAt(data, i) = SizeAt(data, i - 1) + LengthOf[data[i]]
  BY <1>1, AdvancedOneMore DEF SizeAt, Advanced
<1> DEFINE P == {k \in Nat : k <= Len(data) =>
                    /\ \A i \in 0 .. k : SizeAt(data, i) \in Nat
                    /\ \A i \in 0 .. k - 1 : SizeAt(data, i) < SizeAt(data, k)}
<1>4. 0 \in P
  BY <1>2
<1>5. ASSUME NEW k \in P PROVE k + 1 \in P
  <2> SUFFICES ASSUME k + 1 <= Len(data)
               PROVE  /\ \A i \in 0 .. k + 1 : SizeAt(data, i) \in Nat
                      /\ \A i \in 0 .. (k + 1) - 1 : SizeAt(data, i) < SizeAt(data, k + 1)
    OBVIOUS
  <2>1. /\ k \in Nat /\ k + 1 \in 1 .. Len(data) /\ (k + 1) - 1 = k
        /\ \A i \in 0 .. k : SizeAt(data, i) \in Nat
        /\ \A i \in 0 .. k - 1 : SizeAt(data, i) < SizeAt(data, k)
    BY <1>1
  <2>2. PICK l : l = LengthOf[data[k + 1]] /\ l \in Nat \ {0}
    BY <1>1, <2>1
  <2>3. PICK o : o = SizeAt(data, k) /\ o \in Nat
    BY <2>1
  <2>4. SizeAt(data, k + 1) = o + l
    BY <1>3, <2>1, <2>2, <2>3
  <2>5. ASSUME NEW i \in 0 .. k PROVE SizeAt(data, i) < SizeAt(data, k + 1)
    <3>1. PICK p : p = SizeAt(data, i) /\ p \in Nat
      BY <2>1
    <3>2. p <= o
      <4>1. i = k \/ i \in 0 .. k - 1
        BY <2>1
      <4> QED
        BY <2>1, <2>3, <3>1, <4>1
    <3> QED
      BY <2>2, <2>3, <2>4, <3>1, <3>2
  <2>6. ASSUME NEW i \in 0 .. k + 1 PROVE SizeAt(data, i) \in Nat
    <3>1. i \in 0 .. k \/ i = k + 1
      BY <2>1
    <3> QED
      BY <2>1, <2>2, <2>3, <2>4, <3>1
  <2> QED
    BY <2>1, <2>5, <2>6
<1>6. P = Nat
  <2>1. P \subseteq Nat
    OBVIOUS
  <2> HIDE DEF P
  <2> QED
    BY <1>4, <1>5, <2>1, AllOfNat
<1>7. \A i \in 0 .. Len(data) : SizeAt(data, i) \in Nat
  BY <1>1, <1>6
<1>8. ASSUME NEW i \in 0 .. Len(data), NEW j \in 0 .. Len(data), i < j
      PROVE  SizeAt(data, i) < SizeAt(data, j)
  <2>1. j \in Nat /\ i \in 0 .. j - 1 /\ j <= Len(data)
    <3>1. PICK l : l = Len(data) /\ l \in Nat
      BY <1>1
    <3>2. i \in 0 .. l /\ j \in 0 .. l
      BY <3>1
    <3> QED
      BY <1>8, <3>1, <3>2
  <2>2. j \in P
    BY <1>6, <2>1
  <2> QED
    BY <2>1, <2>2
<1> QED
  BY <1>2, <1>3, <1>7, <1>8

\* Every chunk of the input is at an offset of its own.
LEMMA OffsetsGrow ==
    ASSUME Source
    PROVE  /\ OffsetAfter(0) = 0
           /\ \A i \in 0 .. Len(input) : OffsetAfter(i) \in Nat
           /\ \A i \in 1 .. Len(input) :
                OffsetAfter(i) = OffsetAfter(i - 1) + LengthOf[input[i]]
           /\ \A i, j \in 0 .. Len(input) : i < j => OffsetAfter(i) < OffsetAfter(j)
BY SizesGrow DEF Source, OffsetAfter

\* The encoder's dictionary, chunk by chunk.
LEMMA EncoderSteps ==
    ASSUME Source
    PROVE  /\ EncoderBefore(1, input, senderWarm) = senderWarm
           /\ \A i \in 1 .. Len(input) :
                EncoderBefore(i + 1, input, senderWarm)
                  = Remembered(EncoderBefore(i, input, senderWarm), input[i])
<1>1. /\ input \in Seq(Chunks) /\ Len(input) \in Nat
      /\ SoundDictionary(senderWarm, MaxDictChunks)
  BY LenProperties DEF Source
<1>2. FoldLeft(Remembered, senderWarm, SubSeq(input, 1, 0)) = senderWarm
  <2> DEFINE p == SubSeq(input, 1, 0)
  <2>1. p \in Seq(Chunks) /\ DOMAIN p = {}
    <3>1. p \in Seq(Chunks) /\ DOMAIN p = 1 .. 0
      BY <1>1, Beginning
    <3> QED
      BY <3>1
  <2>2. PICK g : /\ g = [s \in SUBSET DOMAIN p |->
                           IF s = {} THEN senderWarm
                           ELSE Remembered(g[s \ {Max(s)}], p[Max(s)])]
                 /\ FoldLeft(Remembered, senderWarm, p) = g[DOMAIN p]
    BY <1>1, <2>1, RememberedRecursion
  <2> HIDE DEF p
  <2>3. {} \in SUBSET DOMAIN p
    OBVIOUS
  <2>4. g[{}] = senderWarm
    BY <2>2, <2>3, Zenon
  <2>5. FoldLeft(Remembered, senderWarm, p) = senderWarm
    BY <2>1, <2>2, <2>4
  <2> QED
    BY <2>5 DEF p
<1>3. ASSUME NEW i \in 1 .. Len(input)
      PROVE  EncoderBefore(i + 1, input, senderWarm)
               = Remembered(EncoderBefore(i, input, senderWarm), input[i])
  <2>1. (i + 1) - 1 = i
    BY <1>1
  <2>2. FoldLeft(Remembered, senderWarm, SubSeq(input, 1, i))
          = Remembered(FoldLeft(Remembered, senderWarm, SubSeq(input, 1, i - 1)), input[i])
    BY <1>1, RememberedOneMore
  <2> QED
    BY <2>1, <2>2 DEF EncoderBefore
<1>4. 1 - 1 = 0
  OBVIOUS
<1> QED
  BY <1>2, <1>3, <1>4 DEF EncoderBefore

\* Before anything is handed over.
LEMMA SecureInitInvariant == SecureInit => SecureInv
<1> SUFFICES ASSUME SecureInit PROVE SecureInv
  OBVIOUS
<1>1. Source /\ SoundDictionary(dictionary, MaxDictChunks)
  BY WarmSound, InputsAssumption, CapacityAssumption DEF SecureInit, Source
<1>2. output = << >> /\ handed = << >> /\ pc = "decode" /\ expected = 0
      /\ seenNonces = [highest |-> 0, seen |-> {}] /\ dictionary = receiverWarm
  BY DEF SecureInit, EmptyWindow
<1>3. output \in Seq(Chunks) /\ handed \in Seq(Offered) /\ Len(output) = 0 /\ Len(handed) = 0
  BY <1>2, EmptySeq
<1>4. SecureTypeOK
  BY <1>1, <1>2, <1>3 DEF SecureTypeOK, Windows, SoundDictionary
<1>5. InStep
  <2>1. Len(input) \in Nat /\ Len(made) = Len(input)
    BY <1>1, MadeShape
  <2>2. Begins(output, input) /\ Begins(handed, made)
    BY <1>3, <2>1 DEF Begins
  <2>3. OffsetAfter(0) = 0
    BY <1>1, OffsetsGrow
  <2> QED
    BY <1>2, <1>3, <2>2, <2>3 DEF InStep
<1>6. DictionariesAgree
  <2>1. EncoderBefore(1, input, senderWarm) = senderWarm /\ Len(output) + 1 = 1
    BY <1>1, <1>3, EncoderSteps
  <2> QED
    BY <1>2, <2>1 DEF DictionariesAgree
<1> QED
  BY <1>1, <1>4, <1>5, <1>6 DEF SecureInv

\* Only the frame decode waits for is accepted, and it is, if nobody touched it.
LEMMA AcceptedIsNext ==
    ASSUME SecureInv, pc = "decode", NEW f \in Offered
    PROVE  LET n == Len(output)
           IN  /\ n \in Nat /\ n <= Len(input)
               /\ Accepted(f) =>
                    n + 1 \in 1 .. Len(input) /\ f = made[n + 1] /\ f = FrameMade(n + 1)
               /\ n + 1 <= Len(input) /\ f = made[n + 1] /\ WindowSize \in Nat
                    => f = FrameMade(n + 1) /\ Accepted(f)
<1> DEFINE n == Len(output)
<1>1. /\ Source /\ n \in Nat /\ Len(input) \in Nat /\ n <= Len(input)
      /\ expected = OffsetAfter(n)
      /\ seenNonces.highest = n /\ seenNonces.seen \subseteq 1 .. n
      /\ \A i \in 1 .. Len(input) : made[i] = FrameMade(i)
  BY MadeShape, LenProperties DEF SecureInv, SecureTypeOK, InStep, Begins
<1> HIDE DEF n
<1>2. ASSUME Accepted(f)
      PROVE  n + 1 \in 1 .. Len(input) /\ f = made[n + 1] /\ f = FrameMade(n + 1)
  <2>1. PICK j \in 1 .. Len(input) : f.offset = OffsetAfter(j - 1) /\ f = made[j]
    BY <1>1, <1>2, OfferedShape DEF Accepted
  <2>2. OffsetAfter(j - 1) = OffsetAfter(n)
    BY <1>1, <1>2, <2>1 DEF Accepted, InPlace
  <2>3. j - 1 \in 0 .. Len(input) /\ n \in 0 .. Len(input)
    BY <1>1, <2>1
  <2>4. OffsetAfter(j - 1) \in Nat /\ ~ (j - 1 < n) /\ ~ (n < j - 1)
    <3>1. PICK k : k = j - 1 /\ k \in 0 .. Len(input)
      BY <2>3
    <3>2. PICK a : a = OffsetAfter(n) /\ a \in Nat
      BY <1>1, <2>3, OffsetsGrow
    <3>3. /\ k < n => OffsetAfter(k) < OffsetAfter(n)
          /\ n < k => OffsetAfter(n) < OffsetAfter(k)
      BY <1>1, <2>3, <3>1, OffsetsGrow
    <3> QED
      BY <2>2, <3>1, <3>2, <3>3
  <2>5. j = n + 1
    BY <1>1, <2>3, <2>4
  <2> QED
    BY <1>1, <2>1, <2>5
<1>3. ASSUME n + 1 <= Len(input), f = made[n + 1], WindowSize \in Nat
      PROVE  f = FrameMade(n + 1) /\ Accepted(f)
  <2>1. n + 1 \in 1 .. Len(input) /\ (n + 1) - 1 = n
    BY <1>1, <1>3
  <2>2. f = FrameMade(n + 1)
    BY <1>1, <1>3, <2>1
  <2>3. f.genuine /\ f.nonce = n + 1 /\ f.offset = OffsetAfter(n)
    BY <2>1, <2>2 DEF FrameMade
  <2>4. ~ Replayed(seenNonces, WindowSize, n + 1)
    BY <1>1, <1>3 DEF Replayed
  <2> QED
    BY <1>1, <2>2, <2>3, <2>4 DEF Accepted, InPlace
<1> QED
  BY <1>1, <1>2, <1>3 DEF n

\* What every frame that is accepted does, given what it leaves in the
\* dictionary.
LEMMA TakeInvariant ==
    ASSUME SecureInv, NEW f \in Offered, NEW c, NEW d, Take(f, c, d),
           c = f.chunk, SoundDictionary(d, MaxDictChunks),
           senderWarm = receiverWarm =>
              d = Remembered(dictionary, f.chunk)
    PROVE  SecureInv'
<1> DEFINE n == Len(output)
<1>1. /\ pc = "decode" /\ Accepted(f) /\ pc' = pc
      /\ handed' = Append(handed, f) /\ output' = Append(output, c)
      /\ seenNonces' = Remember(seenNonces, WindowSize, f.nonce)
      /\ dictionary' = d /\ expected' = expected + LengthOf[f.chunk]
      /\ UNCHANGED <<input, senderWarm, receiverWarm, made>>
  BY DEF Take, Advance, source
<1>2. /\ n \in Nat /\ n <= Len(input) /\ n + 1 \in 1 .. Len(input)
      /\ f = made[n + 1] /\ f = FrameMade(n + 1)
  BY <1>1, AcceptedIsNext
<1>3. /\ Source /\ Len(made) = Len(input) /\ Len(input) \in Nat
      /\ \A i \in 1 .. Len(input) : input[i] \in Chunks
  BY MadeShape DEF SecureInv
<1>4. f.chunk = input[n + 1] /\ f.nonce = n + 1 /\ c \in Chunks
  BY <1>2, <1>3 DEF FrameMade
<1>5. /\ output \in Seq(Chunks) /\ handed \in Seq(Offered) /\ seenNonces \in Windows
      /\ expected \in Nat /\ expected = OffsetAfter(n)
      /\ Begins(output, input) /\ Begins(handed, made) /\ Len(handed) = n
      /\ seenNonces.highest = n /\ seenNonces.seen \subseteq 1 .. n
  BY <1>1 DEF SecureInv, SecureTypeOK, InStep
<1>6. /\ output' \in Seq(Chunks) /\ Len(output') = n + 1
      /\ \A i \in 1 .. n : output'[i] = output[i]
      /\ output'[n + 1] = c
  BY <1>1, <1>4, <1>5, Appended
<1>7. /\ handed' \in Seq(Offered) /\ Len(handed') = n + 1
      /\ \A i \in 1 .. n : handed'[i] = handed[i]
      /\ handed'[n + 1] = f
  BY <1>1, <1>5, Appended
<1> HIDE DEF n
<1>8. Source'
  BY <1>1, <1>3 DEF Source
<1>9. Begins(output', input') /\ Begins(handed', made')
  <2>1. \A i \in 1 .. n + 1 : i = n + 1 \/ i \in 1 .. n
    BY <1>2
  <2>2. /\ \A i \in 1 .. n : output[i] = input[i] /\ handed[i] = made[i]
    BY <1>5 DEF Begins, n
  <2>3. \A i \in 1 .. n + 1 : output'[i] = input[i] /\ handed'[i] = made[i]
    BY <1>2, <1>4, <1>6, <1>7, <2>1, <2>2
  <2> QED
    BY <1>1, <1>2, <1>3, <1>6, <1>7, <2>3 DEF Begins
<1>10. /\ seenNonces' \in Windows /\ seenNonces'.highest = n + 1
       /\ seenNonces'.seen \subseteq 1 .. n + 1
  <2>1. Later(n, n + 1) = n + 1 /\ n + 1 \in Nat
    BY <1>2 DEF Later
  <2>2. seenNonces'.highest = n + 1
    BY <1>1, <1>4, <1>5, <2>1 DEF Remember
  <2>3. seenNonces'.seen \subseteq seenNonces.seen \cup {n + 1}
    BY <1>1, <1>4 DEF Remember
  <2>4. seenNonces'.seen \subseteq 1 .. n + 1
    BY <1>2, <1>5, <2>3
  <2>5. seenNonces' = [highest |-> seenNonces'.highest, seen |-> seenNonces'.seen]
    BY <1>1 DEF Remember
  <2>6. seenNonces'.seen \in SUBSET Nat
    BY <2>4
  <2> QED
    BY <2>1, <2>2, <2>4, <2>5, <2>6 DEF Windows
<1>11. expected' = OffsetAfter(n + 1) /\ expected' \in Nat
  <2>1. n + 1 \in 0 .. Len(input) /\ (n + 1) - 1 = n
    BY <1>2, <1>3
  <2>2. OffsetAfter(n + 1) = OffsetAfter(n) + LengthOf[input[n + 1]]
        /\ OffsetAfter(n + 1) \in Nat
    BY <1>2, <1>3, <2>1, OffsetsGrow
  <2> QED
    BY <1>1, <1>4, <1>5, <2>2
<1>12. OffsetAfter(Len(output))' = OffsetAfter(n + 1)
  BY <1>1, <1>6 DEF OffsetAfter
<1>13. InStep'
  BY <1>1, <1>6, <1>7, <1>9, <1>10, <1>11, <1>12 DEF InStep
<1>14. SecureTypeOK'
  <2>1. Offered' = Offered
    BY <1>1 DEF Offered
  <2> QED
    BY <1>1, <1>6, <1>7, <1>10, <1>11, <2>1 DEF SecureTypeOK, SoundDictionary
<1>15. DictionariesAgree'
  <2> SUFFICES ASSUME senderWarm = receiverWarm
               PROVE  d = EncoderBefore((n + 1) + 1, input, senderWarm)
    BY <1>1, <1>6 DEF DictionariesAgree
  <2>1. dictionary = EncoderBefore(n + 1, input, senderWarm)
    BY DEF SecureInv, DictionariesAgree, n
  <2> QED
    BY <1>2, <1>3, <1>4, <2>1, EncoderSteps
<1> QED
  BY <1>1, <1>8, <1>13, <1>14, <1>15 DEF SecureInv

\* A FULL is remembered at both ends.
LEMMA TakeFullInvariant ==
    ASSUME SecureInv, NEW f \in Offered, TakeFull(f)
    PROVE  SecureInv'
<1> DEFINE n == Len(output)
<1>1. /\ pc = "decode" /\ Accepted(f) /\ f.kind = "FULL"
      /\ Take(f, f.chunk, Touched(dictionary, f.chunk))
  BY DEF TakeFull, Take
<1>2. n + 1 \in 1 .. Len(input) /\ f = FrameMade(n + 1)
  BY <1>1, AcceptedIsNext
<1>3. f.chunk = input[n + 1] /\ f.chunk \in Chunks
  BY <1>2, MadeShape DEF SecureInv, FrameMade
<1>4. SoundDictionary(Touched(dictionary, f.chunk), MaxDictChunks)
  BY <1>3, TouchedSound DEF SecureInv
<1>5. ASSUME senderWarm = receiverWarm
      PROVE  Touched(dictionary, f.chunk) = Remembered(dictionary, f.chunk)
  <2>1. dictionary = EncoderBefore(n + 1, input, senderWarm)
    BY <1>5 DEF SecureInv, DictionariesAgree
  <2>2. CidOf[f.chunk] \notin Keys(dictionary)
    BY <1>1, <1>2, <1>3, <2>1 DEF FrameMade, FrameOf
  <2> QED
    BY <2>2 DEF Touched, Remembered
<1> QED
  BY <1>1, <1>4, <1>5, TakeInvariant

\* A REF is remembered at neither.
LEMMA TakeRefInvariant ==
    ASSUME SecureInv, NEW f \in Offered, TakeRef(f)
    PROVE  SecureInv'
<1> DEFINE n == Len(output)
<1>1. /\ pc = "decode" /\ Accepted(f) /\ f.kind = "REF" /\ Holds(dictionary, f)
      /\ Take(f, Lookup(dictionary, CidOf[f.chunk]), dictionary)
  BY DEF TakeRef, Take, AfterRef
<1>2. n + 1 \in 1 .. Len(input) /\ f = FrameMade(n + 1)
  BY <1>1, AcceptedIsNext
<1>3. f.chunk = input[n + 1] /\ f.chunk \in Chunks
  BY <1>2, MadeShape DEF SecureInv, FrameMade
<1>4. SoundDictionary(dictionary, MaxDictChunks)
  BY DEF SecureInv
<1>5. Lookup(dictionary, CidOf[f.chunk]) = f.chunk
  BY <1>1, <1>3, <1>4, HoldsIsRight DEF SoundDictionary
<1>6. dictionary = Remembered(dictionary, f.chunk)
  BY <1>1 DEF Holds, Remembered
<1> QED
  BY <1>1, <1>4, <1>5, <1>6, TakeInvariant

\* From the same warm bytes, the frame decode waits for is no miss.
LEMMA NextIsHeld ==
    ASSUME SecureInv, senderWarm = receiverWarm, Len(output) + 1 <= Len(input),
           FrameMade(Len(output) + 1).kind = "REF"
    PROVE  Holds(dictionary, FrameMade(Len(output) + 1))
<1> DEFINE n == Len(output)
           c == input[n + 1]
<1>1. /\ n \in Nat /\ Len(input) \in Nat /\ n + 1 \in 1 .. Len(input)
      /\ SoundDictionary(dictionary, MaxDictChunks)
  BY MadeShape, LenProperties DEF SecureInv, SecureTypeOK
<1>2. c \in Chunks
  BY <1>1, MadeShape DEF SecureInv
<1>3. dictionary = EncoderBefore(n + 1, input, senderWarm)
  BY DEF SecureInv, DictionariesAgree
<1>4. FrameMade(n + 1).kind = FrameOf(c, dictionary).kind /\ FrameMade(n + 1).chunk = c
  BY <1>3 DEF FrameMade
<1> HIDE DEF n, c
<1>5. CidOf[c] \in Keys(dictionary)
  <2>1. FrameOf(c, dictionary).kind = "REF"
    BY <1>4 DEF n
  <2> QED
    BY <2>1 DEF FrameOf
<1>6. Lookup(dictionary, CidOf[c]) \in Chunks /\ CidOf[Lookup(dictionary, CidOf[c])] = CidOf[c]
  BY <1>1, <1>5, LookupFinds DEF SoundDictionary
<1>7. Lookup(dictionary, CidOf[c]) = c
  BY <1>2, <1>6, CidAssumption DEF IsInjective
<1>8. Holds(dictionary, FrameMade(n + 1))
  BY <1>4, <1>5, <1>7 DEF Holds
<1> QED
  BY <1>8 DEF n

\* A frame is refused, and with it the list it ends.
LEMMA RefuseInvariant ==
    ASSUME SecureInv, NEW f \in Offered, Refuse(f)
    PROVE  SecureInv'
<1> DEFINE n == Len(output)
<1>1. /\ pc = "decode" /\ pc' = "rejected" /\ handed' = Append(handed, f)
      /\ ~ Accepted(f) \/ (f.kind = "REF" /\ ~ Holds(dictionary, f))
      /\ UNCHANGED <<input, senderWarm, receiverWarm, made>>
      /\ UNCHANGED <<seenNonces, dictionary, expected, output>>
  BY DEF Refuse, source
<1>2. /\ Source /\ Len(made) = Len(input) /\ Len(input) \in Nat
      /\ handed \in Seq(Offered) /\ Len(handed) = n /\ n \in Nat
  BY <1>1, MadeShape, LenProperties DEF SecureInv, SecureTypeOK, InStep
<1>3. handed' \in Seq(Offered) /\ Len(handed') = n + 1 /\ handed'[n + 1] = f
  BY <1>1, <1>2, Appended
<1>4. ASSUME senderWarm = receiverWarm, WindowSize \in Nat, Begins(handed', made)
      PROVE  FALSE
  <2>1. n + 1 <= Len(input) /\ n + 1 \in 1 .. n + 1
    BY <1>2, <1>3, <1>4 DEF Begins
  <2>2. f = made[n + 1]
    BY <1>3, <1>4, <2>1 DEF Begins
  <2>3. f = FrameMade(n + 1) /\ Accepted(f)
    BY <1>1, <1>4, <2>1, <2>2, AcceptedIsNext
  <2>4. f.kind = "REF" => Holds(dictionary, f)
    BY <1>4, <2>1, <2>3, NextIsHeld
  <2> QED
    BY <1>1, <2>3, <2>4
<1>5. Offered' = Offered /\ Source'
  BY <1>1, <1>2 DEF Offered, Source
<1>6. SecureTypeOK'
  BY <1>1, <1>3, <1>5 DEF SecureInv, SecureTypeOK
<1>7. InStep'
  <2>1. OffsetAfter(Len(output))' = OffsetAfter(Len(output))
    BY <1>1 DEF OffsetAfter
  <2>2. Begins(handed', made') <=> Begins(handed', made)
    BY <1>1
  <2> QED
    BY <1>1, <1>4, <2>1, <2>2 DEF SecureInv, InStep
<1>8. DictionariesAgree'
  BY <1>1 DEF SecureInv, DictionariesAgree
<1> QED
  BY <1>1, <1>5, <1>6, <1>7, <1>8 DEF SecureInv

\* The end of the list, and a stutter.
LEMMA ReturnInvariant ==
    ASSUME SecureInv, Return \/ UNCHANGED secureVars
    PROVE  SecureInv'
<1>1. /\ UNCHANGED <<input, senderWarm, receiverWarm, made>>
      /\ UNCHANGED <<handed, seenNonces, dictionary, expected, output>>
      /\ pc' = pc \/ (pc = "decode" /\ pc' = "done")
  BY DEF Return, secureVars, source
<1>2. Offered' = Offered /\ Source' /\ OffsetAfter(Len(output))' = OffsetAfter(Len(output))
  BY <1>1 DEF SecureInv, Offered, Source, OffsetAfter
<1>3. SecureTypeOK'
  BY <1>1, <1>2 DEF SecureInv, SecureTypeOK
<1>4. Begins(handed, made)' <=> Begins(handed, made)
  BY <1>1
<1>5. InStep'
  BY <1>1, <1>2, <1>4 DEF SecureInv, InStep
<1>6. DictionariesAgree'
  BY <1>1 DEF SecureInv, DictionariesAgree
<1> QED
  BY <1>1, <1>2, <1>3, <1>5, <1>6 DEF SecureInv

\* Every step keeps the invariant.
LEMMA SecureInvariant == SecureSpec => []SecureInv
<1>1. SecureInv /\ [SecureNext]_secureVars => SecureInv'
  BY TakeFullInvariant, TakeRefInvariant, RefuseInvariant, ReturnInvariant
  DEF SecureNext
<1> QED
  BY <1>1, SecureInitInvariant, PTL DEF SecureSpec

\* The receiver of the secure codec keeps its types: its dictionary never
\* holds more than MAX_DICT_CHUNKS chunks.
THEOREM SecureTypeCorrect == SecureSpec => []SecureTypeOK
<1>1. SecureInv => SecureTypeOK
  BY DEF SecureInv
<1> QED
  BY <1>1, SecureInvariant, PTL

\* Whatever is left out, repeated, reordered or altered, decode returns only
\* for an untouched beginning of the list encode made, with that beginning of
\* the data.
THEOREM SecureFailsClosed == SecureSpec => []FailsClosed
<1>1. SecureInv => FailsClosed
  <2> SUFFICES ASSUME SecureInv PROVE FailsClosed
    OBVIOUS
  <2>1. /\ output \in Seq(Chunks) /\ input \in Seq(Chunks) /\ Begins(output, input)
        /\ handed \in Seq(Offered) /\ made \in Seq(Offered)
        /\ pc # "rejected" => Begins(handed, made)
    BY MadeShape DEF SecureInv, Source, SecureTypeOK, InStep
  <2> QED
    BY <2>1, BeginsIsPrefix DEF FailsClosed
<1> QED
  BY <1>1, SecureInvariant, PTL

\* From the same warm bytes the decoder's dictionary is the encoder's, order of
\* eviction included, before every frame.
THEOREM SecureDictionariesAgree == SecureSpec => []DictionariesAgree
<1>1. SecureInv => DictionariesAgree
  BY DEF SecureInv
<1> QED
  BY <1>1, SecureInvariant, PTL

\* From the same warm bytes, and with a window of any capacity, no untouched
\* list is refused, although both the window and the dictionary forget.
THEOREM CleanListsAccepted ==
    ASSUME WindowSize \in Nat
    PROVE  SecureSpec => []CleanListAccepted
<1>1. SecureInv => CleanListAccepted
  <2> SUFFICES ASSUME SecureInv, pc = "rejected", senderWarm = receiverWarm,
                      IsPrefix(handed, made)
               PROVE  FALSE
    BY DEF CleanListAccepted
  <2>1. handed \in Seq(Offered) /\ made \in Seq(Offered)
    BY MadeShape DEF SecureInv, SecureTypeOK
  <2>2. Begins(handed, made)
    BY <2>1, PrefixBegins
  <2> QED
    BY <2>2 DEF SecureInv, InStep
<1> QED
  BY <1>1, SecureInvariant, PTL
-----------------------------------------------------------------------------
(* Records of objects: how they are put together.                          *)

\* A family of sequences put together, one more at a time.
LEMMA FlattenOneMore ==
    ASSUME NEW S, NEW f, NEW n \in Nat, \A k \in 1 .. n + 1 : f[k] \in Seq(S)
    PROVE  /\ FlattenSeq([k \in 1 .. n |-> f[k]]) \in Seq(S)
           /\ FlattenSeq([k \in 1 .. n + 1 |-> f[k]])
                = FlattenSeq([k \in 1 .. n |-> f[k]]) \o f[n + 1]
<1> DEFINE ss == [k \in 1 .. n |-> f[k]]
           tt == [k \in 1 .. n + 1 |-> f[k]]
<1>1. ss \in Seq(Seq(S)) /\ Len(ss) = n /\ f[n + 1] \in Seq(S) /\ tt \in Seq(Seq(S))
      /\ Len(tt) = n + 1
  <2>1. ss \in [1 .. n -> Seq(S)] /\ tt \in [1 .. n + 1 -> Seq(S)] /\ n + 1 \in Nat
    OBVIOUS
  <2>2. ss \in Seq(Seq(S)) /\ tt \in Seq(Seq(S))
    BY <2>1, SeqDef
  <2>3. Len(ss) = n /\ Len(tt) = n + 1
    BY <2>1, <2>2, LenProperties
  <2> QED
    BY <2>2, <2>3
<1>2. /\ Append(ss, f[n + 1]) \in Seq(Seq(S)) /\ Len(Append(ss, f[n + 1])) = n + 1
      /\ \A k \in 1 .. n : Append(ss, f[n + 1])[k] = ss[k]
      /\ Append(ss, f[n + 1])[n + 1] = f[n + 1]
  BY <1>1, Appended
<1>3. \A k \in 1 .. n + 1 : tt[k] = Append(ss, f[n + 1])[k]
  BY <1>2
<1>4. tt = Append(ss, f[n + 1])
  <2> HIDE DEF tt, ss
  <2> QED
    BY <1>1, <1>2, <1>3, SeqEqual
<1> QED
  BY <1>1, <1>4, FlattenAppend

\* Where one sequence ends the next one goes on.
LEMMA Joined ==
    ASSUME NEW S, NEW s \in Seq(S), NEW t \in Seq(S)
    PROVE  /\ s \o t \in Seq(S) /\ Len(s \o t) = Len(s) + Len(t)
           /\ \A i \in 1 .. Len(s) : (s \o t)[i] = s[i]
           /\ \A j \in 1 .. Len(t) : (s \o t)[Len(s) + j] = t[j]
           /\ \A i \in 1 .. Len(s) + Len(t) :
                i \in 1 .. Len(s) \/ \E j \in 1 .. Len(t) : i = Len(s) + j
           /\ ToSet(s \o t) = ToSet(s) \cup ToSet(t)
<1>1. Len(s) \in Nat /\ Len(t) \in Nat
  BY LenProperties
<1>2. /\ s \o t \in Seq(S) /\ Len(s \o t) = Len(s) + Len(t)
      /\ \A i \in 1 .. Len(s) : (s \o t)[i] = s[i]
      /\ \A j \in 1 .. Len(t) : (s \o t)[Len(s) + j] = t[j]
  OBVIOUS
<1>3. \A i \in 1 .. Len(s) + Len(t) :
         i \in 1 .. Len(s) \/ \E j \in 1 .. Len(t) : i = Len(s) + j
  <2> SUFFICES ASSUME NEW i \in 1 .. Len(s) + Len(t), ~ i \in 1 .. Len(s)
               PROVE  \E j \in 1 .. Len(t) : i = Len(s) + j
    OBVIOUS
  <2>1. i - Len(s) \in 1 .. Len(t) /\ i = Len(s) + (i - Len(s))
    BY <1>1
  <2> QED
    BY <2>1
<1>4. /\ DOMAIN s = 1 .. Len(s) /\ DOMAIN t = 1 .. Len(t)
      /\ DOMAIN (s \o t) = 1 .. Len(s) + Len(t)
  BY <1>2, LenProperties
<1>5. ToSet(s \o t) = ToSet(s) \cup ToSet(t)
  <2>1. ASSUME NEW i \in 1 .. Len(s) + Len(t)
        PROVE  (s \o t)[i] \in ToSet(s) \cup ToSet(t)
    BY <1>2, <1>3, <1>4 DEF ToSet
  <2>2. ASSUME NEW i \in 1 .. Len(s) PROVE s[i] \in ToSet(s \o t)
    <3>1. i \in 1 .. Len(s) + Len(t)
      BY <1>1
    <3> QED
      BY <1>2, <1>4, <3>1 DEF ToSet
  <2>3. ASSUME NEW j \in 1 .. Len(t) PROVE t[j] \in ToSet(s \o t)
    <3>1. Len(s) + j \in 1 .. Len(s) + Len(t)
      BY <1>1
    <3> QED
      BY <1>2, <1>4, <3>1 DEF ToSet
  <2> QED
    BY <1>4, <2>1, <2>2, <2>3 DEF ToSet
<1> QED
  BY <1>2, <1>3, <1>5

\* One more element at the end of the second of two sequences.
LEMMA JoinedAppend ==
    ASSUME NEW S, NEW s \in Seq(S), NEW t \in Seq(S), NEW e \in S
    PROVE  s \o Append(t, e) = Append(s \o t, e)
<1> DEFINE u == Append(t, e)
           w == s \o t
<1>1. /\ u \in Seq(S) /\ Len(t) \in Nat /\ Len(u) = Len(t) + 1
      /\ \A i \in 1 .. Len(t) : u[i] = t[i]
      /\ u[Len(t) + 1] = e
  BY Appended
<1>2. /\ w \in Seq(S) /\ Len(s) \in Nat /\ Len(w) = Len(s) + Len(t)
      /\ \A i \in 1 .. Len(s) : w[i] = s[i]
      /\ \A j \in 1 .. Len(t) : w[Len(s) + j] = t[j]
  BY Joined, LenProperties
<1> HIDE DEF u, w
<1>3. /\ s \o u \in Seq(S) /\ Len(s \o u) = Len(s) + (Len(t) + 1)
      /\ \A i \in 1 .. Len(s) : (s \o u)[i] = s[i]
      /\ \A j \in 1 .. Len(t) + 1 : (s \o u)[Len(s) + j] = u[j]
  <2>1. s \o u \in Seq(S) /\ Len(s \o u) = Len(s) + Len(u)
    BY <1>1, Joined
  <2>2. \A i \in 1 .. Len(s) : (s \o u)[i] = s[i]
    BY <1>1, Joined
  <2>3. \A j \in 1 .. Len(u) : (s \o u)[Len(s) + j] = u[j]
    BY <1>1, Joined
  <2> QED
    BY <1>1, <2>1, <2>2, <2>3
<1>4. /\ Append(w, e) \in Seq(S) /\ Len(Append(w, e)) = (Len(s) + Len(t)) + 1
      /\ \A i \in 1 .. Len(s) + Len(t) : Append(w, e)[i] = w[i]
      /\ Append(w, e)[(Len(s) + Len(t)) + 1] = e
  BY <1>2, Appended
<1>5. ASSUME NEW i \in 1 .. (Len(s) + Len(t)) + 1
      PROVE  (s \o u)[i] = Append(w, e)[i]
  <2>1. CASE i \in 1 .. Len(s)
    <3>1. i \in 1 .. Len(s) + Len(t)
      BY <1>1, <1>2, <2>1
    <3> QED
      BY <1>2, <1>3, <1>4, <2>1, <3>1
  <2>2. CASE i = (Len(s) + Len(t)) + 1
    <3>1. i = Len(s) + (Len(t) + 1) /\ Len(t) + 1 \in 1 .. Len(t) + 1
      BY <1>1, <1>2, <2>2
    <3>2. (s \o u)[i] = u[Len(t) + 1]
      BY <1>3, <3>1
    <3> QED
      BY <1>1, <1>4, <2>2, <3>2
  <2>3. CASE i \notin 1 .. Len(s) /\ i # (Len(s) + Len(t)) + 1
    <3>0. PICK l \in Nat, m \in Nat : l = Len(s) /\ m = Len(t)
      BY <1>1, <1>2
    <3>1. PICK j \in 1 .. m : j = i - l
      <4>1. i \in 1 .. (l + m) + 1 /\ i \notin 1 .. l /\ i # (l + m) + 1
        BY <2>3, <3>0
      <4>2. i - l \in 1 .. m
        BY <4>1
      <4> QED
        BY <4>2
    <3>2. i = Len(s) + j /\ j \in 1 .. Len(t) + 1 /\ i \in 1 .. Len(s) + Len(t)
      BY <3>0, <3>1
    <3>3. (s \o u)[i] = u[j] /\ u[j] = t[j]
      BY <1>1, <1>3, <3>0, <3>1, <3>2
    <3>4. Append(w, e)[i] = w[i] /\ w[i] = t[j]
      BY <1>2, <1>4, <3>0, <3>1, <3>2
    <3> QED
      BY <3>3, <3>4
  <2> QED
    BY <2>1, <2>2, <2>3
<1>6. Len(s \o u) = (Len(s) + Len(t)) + 1
  BY <1>1, <1>2, <1>3
<1>7. s \o u = Append(w, e)
  <2> DEFINE a == s \o u
             b == Append(w, e)
  <2>1. a \in Seq(S) /\ b \in Seq(S) /\ Len(a) = Len(b)
        /\ \A i \in 1 .. Len(a) : a[i] = b[i]
    BY <1>3, <1>4, <1>5, <1>6
  <2> HIDE DEF a, b
  <2> QED
    BY <2>1, SeqEqual DEF a, b
<1> QED
  BY <1>7 DEF u, w

\* What a family of sequences is put together from, and where each begins.
LEMMA FlattenBlocks ==
    ASSUME NEW S, NEW f, NEW N \in Nat, \A k \in 1 .. N : f[k] \in Seq(S)
    PROVE  LET Upto(n) == FlattenSeq([k \in 1 .. n |-> f[k]])
           IN  /\ Upto(0) = <<>>
               /\ \A n \in 0 .. N : Upto(n) \in Seq(S) /\ Begins(Upto(n), Upto(N))
               /\ \A n \in 1 .. N : Upto(n) = Upto(n - 1) \o f[n]
               /\ \A e \in ToSet(Upto(N)) : \E k \in 1 .. N : e \in ToSet(f[k])
<1> DEFINE Upto(n) == FlattenSeq([k \in 1 .. n |-> f[k]])
<1>1. Upto(0) = <<>>
  <2>1. [k \in 1 .. 0 |-> f[k]] = <<>>
    OBVIOUS
  <2>2. <<>> \in Seq(Seq(S)) /\ <<>> \in Seq(S)
    BY EmptySeq
  <2> QED
    BY <2>1, <2>2, FlattenAppend
<1>2. ASSUME NEW n \in 1 .. N
      PROVE  Upto(n) = Upto(n - 1) \o f[n] /\ Upto(n) \in Seq(S) /\ f[n] \in Seq(S)
  <2>1. n - 1 \in Nat /\ (n - 1) + 1 = n /\ \A k \in 1 .. n : f[k] \in Seq(S)
    OBVIOUS
  <2>2. Upto(n) = Upto(n - 1) \o f[n] /\ Upto(n - 1) \in Seq(S) /\ f[n] \in Seq(S)
    BY <2>1, FlattenOneMore
  <2> HIDE DEF Upto
  <2> QED
    BY <2>2, Joined
<1> HIDE DEF Upto
<1> DEFINE P == {m \in Nat : m <= N =>
                    /\ Upto(m) \in Seq(S)
                    /\ \A n \in 0 .. m : Begins(Upto(n), Upto(m))
                    /\ \A e \in ToSet(Upto(m)) : \E k \in 1 .. m : e \in ToSet(f[k])}
<1>3. 0 \in P
  <2>1. Upto(0) \in Seq(S) /\ Len(Upto(0)) = 0
    BY <1>1, EmptySeq
  <2>2. ToSet(Upto(0)) = {}
    <3>1. DOMAIN Upto(0) = 1 .. 0
      BY <2>1, LenProperties
    <3> QED
      BY <3>1 DEF ToSet
  <2>3. Begins(Upto(0), Upto(0))
    BY <2>1 DEF Begins
  <2> QED
    BY <2>1, <2>2, <2>3
<1>4. ASSUME NEW m \in P PROVE m + 1 \in P
  <2> SUFFICES ASSUME m + 1 <= N
               PROVE  /\ Upto(m + 1) \in Seq(S)
                      /\ \A n \in 0 .. m + 1 : Begins(Upto(n), Upto(m + 1))
                      /\ \A e \in ToSet(Upto(m + 1)) :
                            \E k \in 1 .. m + 1 : e \in ToSet(f[k])
    OBVIOUS
  <2>1. /\ m \in Nat /\ m + 1 \in 1 .. N /\ (m + 1) - 1 = m
        /\ Upto(m) \in Seq(S)
        /\ \A n \in 0 .. m : Begins(Upto(n), Upto(m))
        /\ \A e \in ToSet(Upto(m)) : \E k \in 1 .. m : e \in ToSet(f[k])
    OBVIOUS
  <2> HIDE DEF P
  <2>2. Upto(m + 1) = Upto(m) \o f[m + 1] /\ f[m + 1] \in Seq(S)
    BY <1>2, <2>1
  <2> DEFINE a == Upto(m)
             b == f[m + 1]
             c == Upto(m + 1)
  <2>3. /\ a \in Seq(S) /\ b \in Seq(S) /\ c = a \o b
        /\ \A n \in 0 .. m : Begins(Upto(n), a)
        /\ \A e \in ToSet(a) : \E k \in 1 .. m : e \in ToSet(f[k])
    BY <2>1, <2>2
  <2> HIDE DEF a, b, c
  <2>4. /\ c \in Seq(S) /\ Len(c) = Len(a) + Len(b) /\ Len(a) \in Nat /\ Len(b) \in Nat
        /\ \A i \in 1 .. Len(a) : c[i] = a[i]
        /\ ToSet(c) = ToSet(a) \cup ToSet(b)
    BY <2>3, Joined, LenProperties
  <2>5. ASSUME NEW n \in 0 .. m + 1 PROVE Begins(Upto(n), c)
    <3>1. CASE n = m + 1
      BY <2>4, <3>1 DEF Begins, c
    <3>2. CASE n # m + 1
      <4>1. n \in 0 .. m
        BY <2>1, <3>2
      <4>2. PICK u : u = Upto(n) /\ Begins(u, a)
        BY <2>3, <4>1
      <4>3. Len(u) <= Len(a) /\ \A i \in 1 .. Len(u) : u[i] = a[i]
        BY <4>2 DEF Begins
      <4>4. CASE Len(u) \in Nat
        BY <2>4, <4>2, <4>3, <4>4 DEF Begins
      <4>5. Len(u) \in Nat
        <5>1. CASE n = 0
          BY <1>1, <4>2, <5>1
        <5>2. CASE n # 0
          <6>1. n \in 1 .. N
            BY <2>1, <4>1, <5>2
          <6>2. Upto(n) \in Seq(S)
            BY <1>2, <6>1
          <6> QED
            BY <4>2, <6>2, LenProperties
        <5> QED
          BY <5>1, <5>2
      <4> QED
        BY <4>4, <4>5
    <3> QED
      BY <3>1, <3>2
  <2>6. ASSUME NEW e \in ToSet(c) PROVE \E k \in 1 .. m + 1 : e \in ToSet(f[k])
    <3>1. CASE e \in ToSet(a)
      <4>1. PICK k \in 1 .. m : e \in ToSet(f[k])
        BY <2>3, <3>1
      <4>2. k \in 1 .. m + 1
        BY <2>1
      <4> QED
        BY <4>1, <4>2
    <3>2. CASE e \in ToSet(b)
      <4>1. m + 1 \in 1 .. m + 1
        BY <2>1
      <4> QED
        BY <3>2, <4>1 DEF b
    <3> QED
      BY <2>4, <3>1, <3>2
  <2> QED
    BY <2>4, <2>5, <2>6 DEF c
<1>5. P = Nat
  <2>1. P \subseteq Nat
    OBVIOUS
  <2> HIDE DEF P
  <2> QED
    BY <1>3, <1>4, <2>1, AllOfNat
<1>6. \A m \in 0 .. N : Upto(m) \in Seq(S)
  BY <1>5
<1>7. /\ \A n \in 0 .. N : Begins(Upto(n), Upto(N))
      /\ \A e \in ToSet(Upto(N)) : \E k \in 1 .. N : e \in ToSet(f[k])
  BY <1>5
<1>8. \A n \in 1 .. N : Upto(n) = Upto(n - 1) \o f[n]
  BY <1>2
<1> QED
  BY <1>1, <1>6, <1>7, <1>8 DEF Upto
\* What can be handed over.
HeaderItems ==
    [item : {"header"}, name : Names, length : Nat, index : Nat, genuine : BOOLEAN]
FrameItems ==
    [item : {"frame"}, name : Names, chunk : Chunks, kind : {"FULL", "REF"},
     offset : Nat, nonce : Nat, genuine : BOOLEAN]
Items == HeaderItems \cup FrameItems \cup {EndOfRecord}

\* What is fixed from the start.
ObjectSource ==
    /\ objects \in Seq(Objects)
    /\ \A i, j \in DOMAIN objects : objects[i].name = objects[j].name => i = j
    /\ warm \subseteq Chunks
    /\ ReplayWindowSize \in Nat

\* The chunks, and the records, of the first n objects.
ChunksOf(n) == FlattenSeq([k \in 1 .. n |-> objects[k].data])
RecordsOf(n) == FlattenSeq([k \in 1 .. n |-> Record(k)])

\* The objects, one by one.
LEMMA ObjectFacts ==
    ASSUME ObjectSource
    PROVE  /\ Len(objects) \in Nat /\ DOMAIN objects = 1 .. Len(objects)
           /\ \A i \in 1 .. Len(objects) :
                /\ objects[i].name \in Names /\ objects[i].data \in Seq(Chunks)
                /\ Len(objects[i].data) \in Nat
                /\ DOMAIN objects[i].data = 1 .. Len(objects[i].data)
                /\ objects[i] = [name |-> objects[i].name, data |-> objects[i].data]
<1>1. objects \in Seq(Objects)
  BY DEF ObjectSource
<1>2. Len(objects) \in Nat /\ DOMAIN objects = 1 .. Len(objects)
      /\ \A i \in 1 .. Len(objects) : objects[i] \in Objects
  BY <1>1, LenProperties, ElementOfSeq
<1>3. ASSUME NEW i \in 1 .. Len(objects)
      PROVE  /\ objects[i].name \in Names /\ objects[i].data \in Seq(Chunks)
             /\ objects[i] = [name |-> objects[i].name, data |-> objects[i].data]
  BY <1>2, <1>3 DEF Objects
<1> QED
  BY <1>2, <1>3, LenProperties

\* The chunks of the first objects.
LEMMA ChunksFacts ==
    ASSUME ObjectSource
    PROVE  /\ ChunksOf(0) = <<>>
           /\ \A n \in 0 .. Len(objects) : ChunksOf(n) \in Seq(Chunks)
           /\ \A n \in 1 .. Len(objects) :
                ChunksOf(n) = ChunksOf(n - 1) \o objects[n].data
<1> DEFINE N == Len(objects)
           f == [k \in 1 .. N |-> objects[k].data]
<1>1. N \in Nat /\ \A k \in 1 .. N : f[k] \in Seq(Chunks) /\ f[k] = objects[k].data
  BY ObjectFacts
<1>2. ASSUME NEW n \in 0 .. N
      PROVE  ChunksOf(n) = FlattenSeq([k \in 1 .. n |-> f[k]])
  <2>1. \A k \in 1 .. n : f[k] = objects[k].data
    BY <1>1
  <2> HIDE DEF f
  <2>2. [k \in 1 .. n |-> f[k]] = [k \in 1 .. n |-> objects[k].data]
    BY <2>1
  <2> QED
    BY <2>2 DEF ChunksOf
<1> HIDE DEF f, N
<1>3. /\ FlattenSeq([k \in 1 .. 0 |-> f[k]]) = <<>>
      /\ \A n \in 0 .. N : FlattenSeq([k \in 1 .. n |-> f[k]]) \in Seq(Chunks)
      /\ \A n \in 1 .. N : FlattenSeq([k \in 1 .. n |-> f[k]])
                             = FlattenSeq([k \in 1 .. n - 1 |-> f[k]]) \o f[n]
  <2>1. N \in Nat /\ \A k \in 1 .. N : f[k] \in Seq(Chunks)
    BY <1>1
  <2>2. FlattenSeq([k \in 1 .. 0 |-> f[k]]) = <<>>
    BY <2>1, FlattenBlocks
  <2>3. \A n \in 0 .. N : FlattenSeq([k \in 1 .. n |-> f[k]]) \in Seq(Chunks)
    BY <2>1, FlattenBlocks
  <2>4. \A n \in 1 .. N : FlattenSeq([k \in 1 .. n |-> f[k]])
                             = FlattenSeq([k \in 1 .. n - 1 |-> f[k]]) \o f[n]
    BY <2>1, FlattenBlocks
  <2> QED
    BY <2>2, <2>3, <2>4
<1>4. 0 \in 0 .. N /\ \A n \in 1 .. N : n \in 0 .. N /\ n - 1 \in 0 .. N
  BY <1>1
<1>5. ChunksOf(0) = <<>>
  BY <1>2, <1>3, <1>4
<1>6. \A n \in 0 .. N : ChunksOf(n) \in Seq(Chunks)
  BY <1>2, <1>3
<1>7. ASSUME NEW n \in 1 .. N
      PROVE  ChunksOf(n) = ChunksOf(n - 1) \o objects[n].data
  <2>1. ChunksOf(n) = FlattenSeq([k \in 1 .. n |-> f[k]])
    BY <1>2, <1>4
  <2>2. ChunksOf(n - 1) = FlattenSeq([k \in 1 .. n - 1 |-> f[k]])
    BY <1>2, <1>4
  <2>3. f[n] = objects[n].data
    BY <1>1
  <2> QED
    BY <1>3, <2>1, <2>2, <2>3
<1> QED
  BY <1>5, <1>6, <1>7 DEF N

\* The size of all of some data.
LEMMA SizeOfAll ==
    ASSUME NEW data \in Seq(Chunks)
    PROVE  Size(data) = SizeAt(data, Len(data)) /\ Size(data) \in Nat
<1>1. Len(data) \in Nat /\ Len(data) <= Len(data)
  BY LenProperties
<1>2. SubSeq(data, 1, Len(data)) = data
  BY <1>1, Beginning, SeqEqual
<1>3. SizeAt(data, Len(data)) \in Nat
  BY <1>1, SizesGrow
<1> QED
  BY <1>2, <1>3 DEF Size, SizeAt

\* A beginning of some data.
LEMMA SizeOfBeginning ==
    ASSUME NEW data \in Seq(Chunks), NEW s \in Seq(Chunks), Begins(s, data)
    PROVE  s = SubSeq(data, 1, Len(s)) /\ Size(s) = SizeAt(data, Len(s))
           /\ Len(s) \in 0 .. Len(data) /\ Len(data) \in Nat
<1>1. Len(s) \in Nat /\ Len(data) \in Nat /\ Len(s) <= Len(data)
      /\ \A i \in 1 .. Len(s) : s[i] = data[i]
  BY LenProperties DEF Begins
<1>2. s = SubSeq(data, 1, Len(s))
  BY <1>1, Beginning, SeqEqual
<1>3. Size(s) = SizeAt(data, Len(s))
  BY <1>2, Zenon DEF Size, SizeAt
<1>4. Len(s) \in 0 .. Len(data)
  BY <1>1
<1> QED
  BY <1>1, <1>2, <1>3, <1>4

\* The frames and the header of an object.
LEMMA FrameShape ==
    ASSUME ObjectSource, NEW i \in 1 .. Len(objects)
    PROVE  /\ Header(i) \in HeaderItems
           /\ \A j \in 1 .. Len(objects[i].data) :
                /\ Before(i, j) = ChunksOf(i - 1) \o SubSeq(objects[i].data, 1, j - 1)
                /\ Frame(i, j) \in FrameItems
                /\ Frame(i, j).offset = SizeAt(objects[i].data, j - 1)
<1> DEFINE data == objects[i].data
<1>1. /\ data \in Seq(Chunks) /\ Len(data) \in Nat /\ objects[i].name \in Names
      /\ i \in Nat /\ i - 1 \in 0 .. Len(objects)
  BY ObjectFacts
<1>2. Header(i) \in HeaderItems
  BY <1>1, SizeOfAll DEF Header, HeaderItems
<1>3. ASSUME NEW j \in 1 .. Len(data)
      PROVE  /\ Before(i, j) = ChunksOf(i - 1) \o SubSeq(data, 1, j - 1)
             /\ Frame(i, j) \in FrameItems
             /\ Frame(i, j).offset = SizeAt(data, j - 1)
  <2>1. Before(i, j) = ChunksOf(i - 1) \o SubSeq(data, 1, j - 1)
    BY DEF Before, ChunksOf
  <2>2. ChunksOf(i - 1) \in Seq(Chunks) /\ SubSeq(data, 1, j - 1) \in Seq(Chunks)
    <3>1. j - 1 \in Nat /\ j - 1 <= Len(data)
      BY <1>1
    <3> QED
      BY <1>1, <3>1, ChunksFacts, Beginning
  <2>3. Len(Before(i, j)) \in Nat
    BY <2>1, <2>2, Joined, LenProperties
  <2>4. Size(SubSeq(data, 1, j - 1)) = SizeAt(data, j - 1)
        /\ Size(SubSeq(data, 1, j - 1)) \in Nat
    BY <2>2, SizeOfAll DEF Size, SizeAt
  <2>5. data[j] \in Chunks
    BY <1>1, ElementOfSeq
  <2> HIDE DEF data
  <2>6. Len(Before(i, j)) + 1 \in Nat
    BY <2>3
  <2>7. PICK k \in {"FULL", "REF"} :
           Frame(i, j) =
              [item |-> "frame", name |-> objects[i].name, chunk |-> data[j], kind |-> k,
               offset |-> Size(SubSeq(data, 1, j - 1)),
               nonce |-> Len(Before(i, j)) + 1, genuine |-> TRUE]
    BY DEF Frame, data
  <2> QED
    BY <1>1, <2>1, <2>4, <2>5, <2>6, <2>7 DEF FrameItems
<1> QED
  BY <1>2, <1>3

\* A record, item by item.
LEMMA RecordShape ==
    ASSUME ObjectSource, NEW i \in 1 .. Len(objects)
    PROVE  LET m == Len(objects[i].data)
           IN  /\ Record(i) \in Seq(Items) /\ Len(Record(i)) = m + 2 /\ m \in Nat
               /\ Record(i)[1] = Header(i)
               /\ \A j \in 1 .. m : Record(i)[j + 1] = Frame(i, j)
               /\ Record(i)[m + 2] = EndOfRecord
<1> DEFINE m == Len(objects[i].data)
           h == <<Header(i)>>
           fs == [j \in DOMAIN objects[i].data |-> Frame(i, j)]
           e == <<EndOfRecord>>
<1>1. m \in Nat /\ DOMAIN objects[i].data = 1 .. m
  BY ObjectFacts
<1>2. /\ h \in Seq(Items) /\ Len(h) = 1 /\ h[1] = Header(i)
      /\ e \in Seq(Items) /\ Len(e) = 1 /\ e[1] = EndOfRecord
  BY FrameShape DEF Items
<1>3. /\ fs \in Seq(Items) /\ Len(fs) = m
      /\ \A j \in 1 .. m : fs[j] = Frame(i, j)
  <2>1. \A j \in 1 .. m : Frame(i, j) \in Items
    BY FrameShape DEF Items
  <2>2. fs \in [1 .. m -> Items]
    BY <1>1, <2>1
  <2>3. fs \in Seq(Items)
    BY <1>1, <2>2, SeqDef
  <2>4. Len(fs) = m
    BY <1>1, <2>2, <2>3, LenProperties
  <2>5. \A j \in 1 .. m : fs[j] = Frame(i, j)
    BY <1>1
  <2> QED
    BY <2>3, <2>4, <2>5
<1>4. Record(i) = (h \o fs) \o e
  <2>1. Record(i) = h \o fs \o e
    BY DEF Record
  <2> QED
    BY <2>1
<1> HIDE DEF h, fs, e, m
<1> DEFINE hf == h \o fs
<1>5. /\ hf \in Seq(Items) /\ Len(hf) = 1 + m
      /\ hf[1] = Header(i) /\ \A j \in 1 .. m : hf[1 + j] = Frame(i, j)
  <2>1. 1 \in 1 .. Len(h)
    BY <1>2
  <2>2. /\ h \o fs \in Seq(Items) /\ Len(h \o fs) = Len(h) + Len(fs)
        /\ \A k \in 1 .. Len(h) : (h \o fs)[k] = h[k]
        /\ \A k \in 1 .. Len(fs) : (h \o fs)[Len(h) + k] = fs[k]
    <3>1. h \in Seq(Items) /\ fs \in Seq(Items)
      BY <1>2, <1>3
    <3>2. h \o fs \in Seq(Items)
      BY <3>1, Joined
    <3>3. Len(h \o fs) = Len(h) + Len(fs)
      BY <3>1, Joined
    <3>4. \A k \in 1 .. Len(h) : (h \o fs)[k] = h[k]
      BY <3>1, Joined
    <3>5. \A k \in 1 .. Len(fs) : (h \o fs)[Len(h) + k] = fs[k]
      BY <3>1, Joined
    <3> QED
      BY <3>2, <3>3, <3>4, <3>5
  <2>3. \A k \in 1 .. m : (h \o fs)[1 + k] = Frame(i, k)
    BY <1>2, <1>3, <2>2
  <2> QED
    BY <1>2, <1>3, <2>1, <2>2, <2>3
<1> HIDE DEF hf
<1>6. /\ hf \o e \in Seq(Items) /\ Len(hf \o e) = Len(hf) + Len(e)
      /\ \A k \in 1 .. Len(hf) : (hf \o e)[k] = hf[k]
      /\ \A k \in 1 .. Len(e) : (hf \o e)[Len(hf) + k] = e[k]
  <2>1. hf \in Seq(Items) /\ e \in Seq(Items)
    BY <1>2, <1>5
  <2>2. hf \o e \in Seq(Items)
    BY <2>1, Joined
  <2>3. Len(hf \o e) = Len(hf) + Len(e)
    BY <2>1, Joined
  <2>4. \A k \in 1 .. Len(hf) : (hf \o e)[k] = hf[k]
    BY <2>1, Joined
  <2>5. \A k \in 1 .. Len(e) : (hf \o e)[Len(hf) + k] = e[k]
    BY <2>1, Joined
  <2> QED
    BY <2>2, <2>3, <2>4, <2>5
<1>7. /\ 1 \in 1 .. Len(hf) /\ 1 \in 1 .. Len(e) /\ Len(hf) + 1 = m + 2
      /\ Len(hf) + Len(e) = m + 2
      /\ \A j \in 1 .. m : j + 1 \in 1 .. Len(hf) /\ j + 1 = 1 + j
  BY <1>1, <1>2, <1>5
<1>8. Record(i) \in Seq(Items) /\ Len(Record(i)) = m + 2
      /\ Record(i)[1] = Header(i) /\ Record(i)[m + 2] = EndOfRecord
  <2>1. (hf \o e)[Len(hf) + 1] = e[1]
    BY <1>6, <1>7
  <2> QED
    BY <1>2, <1>4, <1>5, <1>6, <1>7, <2>1 DEF hf
<1>9. ASSUME NEW j \in 1 .. m PROVE Record(i)[j + 1] = Frame(i, j)
  <2>1. (hf \o e)[j + 1] = hf[j + 1] /\ hf[j + 1] = Frame(i, j)
    BY <1>5, <1>6, <1>7
  <2> QED
    BY <1>4, <2>1 DEF hf
<1> QED
  BY <1>1, <1>8, <1>9 DEF m
\* The records of the first objects begin those of all.
LEMMA RecordsFacts ==
    ASSUME ObjectSource
    PROVE  /\ RecordsOf(0) = <<>>
           /\ \A n \in 0 .. Len(objects) :
                RecordsOf(n) \in Seq(Items) /\ Begins(RecordsOf(n), Records)
           /\ \A n \in 1 .. Len(objects) : RecordsOf(n) = RecordsOf(n - 1) \o Record(n)
           /\ Records = RecordsOf(Len(objects)) /\ Records \in Seq(Items)
           /\ \A e \in ToSet(Records) : \E i \in 1 .. Len(objects) : e \in ToSet(Record(i))
<1> DEFINE N == Len(objects)
           f == [k \in 1 .. N |-> Record(k)]
<1>1. N \in Nat /\ \A k \in 1 .. N : f[k] \in Seq(Items) /\ f[k] = Record(k)
  BY ObjectFacts, RecordShape
<1>2. ASSUME NEW n \in 0 .. N
      PROVE  RecordsOf(n) = FlattenSeq([k \in 1 .. n |-> f[k]])
  <2>1. \A k \in 1 .. n : f[k] = Record(k)
    BY <1>1
  <2> HIDE DEF f
  <2>2. [k \in 1 .. n |-> f[k]] = [k \in 1 .. n |-> Record(k)]
    BY <2>1
  <2> QED
    BY <2>2 DEF RecordsOf
<1>3. Records = RecordsOf(N)
  <2>1. DOMAIN objects = 1 .. N
    BY ObjectFacts
  <2> QED
    BY <2>1 DEF Records, RecordsOf
<1> HIDE DEF f, N
<1> DEFINE Upto(n) == FlattenSeq([k \in 1 .. n |-> f[k]])
<1>4. /\ Upto(0) = <<>>
      /\ \A n \in 0 .. N : Upto(n) \in Seq(Items) /\ Begins(Upto(n), Upto(N))
      /\ \A n \in 1 .. N : Upto(n) = Upto(n - 1) \o f[n]
      /\ \A e \in ToSet(Upto(N)) : \E k \in 1 .. N : e \in ToSet(f[k])
  <2>1. N \in Nat /\ \A k \in 1 .. N : f[k] \in Seq(Items)
    BY <1>1
  <2>2. FlattenSeq([k \in 1 .. 0 |-> f[k]]) = <<>>
    BY <2>1, FlattenBlocks
  <2>3. \A n \in 0 .. N : FlattenSeq([k \in 1 .. n |-> f[k]]) \in Seq(Items)
    BY <2>1, FlattenBlocks
  <2>4. \A n \in 0 .. N : Begins(FlattenSeq([k \in 1 .. n |-> f[k]]),
                                 FlattenSeq([k \in 1 .. N |-> f[k]]))
    BY <2>1, FlattenBlocks
  <2>5. \A n \in 1 .. N : FlattenSeq([k \in 1 .. n |-> f[k]])
                             = FlattenSeq([k \in 1 .. n - 1 |-> f[k]]) \o f[n]
    BY <2>1, FlattenBlocks
  <2>6. \A e \in ToSet(FlattenSeq([k \in 1 .. N |-> f[k]])) :
           \E k \in 1 .. N : e \in ToSet(f[k])
    BY <2>1, FlattenBlocks
  <2> QED
    BY <2>2, <2>3, <2>4, <2>5, <2>6
<1>5. \A n \in 0 .. N : RecordsOf(n) = Upto(n)
  BY <1>2
<1> HIDE DEF Upto
<1>6. 0 \in 0 .. N /\ N \in 0 .. N /\ \A n \in 1 .. N : n \in 0 .. N /\ n - 1 \in 0 .. N
  BY <1>1
<1>7. RecordsOf(0) = <<>> /\ Records = Upto(N) /\ Records \in Seq(Items)
  BY <1>3, <1>4, <1>5, <1>6
<1>8. \A n \in 0 .. N : RecordsOf(n) \in Seq(Items) /\ Begins(RecordsOf(n), Records)
  BY <1>4, <1>5, <1>7
<1>9. \A n \in 1 .. N : RecordsOf(n) = RecordsOf(n - 1) \o Record(n)
  BY <1>1, <1>4, <1>5, <1>6
<1>10. \A e \in ToSet(Records) : \E i \in 1 .. N : e \in ToSet(Record(i))
  BY <1>1, <1>4, <1>7
<1> QED
  BY <1>3, <1>7, <1>8, <1>9, <1>10 DEF N

\* A header, or a frame, that is handed over is one of the records, but for its
\* tag.
LEMMA ItemsOffered ==
    ASSUME ObjectSource
    PROVE  /\ \A x \in OfferedItems("header") : \E i \in 1 .. Len(objects), g \in BOOLEAN :
                 x = [Header(i) EXCEPT !.genuine = g]
           /\ \A x \in OfferedItems("frame") : \E i \in 1 .. Len(objects), g \in BOOLEAN :
                 \E j \in 1 .. Len(objects[i].data) :
                    x = [Frame(i, j) EXCEPT !.genuine = g]
<1>1. ASSUME NEW kind \in {"header", "frame"}, NEW x \in OfferedItems(kind)
      PROVE  \E m \in ToSet(Records), g \in BOOLEAN :
                m.item = kind /\ x = [m EXCEPT !.genuine = g]
  <2>1. CASE secureMode
    BY <2>1 DEF OfferedItems
  <2>2. CASE ~ secureMode
    <3>1. x \in ToSet(Records) /\ x.item = kind
      BY <2>2 DEF OfferedItems
    <3>2. PICK i \in 1 .. Len(objects) : x \in ToSet(Record(i))
      BY <3>1, RecordsFacts
    <3>3. x \in Items
      BY <3>2, RecordShape, ElementOfSeq, LenProperties DEF ToSet
    <3>4. x \in HeaderItems \/ x \in FrameItems
      BY <3>1, <3>3 DEF Items, EndOfRecord
    <3>5. x.genuine \in BOOLEAN /\ x = [x EXCEPT !.genuine = x.genuine]
      BY <3>4 DEF HeaderItems, FrameItems
    <3> QED
      BY <3>1, <3>5
  <2> QED
    BY <2>1, <2>2
<1>2. ASSUME NEW m \in ToSet(Records), m.item \in {"header", "frame"}
      PROVE  \E i \in 1 .. Len(objects) :
                \/ m.item = "header" /\ m = Header(i)
                \/ m.item = "frame" /\ \E j \in 1 .. Len(objects[i].data) : m = Frame(i, j)
  <2>1. PICK i \in 1 .. Len(objects) : m \in ToSet(Record(i))
    BY RecordsFacts
  <2> DEFINE l == Len(objects[i].data)
  <2>2. /\ Record(i) \in Seq(Items) /\ Len(Record(i)) = l + 2 /\ l \in Nat
        /\ Record(i)[1] = Header(i)
        /\ \A j \in 1 .. l : Record(i)[j + 1] = Frame(i, j)
        /\ Record(i)[l + 2] = EndOfRecord
    BY RecordShape
  <2>3. PICK p \in 1 .. l + 2 : m = Record(i)[p]
    <3>1. DOMAIN Record(i) = 1 .. l + 2
      BY <2>2, LenProperties
    <3> QED
      BY <2>1, <3>1 DEF ToSet
  <2> HIDE DEF l
  <2>4. CASE p = 1
    BY <2>2, <2>3, <2>4 DEF Header
  <2>5. CASE p = l + 2
    BY <1>2, <2>2, <2>3, <2>5 DEF EndOfRecord
  <2>6. CASE p # 1 /\ p # l + 2
    <3>1. p - 1 \in 1 .. l /\ (p - 1) + 1 = p
      BY <2>2, <2>6
    <3>2. m = Frame(i, p - 1)
      BY <2>2, <2>3, <3>1
    <3>3. m.item = "frame"
      BY <3>2 DEF Frame
    <3> QED
      BY <3>1, <3>2, <3>3 DEF l
  <2> QED
    BY <2>4, <2>5, <2>6
<1>3. ASSUME NEW x \in OfferedItems("header")
      PROVE  \E i \in 1 .. Len(objects), g \in BOOLEAN : x = [Header(i) EXCEPT !.genuine = g]
  <2>1. PICK m \in ToSet(Records), g \in BOOLEAN :
           m.item = "header" /\ x = [m EXCEPT !.genuine = g]
    BY <1>1
  <2>2. PICK i \in 1 .. Len(objects) : m = Header(i)
    BY <1>2, <2>1
  <2> QED
    BY <2>1, <2>2
<1>4. ASSUME NEW x \in OfferedItems("frame")
      PROVE  \E i \in 1 .. Len(objects), g \in BOOLEAN :
                \E j \in 1 .. Len(objects[i].data) : x = [Frame(i, j) EXCEPT !.genuine = g]
  <2>1. PICK m \in ToSet(Records), g \in BOOLEAN :
           m.item = "frame" /\ x = [m EXCEPT !.genuine = g]
    BY <1>1
  <2>2. PICK i \in 1 .. Len(objects) : \E j \in 1 .. Len(objects[i].data) : m = Frame(i, j)
    BY <1>2, <2>1
  <2> QED
    BY <2>1, <2>2
<1> QED
  BY <1>3, <1>4

\* The same, field by field.
LEMMA HeaderOffered ==
    ASSUME ObjectSource, NEW x \in OfferedItems("header")
    PROVE  /\ x \in HeaderItems
           /\ \E i \in 1 .. Len(objects) : x.index = i /\ (x.genuine => x = Header(i))
<1>1. PICK i \in 1 .. Len(objects), g \in BOOLEAN : x = [Header(i) EXCEPT !.genuine = g]
  BY ItemsOffered
<1>2. Header(i) \in HeaderItems
  BY FrameShape
<1>3. x \in HeaderItems
  BY <1>1, <1>2 DEF HeaderItems
<1>4. x.index = i /\ x.genuine = g
  BY <1>1 DEF Header
<1>5. x.genuine => x = Header(i)
  <2>1. g = TRUE => x = Header(i)
    BY <1>1 DEF Header
  <2> QED
    BY <1>4, <2>1
<1> QED
  BY <1>3, <1>4, <1>5

LEMMA FrameOffered ==
    ASSUME ObjectSource, NEW x \in OfferedItems("frame")
    PROVE  /\ x \in FrameItems
           /\ \E i \in 1 .. Len(objects) : \E j \in 1 .. Len(objects[i].data) :
                 /\ x.name = objects[i].name /\ x.offset = SizeAt(objects[i].data, j - 1)
                 /\ x.genuine => x = Frame(i, j)
<1>1. PICK i \in 1 .. Len(objects), g \in BOOLEAN :
         \E j \in 1 .. Len(objects[i].data) : x = [Frame(i, j) EXCEPT !.genuine = g]
  BY ItemsOffered
<1>2. PICK j \in 1 .. Len(objects[i].data) : x = [Frame(i, j) EXCEPT !.genuine = g]
  BY <1>1
<1>3. Frame(i, j) \in FrameItems /\ Frame(i, j).offset = SizeAt(objects[i].data, j - 1)
      /\ Frame(i, j).name = objects[i].name /\ Frame(i, j).genuine = TRUE
  <2>1. Frame(i, j).name = objects[i].name /\ Frame(i, j).genuine = TRUE
    BY DEF Frame
  <2> QED
    BY <2>1, FrameShape
<1>4. x \in FrameItems /\ x.offset = Frame(i, j).offset /\ x.name = Frame(i, j).name
      /\ x.genuine = g
  BY <1>2, <1>3 DEF FrameItems
<1>5. g = TRUE => x = Frame(i, j)
  BY <1>2, <1>3 DEF FrameItems
<1> QED
  BY <1>3, <1>4, <1>5

\* What is the next item of the records, after n of them and k items.
LEMMA NextItem ==
    ASSUME ObjectSource, NEW s \in Seq(Items), NEW x \in Items, Begins(s, Records),
           NEW n \in 0 .. Len(objects), NEW k \in Nat, Len(s) = Len(RecordsOf(n)) + k
    PROVE  /\ n < Len(objects) /\ k < Len(Record(n + 1)) =>
                (Begins(Append(s, x), Records) <=> x = Record(n + 1)[k + 1])
           /\ n = Len(objects) => ~ Begins(Append(s, x), Records)
<1>1. /\ Append(s, x) \in Seq(Items) /\ Len(s) \in Nat
      /\ Len(Append(s, x)) = Len(s) + 1
      /\ \A i \in 1 .. Len(s) : Append(s, x)[i] = s[i]
      /\ Append(s, x)[Len(s) + 1] = x
  BY Appended
<1>2. /\ Len(objects) \in Nat /\ Records \in Seq(Items) /\ Len(Records) \in Nat
      /\ RecordsOf(n) \in Seq(Items) /\ Len(RecordsOf(n)) \in Nat
  BY ObjectFacts, RecordsFacts, LenProperties
<1>3. /\ Len(s) <= Len(Records) /\ \A i \in 1 .. Len(s) : s[i] = Records[i]
  BY DEF Begins
<1>4. Begins(Append(s, x), Records)
        <=> Len(s) + 1 <= Len(Records) /\ x = Records[Len(s) + 1]
  <2>1. \A i \in 1 .. Len(s) + 1 : i \in 1 .. Len(s) \/ i = Len(s) + 1
    BY <1>1
  <2>2. Len(s) + 1 \in 1 .. Len(s) + 1
    BY <1>1
  <2> QED
    BY <1>1, <1>3, <2>1, <2>2 DEF Begins
<1>5. CASE n < Len(objects) /\ k < Len(Record(n + 1))
  <2> DEFINE a == RecordsOf(n)
             b == Record(n + 1)
             c == RecordsOf(n + 1)
  <2>1. n + 1 \in 1 .. Len(objects) /\ (n + 1) - 1 = n /\ n + 1 \in 0 .. Len(objects)
    BY <1>2, <1>5
  <2>2. a \in Seq(Items) /\ b \in Seq(Items) /\ c = a \o b /\ Begins(c, Records)
    BY <1>2, <2>1, RecordsFacts, RecordShape
  <2>3. Len(s) = Len(a) + k /\ k < Len(b)
    BY <1>5
  <2> HIDE DEF a, b, c
  <2>4. Len(a) \in Nat /\ Len(b) \in Nat
    BY <2>2, LenProperties
  <2>5. Len(c) = Len(a) + Len(b)
    BY <2>2, Joined
  <2>6. \A j \in 1 .. Len(b) : c[Len(a) + j] = b[j]
    <3>1. a \in Seq(Items) /\ b \in Seq(Items)
      BY <2>2
    <3>2. \A j \in 1 .. Len(b) : (a \o b)[Len(a) + j] = b[j]
      BY <3>1, Joined
    <3> QED
      BY <2>2, <3>2
  <2>7. k + 1 \in 1 .. Len(b) /\ Len(s) + 1 = Len(a) + (k + 1) /\ Len(s) + 1 \in 1 .. Len(c)
    BY <2>3, <2>4, <2>5
  <2>8. Len(s) + 1 <= Len(Records) /\ Records[Len(s) + 1] = c[Len(s) + 1]
    BY <1>2, <2>2, <2>5, <2>4, <2>7 DEF Begins
  <2>9. Records[Len(s) + 1] = b[k + 1]
    BY <2>6, <2>7, <2>8
  <2>10. n # Len(objects)
    BY <1>2, <1>5
  <2> QED
    BY <1>4, <2>8, <2>9, <2>10 DEF b
<1>6. CASE n = Len(objects)
  <2>1. Len(s) = Len(Records) + k
    BY <1>6, RecordsFacts
  <2>2. ~ (Len(s) + 1 <= Len(Records))
    BY <1>2, <2>1
  <2> QED
    BY <1>2, <1>4, <1>6, <2>2
<1> QED
  BY <1>5, <1>6
-----------------------------------------------------------------------------
(* The object decoder.                                                     *)

\* The chunks that were decoded, those of the record the loop is at included.
Decoding ==
    IF phase = "frames" THEN ChunksOf(Len(decoded)) \o rebuilt
                        ELSE ChunksOf(Len(decoded))

\* Where the decoder is, while it is handed the records as they were made.
AsMade ==
    /\ Begins(decoded, objects)
    /\ phase = "frames" =>
          /\ Len(decoded) < Len(objects)
          /\ record = <<Header(Len(decoded) + 1)>>
          /\ Begins(rebuilt, objects[Len(decoded) + 1].data)
          /\ expectedOffset = Size(rebuilt)
          /\ Len(items) = Len(RecordsOf(Len(decoded))) + (1 + Len(rebuilt))
    /\ phase # "frames" => Len(items) = Len(RecordsOf(Len(decoded))) + 0
    /\ known = warm \cup ToSet(Decoding)
    /\ secureMode => /\ window.highest = Len(Decoding)
                     /\ window.seen \subseteq 1 .. Len(Decoding)

\* In the secure mode nothing else is accepted; in either mode what is refused
\* is not what was made.
ObjectsInStep ==
    /\ phase # "rejected" /\ Begins(items, Records) => AsMade
    /\ secureMode => Begins(decoded, objects)
    /\ secureMode /\ phase # "rejected" => Begins(items, Records)
    /\ phase = "rejected" => ~ Begins(items, Records)

\* A name that is taken is not taken again, by the record the loop is at either.
RecordKept ==
    /\ phase \in {"header", "done"} => record = <<>>
    /\ phase = "frames" =>
          \E h \in OfferedItems("header") :
             record = <<h>> /\ \A i \in DOMAIN decoded : decoded[i].name # h.name

ObjectInv ==
    /\ ObjectTypeOK
    /\ items \in Seq(Items)
    /\ ObjectSource
    /\ ObjectsInStep
    /\ RecordKept
    /\ BoundariesKept

\* Before anything is handed over.
LEMMA ObjectInitInvariant ==
    ASSUME ProperObjects, ObjectInit
    PROVE  ObjectInv
<1>1. ObjectSource
  BY DEF ProperObjects, ObjectInit, ObjectSource
<1>2. /\ phase = "header" /\ items = <<>> /\ decoded = <<>> /\ rebuilt = <<>>
      /\ record = <<>> /\ names = {} /\ known = warm /\ expectedOffset = 0
      /\ window = [highest |-> 0, seen |-> {}]
  BY DEF ObjectInit, EmptyWindow
<1>3. /\ items \in Seq(Items) /\ Len(items) = 0 /\ decoded \in Seq(Objects)
      /\ Len(decoded) = 0 /\ rebuilt \in Seq(Chunks)
  BY <1>2, EmptySeq
<1>4. DOMAIN decoded = {} /\ ToSet(record) = {}
  BY <1>2 DEF ToSet
<1>5. ObjectTypeOK
  BY <1>1, <1>2, <1>3, <1>4 DEF ObjectTypeOK, ObjectSource, Windows
<1>6. Begins(items, Records) /\ Begins(decoded, objects)
  <2>1. Len(objects) \in Nat /\ Len(Records) \in Nat
    BY <1>1, ObjectFacts, RecordsFacts, LenProperties
  <2> QED
    BY <1>3, <2>1 DEF Begins
<1>7. AsMade
  <2>1. RecordsOf(0) = <<>> /\ ChunksOf(0) = <<>> /\ 0 \in 0 .. Len(objects)
    BY <1>1, RecordsFacts, ChunksFacts, ObjectFacts
  <2>2. Decoding = <<>>
    BY <1>2, <1>3, <2>1 DEF Decoding
  <2>3. Len(Decoding) = 0 /\ ToSet(Decoding) = {}
    BY <2>2 DEF ToSet
  <2>4. Len(RecordsOf(Len(decoded))) + 0 = 0
    BY <1>3, <2>1
  <2> QED
    BY <1>2, <1>3, <1>6, <2>3, <2>4 DEF AsMade
<1>8. ObjectsInStep /\ RecordKept /\ BoundariesKept
  BY <1>2, <1>4, <1>6, <1>7 DEF ObjectsInStep, RecordKept, BoundariesKept
<1> QED
  BY <1>1, <1>3, <1>5, <1>8 DEF ObjectInv

\* What is fixed stays as it is.
LEMMA GivenStays ==
    ASSUME UNCHANGED given
    PROVE  /\ ObjectSource' <=> ObjectSource
           /\ Records' = Records
           /\ \A n : RecordsOf(n)' = RecordsOf(n) /\ ChunksOf(n)' = ChunksOf(n)
           /\ \A n : Header(n)' = Header(n)
           /\ \A kind : OfferedItems(kind)' = OfferedItems(kind)
           /\ UNCHANGED <<objects, warm, secureMode>>
<1>1. UNCHANGED <<objects, warm, secureMode>>
  BY DEF given
<1>2. ObjectSource' <=> ObjectSource
  BY <1>1 DEF ObjectSource
<1>3. \A n : ChunksOf(n)' = ChunksOf(n) /\ Header(n)' = Header(n)
  BY <1>1 DEF ChunksOf, Header
<1>4. \A i, j : Frame(i, j)' = Frame(i, j)
  BY <1>1 DEF Frame, Before
<1>5. \A i : Record(i)' = Record(i)
  BY <1>1, <1>3, <1>4 DEF Record
<1>6. Records' = Records /\ \A n : RecordsOf(n)' = RecordsOf(n)
  BY <1>1, <1>5 DEF Records, RecordsOf
<1>7. \A kind : OfferedItems(kind)' = OfferedItems(kind)
  BY <1>1, <1>6 DEF OfferedItems
<1> QED
  BY <1>1, <1>2, <1>3, <1>6, <1>7

\* What is before the next item begins the records, if all of it does.
LEMMA BeginsBefore ==
    ASSUME NEW s \in Seq(Items), NEW x \in Items, NEW t \in Seq(Items),
           Begins(Append(s, x), t)
    PROVE  Begins(s, t)
<1>1. /\ Len(s) \in Nat /\ Len(Append(s, x)) = Len(s) + 1 /\ Len(t) \in Nat
      /\ \A i \in 1 .. Len(s) : Append(s, x)[i] = s[i]
  BY Appended, LenProperties
<1>2. /\ Len(s) + 1 <= Len(t) /\ \A i \in 1 .. Len(s) + 1 : Append(s, x)[i] = t[i]
  BY <1>1 DEF Begins
<1>3. \A i \in 1 .. Len(s) : i \in 1 .. Len(s) + 1
  BY <1>1
<1> QED
  BY <1>1, <1>2, <1>3 DEF Begins
\* Between two objects, the next item is the next object's header, if there is one.
LEMMA HeaderIsNext ==
    ASSUME ObjectInv, phase # "frames", phase # "rejected", Begins(items, Records),
           NEW x \in Items
    PROVE  LET n == Len(decoded)
           IN  /\ n \in 0 .. Len(objects) /\ Len(objects) \in Nat
               /\ Begins(Append(items, x), Records)
                    <=> n < Len(objects) /\ x = Header(n + 1)
<1> DEFINE n == Len(decoded)
<1>1. /\ ObjectSource /\ AsMade /\ items \in Seq(Items) /\ decoded \in Seq(Objects)
      /\ Len(items) = Len(RecordsOf(n)) + 0
  BY DEF ObjectInv, ObjectsInStep, AsMade, ObjectTypeOK
<1>2. n \in 0 .. Len(objects) /\ Len(objects) \in Nat
  BY <1>1, ObjectFacts, LenProperties DEF AsMade, Begins
<1> HIDE DEF n
<1>3. /\ n < Len(objects) /\ 0 < Len(Record(n + 1)) =>
            (Begins(Append(items, x), Records) <=> x = Record(n + 1)[0 + 1])
      /\ n = Len(objects) => ~ Begins(Append(items, x), Records)
  BY <1>1, <1>2, NextItem
<1>4. ASSUME n < Len(objects)
      PROVE  0 < Len(Record(n + 1)) /\ Record(n + 1)[0 + 1] = Header(n + 1)
  <2>1. n + 1 \in 1 .. Len(objects)
    BY <1>2, <1>4
  <2>2. PICK m \in Nat : Len(Record(n + 1)) = m + 2 /\ Record(n + 1)[1] = Header(n + 1)
    BY <1>1, <2>1, RecordShape
  <2> QED
    BY <2>2
<1>5. n < Len(objects) \/ n = Len(objects)
  BY <1>2
<1>6. Begins(Append(items, x), Records) <=> n < Len(objects) /\ x = Header(n + 1)
  <2>1. CASE n < Len(objects)
    BY <1>3, <1>4, <2>1
  <2>2. CASE n = Len(objects)
    BY <1>2, <1>3, <2>2
  <2> QED
    BY <1>5, <2>1, <2>2
<1> QED
  BY <1>2, <1>6 DEF n

\* Within an object it is the next of its frames, or its end.
LEMMA FrameIsNext ==
    ASSUME ObjectInv, phase = "frames", Begins(items, Records), NEW x \in Items
    PROVE  LET n == Len(decoded)
               q == Len(rebuilt)
               data == objects[n + 1].data
           IN  /\ n \in Nat /\ n < Len(objects) /\ n + 1 \in 1 .. Len(objects)
               /\ data \in Seq(Chunks) /\ Len(data) \in Nat
               /\ q \in 0 .. Len(data)
               /\ record[1].name = objects[n + 1].name /\ record[1].length = Size(data)
               /\ expectedOffset = SizeAt(data, q)
               /\ Begins(Append(items, x), Records)
                    <=> \/ q < Len(data) /\ x = Frame(n + 1, q + 1)
                        \/ q = Len(data) /\ x = EndOfRecord
<1> DEFINE n == Len(decoded)
           q == Len(rebuilt)
           data == objects[n + 1].data
           m == Len(data)
<1>1. /\ ObjectSource /\ AsMade /\ items \in Seq(Items) /\ decoded \in Seq(Objects)
      /\ rebuilt \in Seq(Chunks) /\ n < Len(objects)
      /\ record = <<Header(n + 1)>> /\ Begins(rebuilt, data)
      /\ expectedOffset = Size(rebuilt)
      /\ Len(items) = Len(RecordsOf(n)) + (1 + q)
  BY DEF ObjectInv, ObjectsInStep, AsMade, ObjectTypeOK
<1>2. n \in Nat /\ n + 1 \in 1 .. Len(objects) /\ n \in 0 .. Len(objects)
  BY <1>1, ObjectFacts, LenProperties
<1>3. data \in Seq(Chunks) /\ m \in Nat
  BY <1>1, <1>2, ObjectFacts
<1>4. q \in 0 .. m /\ Size(rebuilt) = SizeAt(data, q)
  BY <1>1, <1>3, SizeOfBeginning
<1>5. record[1].name = objects[n + 1].name /\ record[1].length = Size(data)
  BY <1>1 DEF Header
<1>6. /\ Len(Record(n + 1)) = m + 2
      /\ \A j \in 1 .. m : Record(n + 1)[j + 1] = Frame(n + 1, j)
      /\ Record(n + 1)[m + 2] = EndOfRecord
  BY <1>1, <1>2, RecordShape
<1> HIDE DEF n, q, m, data
<1>7. 1 + q \in Nat /\ 1 + q < m + 2 /\ (1 + q) + 1 = q + 2
  BY <1>3, <1>4
<1>8. Begins(Append(items, x), Records) <=> x = Record(n + 1)[q + 2]
  BY <1>1, <1>2, <1>6, <1>7, NextItem
<1>9. CASE q < m
  <2>1. q + 1 \in 1 .. m /\ (q + 1) + 1 = q + 2 /\ q # m
    BY <1>3, <1>4, <1>9
  <2>2. Record(n + 1)[q + 2] = Frame(n + 1, q + 1)
    BY <1>6, <2>1
  <2>3. Begins(Append(items, x), Records)
          <=> (q < m /\ x = Frame(n + 1, q + 1)) \/ (q = m /\ x = EndOfRecord)
    BY <1>8, <1>9, <2>1, <2>2
  <2> QED
    BY <1>1, <1>2, <1>3, <1>4, <1>5, <2>3 DEF n, q, m, data
<1>10. CASE q = m
  <2>1. ~ (q < m)
    BY <1>3, <1>10
  <2>2. Begins(Append(items, x), Records)
          <=> (q < m /\ x = Frame(n + 1, q + 1)) \/ (q = m /\ x = EndOfRecord)
    BY <1>6, <1>8, <1>10, <2>1
  <2> QED
    BY <1>1, <1>2, <1>3, <1>4, <1>5, <2>2 DEF n, q, m, data
<1>11. q < m \/ q = m
  BY <1>3, <1>4
<1> QED
  BY <1>9, <1>10, <1>11

LEMMA OpenInvariant ==
    ASSUME ObjectInv, NEW x \in OfferedItems("header"), OpenRecord(x)
    PROVE  ObjectInv'
<1> DEFINE n == Len(decoded)
<1>1. /\ phase = "header" /\ HeaderAccepted(x) /\ items' = Append(items, x)
      /\ phase' = "frames" /\ record' = <<x>> /\ names' = names \cup {x.name}
      /\ expectedOffset' = 0 /\ rebuilt' = <<>>
      /\ UNCHANGED given /\ UNCHANGED <<known, window, decoded>>
  BY DEF OpenRecord, NamesAfter, FirstOffset
<1>2. /\ ObjectSource /\ ObjectTypeOK /\ items \in Seq(Items) /\ ObjectsInStep
      /\ record = <<>>
  BY <1>1 DEF ObjectInv, RecordKept
<1>3. /\ ObjectSource' /\ Records' = Records /\ UNCHANGED <<objects, warm, secureMode>>
      /\ RecordsOf(n)' = RecordsOf(n) /\ ChunksOf(n)' = ChunksOf(n)
      /\ Header(n + 1)' = Header(n + 1)
      /\ OfferedItems("header")' = OfferedItems("header")
  BY <1>1, <1>2, GivenStays
<1>4. x \in Items
  BY <1>2, HeaderOffered DEF Items
<1>5. /\ items' \in Seq(Items) /\ Len(items') = Len(items) + 1 /\ Len(items) \in Nat
      /\ decoded' = decoded /\ Len(decoded)' = n
  BY <1>1, <1>2, <1>4, Appended
<1>6. rebuilt' \in Seq(Chunks) /\ Len(rebuilt') = 0
  BY <1>1, EmptySeq
<1>7. ObjectTypeOK'
  <2>1. ToSet(record') = {x} /\ ToSet(record) = {}
    BY <1>1, <1>2 DEF ToSet
  <2>2. names' = {decoded[i].name : i \in DOMAIN decoded} \cup {y.name : y \in ToSet(record')}
    BY <1>1, <1>2, <2>1 DEF ObjectTypeOK
  <2> QED
    BY <1>1, <1>2, <1>5, <1>6, <2>2 DEF ObjectTypeOK
<1>8. Begins(items', Records) => Begins(items, Records)
  BY <1>1, <1>2, <1>4, BeginsBefore, RecordsFacts
<1>9. ASSUME secureMode
      PROVE  Begins(items', Records)
  <2>1. Begins(items, Records)
    BY <1>1, <1>2, <1>9 DEF ObjectsInStep
  <2>2. n \in 0 .. Len(objects) /\ Len(objects) \in Nat
        /\ Begins(Append(items, x), Records) <=> n < Len(objects) /\ x = Header(n + 1)
    BY <1>1, <1>4, <2>1, HeaderIsNext
  <2>3. PICK i \in 1 .. Len(objects) : x.index = i /\ (x.genuine => x = Header(i))
    BY <1>2, HeaderOffered
  <2>4. x.genuine /\ x.index = n + 1
    BY <1>1, <1>9 DEF HeaderAccepted, AtItsIndex
  <2>5. n + 1 = i /\ n < Len(objects) /\ x = Header(n + 1)
    BY <2>2, <2>3, <2>4
  <2> QED
    BY <1>1, <2>2, <2>5
<1>10. ASSUME Begins(items', Records)
       PROVE  AsMade'
  <2>1. Begins(items, Records) /\ AsMade
    BY <1>1, <1>2, <1>8, <1>10 DEF ObjectsInStep
  <2>2. n \in 0 .. Len(objects) /\ Len(objects) \in Nat
        /\ n < Len(objects) /\ x = Header(n + 1)
    BY <1>1, <1>4, <1>10, <2>1, HeaderIsNext
  <2> DEFINE data == objects[n + 1].data
  <2>3. data \in Seq(Chunks) /\ Len(data) \in Nat
    <3>1. n + 1 \in 1 .. Len(objects)
      BY <2>2
    <3> QED
      BY <1>2, <3>1, ObjectFacts
  <2>4. Begins(rebuilt', data)
    BY <1>6, <2>3 DEF Begins
  <2>5. 0 = Size(rebuilt')
    <3>1. Size(rebuilt') = SizeAt(data, 0)
      BY <1>6, <2>3, <2>4, SizeOfBeginning
    <3>2. SizeAt(data, 0) = 0
      BY <2>3, SizesGrow
    <3> QED
      BY <3>1, <3>2
  <2>6. Len(items') = Len(RecordsOf(n)) + (1 + Len(rebuilt'))
    <3>1. Len(items) = Len(RecordsOf(n)) + 0
      BY <1>1, <2>1 DEF AsMade
    <3>2. RecordsOf(n) \in Seq(Items)
      BY <1>2, <2>2, RecordsFacts
    <3>3. Len(RecordsOf(n)) \in Nat
      BY <3>2, LenProperties
    <3> QED
      BY <1>5, <1>6, <3>1, <3>3
  <2>7. Decoding' = Decoding
    <3>1. ChunksOf(n) \in Seq(Chunks)
      BY <1>2, <2>2, ChunksFacts
    <3>2. ChunksOf(n) \o <<>> = ChunksOf(n)
      BY <3>1
    <3>3. Decoding = ChunksOf(n) /\ Decoding' = ChunksOf(n) \o <<>>
      BY <1>1, <1>3, <1>5 DEF Decoding
    <3> QED
      BY <3>2, <3>3
  <2>8. /\ Begins(decoded', objects') /\ phase' = "frames" /\ Len(decoded') = n
        /\ n < Len(objects') /\ record' = <<Header(n + 1)'>>
        /\ Begins(rebuilt', objects'[n + 1].data)
        /\ expectedOffset' = Size(rebuilt')
        /\ Len(items') = Len(RecordsOf(n)') + (1 + Len(rebuilt'))
    BY <1>1, <1>3, <1>5, <2>1, <2>2, <2>4, <2>5, <2>6 DEF AsMade
  <2>9. /\ known' = warm' \cup ToSet(Decoding')
        /\ secureMode' => /\ window'.highest = Len(Decoding')
                          /\ window'.seen \subseteq 1 .. Len(Decoding')
    BY <1>1, <1>3, <2>1, <2>7 DEF AsMade
  <2> QED
    BY <1>5, <2>8, <2>9 DEF AsMade
<1>11. ObjectsInStep'
  BY <1>1, <1>2, <1>3, <1>9, <1>10 DEF ObjectsInStep
<1>12. RecordKept'
  <2>1. \A i \in DOMAIN decoded : decoded[i].name # x.name
    BY <1>1, <1>2 DEF HeaderAccepted, ObjectTypeOK
  <2> QED
    BY <1>1, <1>3, <2>1 DEF RecordKept
<1>13. BoundariesKept'
  BY <1>1, <1>3 DEF ObjectInv, BoundariesKept
<1> QED
  BY <1>3, <1>5, <1>7, <1>11, <1>12, <1>13 DEF ObjectInv
\* What the next frame of an object holds.
LEMMA FrameHolds ==
    ASSUME ObjectInv, phase = "frames", Begins(items, Records),
           Len(rebuilt) < Len(objects[Len(decoded) + 1].data)
    PROVE  LET c == objects[Len(decoded) + 1].data[Len(rebuilt) + 1]
               f == Frame(Len(decoded) + 1, Len(rebuilt) + 1)
           IN  /\ c \in Chunks /\ f.chunk = c /\ f.genuine
               /\ f.name = record[1].name /\ f.offset = expectedOffset
               /\ f.kind = "REF" => c \in known
               /\ Decoding \in Seq(Chunks) /\ f.nonce = Len(Decoding) + 1
<1> DEFINE n == Len(decoded)
           q == Len(rebuilt)
           data == objects[n + 1].data
           c == data[q + 1]
           f == Frame(n + 1, q + 1)
<1>1. /\ ObjectSource /\ n \in Nat /\ n < Len(objects) /\ n + 1 \in 1 .. Len(objects)
      /\ data \in Seq(Chunks) /\ Len(data) \in Nat /\ q \in 0 .. Len(data)
      /\ record[1].name = objects[n + 1].name /\ expectedOffset = SizeAt(data, q)
  <2>1. EndOfRecord \in Items
    BY DEF Items
  <2> QED
    BY <2>1, FrameIsNext DEF ObjectInv
<1>2. /\ q + 1 \in 1 .. Len(data) /\ (q + 1) - 1 = q /\ (n + 1) - 1 = n
      /\ n \in 0 .. Len(objects)
  BY <1>1
<1>3. /\ Before(n + 1, q + 1) = ChunksOf(n) \o SubSeq(data, 1, q)
      /\ f.offset = SizeAt(data, q)
  <2>1. /\ Before(n + 1, q + 1)
             = ChunksOf((n + 1) - 1) \o SubSeq(data, 1, (q + 1) - 1)
        /\ f.offset = SizeAt(data, (q + 1) - 1)
    BY <1>1, <1>2, FrameShape
  <2> QED
    BY <1>2, <2>1
<1>4. rebuilt = SubSeq(data, 1, q) /\ rebuilt \in Seq(Chunks)
      /\ known = warm \cup ToSet(Decoding)
  <2>1. /\ rebuilt \in Seq(Chunks) /\ Begins(rebuilt, data)
        /\ known = warm \cup ToSet(Decoding)
    BY DEF ObjectInv, ObjectTypeOK, ObjectsInStep, AsMade
  <2> QED
    BY <1>1, <2>1, SizeOfBeginning
<1>5. Before(n + 1, q + 1) = Decoding
  BY <1>3, <1>4 DEF Decoding
<1>6. ChunksOf(n) \in Seq(Chunks)
  BY <1>1, <1>2, ChunksFacts
<1>7. Decoding \in Seq(Chunks)
  BY <1>4, <1>6, Joined DEF Decoding
<1>8. c \in Chunks
  BY <1>1, <1>2, ElementOfSeq
<1>9. /\ f.chunk = c /\ f.genuine = TRUE /\ f.name = objects[n + 1].name
      /\ f.kind = IF c \in warm \cup ToSet(Before(n + 1, q + 1)) THEN "REF" ELSE "FULL"
      /\ f.nonce = Len(Before(n + 1, q + 1)) + 1
  BY DEF Frame
<1>10. f.kind = "REF" => c \in known
  BY <1>4, <1>5, <1>9
<1> QED
  BY <1>1, <1>3, <1>5, <1>7, <1>8, <1>9, <1>10

\* The next frame of an object takes the decoder one chunk on.
LEMMA NextFrameAsMade ==
    ASSUME ObjectInv, NEW x, TakeFrame(x), Begins(items, Records),
           Len(rebuilt) < Len(objects[Len(decoded) + 1].data),
           x = Frame(Len(decoded) + 1, Len(rebuilt) + 1)
    PROVE  AsMade'
<1> DEFINE n == Len(decoded)
           q == Len(rebuilt)
           data == objects[n + 1].data
           c == data[q + 1]
<1>1. /\ phase = "frames" /\ items' = Append(items, x)
      /\ window' = IF secureMode THEN Remember(window, ReplayWindowSize, x.nonce) ELSE window
      /\ known' = known \cup {x.chunk} /\ rebuilt' = Append(rebuilt, x.chunk)
      /\ expectedOffset' = expectedOffset + LengthOf[x.chunk]
      /\ UNCHANGED given /\ UNCHANGED <<phase, names, decoded, record>>
  BY DEF TakeFrame
<1>2. /\ ObjectSource /\ n \in Nat /\ n < Len(objects) /\ n + 1 \in 1 .. Len(objects)
      /\ data \in Seq(Chunks) /\ Len(data) \in Nat /\ q \in 0 .. Len(data)
      /\ expectedOffset = SizeAt(data, q)
  <2>1. EndOfRecord \in Items
    BY DEF Items
  <2> QED
    BY <1>1, <2>1, FrameIsNext DEF ObjectInv
<1>3. /\ c \in Chunks /\ x.chunk = c
      /\ Decoding \in Seq(Chunks) /\ x.nonce = Len(Decoding) + 1
  BY <1>1, FrameHolds
<1>4. /\ UNCHANGED <<objects, warm, secureMode>> /\ RecordsOf(n)' = RecordsOf(n)
      /\ ChunksOf(n)' = ChunksOf(n) /\ Header(n + 1)' = Header(n + 1)
  BY <1>1, GivenStays
<1>5. /\ AsMade /\ items \in Seq(Items) /\ rebuilt \in Seq(Chunks) /\ window \in Windows
      /\ Begins(rebuilt, data) /\ Begins(decoded, objects)
      /\ record = <<Header(n + 1)>> /\ Len(items) = Len(RecordsOf(n)) + (1 + q)
      /\ known = warm \cup ToSet(Decoding)
      /\ secureMode => /\ window.highest = Len(Decoding)
                       /\ window.seen \subseteq 1 .. Len(Decoding)
  BY <1>1 DEF ObjectInv, ObjectsInStep, ObjectTypeOK, AsMade
<1>6. /\ rebuilt' \in Seq(Chunks) /\ Len(rebuilt') = q + 1
      /\ \A i \in 1 .. q : rebuilt'[i] = rebuilt[i]
      /\ rebuilt'[q + 1] = c
  BY <1>1, <1>3, <1>5, Appended
<1>7. q + 1 \in 1 .. Len(data) /\ (q + 1) - 1 = q /\ n \in 0 .. Len(objects)
  BY <1>2
<1>8. Begins(rebuilt', data)
  <2>1. \A i \in 1 .. q : rebuilt[i] = data[i]
    BY <1>5 DEF Begins
  <2>2. \A i \in 1 .. q + 1 : i \in 1 .. q \/ i = q + 1
    BY <1>7
  <2>3. \A i \in 1 .. q + 1 : rebuilt'[i] = data[i]
    BY <1>6, <2>1, <2>2
  <2> QED
    BY <1>6, <1>7, <2>3 DEF Begins
<1>9. expectedOffset' = Size(rebuilt')
  <2>1. Size(rebuilt') = SizeAt(data, q + 1)
    BY <1>2, <1>6, <1>8, SizeOfBeginning
  <2>2. SizeAt(data, q + 1) = SizeAt(data, (q + 1) - 1) + LengthOf[data[q + 1]]
    BY <1>2, <1>7, SizesGrow
  <2> QED
    BY <1>1, <1>2, <1>3, <1>7, <2>1, <2>2
<1>10. Len(items') = Len(RecordsOf(n)) + (1 + Len(rebuilt'))
  <2>1. x \in Items
    BY <1>2, <1>7, FrameShape DEF Items
  <2>2. Len(items') = Len(items) + 1
    <3>1. items \in Seq(Items)
      BY <1>5
    <3>2. Len(Append(items, x)) = Len(items) + 1
      BY <2>1, <3>1, Appended
    <3> QED
      BY <1>1, <3>2
  <2>3. Len(RecordsOf(n)) \in Nat
    BY <1>2, <1>7, RecordsFacts, LenProperties
  <2> QED
    BY <1>2, <1>5, <1>6, <2>2, <2>3
<1>11. Decoding' = Append(Decoding, c)
  <2>1. ChunksOf(n) \in Seq(Chunks)
    BY <1>2, <1>7, ChunksFacts
  <2>2. ChunksOf(n) \o Append(rebuilt, c) = Append(ChunksOf(n) \o rebuilt, c)
    <3> HIDE DEF n, c
    <3>1. ChunksOf(n) \in Seq(Chunks) /\ rebuilt \in Seq(Chunks) /\ c \in Chunks
      BY <1>3, <1>5, <2>1
    <3> QED
      BY <3>1, JoinedAppend
  <2>3. Decoding = ChunksOf(n) \o rebuilt
    BY <1>1 DEF Decoding
  <2>4. Decoding' = ChunksOf(n) \o Append(rebuilt, c)
    BY <1>1, <1>3, <1>4 DEF Decoding
  <2> QED
    BY <2>2, <2>3, <2>4
<1>12. /\ Len(Decoding') = Len(Decoding) + 1 /\ Len(Decoding) \in Nat
       /\ ToSet(Decoding') = ToSet(Decoding) \cup {c}
  <2> DEFINE d == Decoding
             e == Decoding'
  <2>1. d \in Seq(Chunks) /\ e = Append(d, c) /\ c \in Chunks
    BY <1>3, <1>11
  <2> HIDE DEF d, e
  <2>2. /\ e \in Seq(Chunks) /\ Len(d) \in Nat /\ Len(e) = Len(d) + 1
        /\ \A i \in 1 .. Len(d) : e[i] = d[i]
        /\ e[Len(d) + 1] = c
    BY <2>1, Appended
  <2>3. DOMAIN d = 1 .. Len(d) /\ DOMAIN e = 1 .. Len(d) + 1
    BY <2>1, <2>2, LenProperties
  <2>4. /\ \A i \in 1 .. Len(d) + 1 : i \in 1 .. Len(d) \/ i = Len(d) + 1
        /\ \A i \in 1 .. Len(d) : i \in 1 .. Len(d) + 1
        /\ Len(d) + 1 \in 1 .. Len(d) + 1
    BY <2>2
  <2>5. ToSet(e) = ToSet(d) \cup {c}
    BY <2>2, <2>3, <2>4 DEF ToSet
  <2> QED
    BY <2>2, <2>5 DEF d, e
<1> HIDE DEF n, q, data, c
<1>13. secureMode => /\ window'.highest = Len(Decoding')
                     /\ window'.seen \subseteq 1 .. Len(Decoding')
  <2> SUFFICES ASSUME secureMode
               PROVE  /\ window'.highest = Len(Decoding')
                      /\ window'.seen \subseteq 1 .. Len(Decoding')
    OBVIOUS
  <2>1. PICK l \in Nat : l = Len(Decoding) /\ Len(Decoding') = l + 1
    BY <1>12
  <2>2. window' = Remember(window, ReplayWindowSize, l + 1)
        /\ window.highest = l /\ window.seen \subseteq 1 .. l
    BY <1>1, <1>3, <1>5, <2>1
  <2>3. window'.highest = l + 1
    BY <2>2 DEF Remember, Later
  <2>4. window'.seen \subseteq window.seen \cup {l + 1}
    BY <2>2 DEF Remember
  <2>5. window'.seen \subseteq 1 .. l + 1
    BY <2>2, <2>4
  <2> QED
    BY <2>1, <2>3, <2>5
<1>14. known' = warm' \cup ToSet(Decoding')
  BY <1>1, <1>3, <1>4, <1>5, <1>12
<1>15. /\ phase' = "frames" /\ Len(decoded') = n /\ decoded' = decoded
       /\ n < Len(objects') /\ record' = <<Header(n + 1)'>>
       /\ Begins(rebuilt', objects'[n + 1].data)
       /\ Len(items') = Len(RecordsOf(n)') + (1 + Len(rebuilt'))
  BY <1>1, <1>2, <1>4, <1>5, <1>8, <1>10 DEF n, data
<1> QED
  BY <1>4, <1>5, <1>9, <1>13, <1>14, <1>15 DEF AsMade, n

LEMMA TakeFrameInvariant ==
    ASSUME ObjectInv, NEW x \in OfferedItems("frame"), TakeFrame(x)
    PROVE  ObjectInv'
<1> DEFINE n == Len(decoded)
           q == Len(rebuilt)
           data == objects[n + 1].data
<1>1. /\ phase = "frames" /\ FrameAccepted(x) /\ items' = Append(items, x)
      /\ window' = IF secureMode THEN Remember(window, ReplayWindowSize, x.nonce) ELSE window
      /\ known' = known \cup {x.chunk} /\ rebuilt' = Append(rebuilt, x.chunk)
      /\ expectedOffset' = expectedOffset + LengthOf[x.chunk]
      /\ UNCHANGED given /\ UNCHANGED <<phase, names, decoded, record>>
  BY DEF TakeFrame
<1>2. /\ ObjectSource /\ ObjectTypeOK /\ items \in Seq(Items) /\ ObjectsInStep
  BY DEF ObjectInv
<1>3. /\ ObjectSource' /\ Records' = Records /\ UNCHANGED <<objects, warm, secureMode>>
      /\ OfferedItems("header")' = OfferedItems("header")
  BY <1>1, <1>2, GivenStays
<1>4. x \in FrameItems /\ x \in Items /\ x.item = "frame"
  BY <1>2, FrameOffered DEF Items, FrameItems
<1>5. items' \in Seq(Items)
  BY <1>1, <1>2, <1>4, Appended
<1>6. ObjectTypeOK'
  <2>1. x.chunk \in Chunks /\ x.nonce \in Nat
    BY <1>4 DEF FrameItems
  <2>2. rebuilt' \in Seq(Chunks)
    BY <1>1, <1>2, <2>1, Appended DEF ObjectTypeOK
  <2>3. expectedOffset' \in Nat
    <3>1. LengthOf[x.chunk] \in Nat
      BY <2>1, LengthAssumption
    <3> QED
      BY <1>1, <1>2, <3>1 DEF ObjectTypeOK
  <2>4. window' \in Windows
    <3>1. window.highest \in Nat /\ window.seen \in SUBSET Nat
      BY <1>2 DEF ObjectTypeOK, Windows
    <3>2. Later(window.highest, x.nonce) \in Nat
      BY <2>1, <3>1 DEF Later
    <3>3. Remember(window, ReplayWindowSize, x.nonce) \in Windows
      BY <2>1, <3>1, <3>2 DEF Remember, Windows
    <3> QED
      BY <1>1, <1>2, <3>3 DEF ObjectTypeOK
  <2>5. known' \subseteq Chunks
    BY <1>1, <1>2, <2>1 DEF ObjectTypeOK
  <2> QED
    BY <1>1, <1>2, <2>2, <2>3, <2>4, <2>5 DEF ObjectTypeOK
<1>7. Begins(items', Records) => Begins(items, Records)
  BY <1>1, <1>2, <1>4, BeginsBefore, RecordsFacts
<1>8. ASSUME secureMode
      PROVE  Begins(items', Records)
  <2>1. Begins(items, Records)
    BY <1>1, <1>2, <1>8 DEF ObjectsInStep
  <2>2. /\ n + 1 \in 1 .. Len(objects) /\ data \in Seq(Chunks) /\ Len(data) \in Nat
        /\ q \in 0 .. Len(data)
        /\ record[1].name = objects[n + 1].name /\ expectedOffset = SizeAt(data, q)
        /\ Begins(Append(items, x), Records)
             <=> \/ q < Len(data) /\ x = Frame(n + 1, q + 1)
                 \/ q = Len(data) /\ x = EndOfRecord
    BY <1>1, <1>4, <2>1, FrameIsNext
  <2>3. PICK i \in 1 .. Len(objects) : \E j \in 1 .. Len(objects[i].data) :
                 /\ x.name = objects[i].name /\ x.offset = SizeAt(objects[i].data, j - 1)
                 /\ x.genuine => x = Frame(i, j)
    BY <1>2, FrameOffered
  <2>4. x.genuine /\ x.name = record[1].name /\ x.offset = expectedOffset
    BY <1>1, <1>8 DEF FrameAccepted
  <2>5. i = n + 1
    <3>1. DOMAIN objects = 1 .. Len(objects)
      BY <1>2, ObjectFacts
    <3>2. objects[i].name = objects[n + 1].name
      BY <2>2, <2>3, <2>4
    <3> QED
      BY <1>2, <2>2, <3>1, <3>2 DEF ObjectSource
  <2>6. PICK j \in 1 .. Len(data) : x.offset = SizeAt(data, j - 1) /\ x = Frame(n + 1, j)
    BY <2>3, <2>4, <2>5
  <2>7. j - 1 = q
    <3>1. SizeAt(data, j - 1) = SizeAt(data, q)
      BY <2>2, <2>4, <2>6
    <3>2. j - 1 \in 0 .. Len(data)
      BY <2>2
    <3>3. PICK k : k = j - 1 /\ k \in 0 .. Len(data)
      BY <3>2
    <3>4. PICK a : a = SizeAt(data, q) /\ a \in Nat
      BY <2>2, SizesGrow
    <3>5. /\ k < q => SizeAt(data, k) < SizeAt(data, q)
          /\ q < k => SizeAt(data, q) < SizeAt(data, k)
      BY <2>2, <3>3, SizesGrow
    <3> QED
      BY <2>2, <3>1, <3>3, <3>4, <3>5
  <2>8. q + 1 = j /\ q < Len(data)
    BY <2>2, <2>7
  <2> QED
    BY <1>1, <2>2, <2>6, <2>8
<1>9. ASSUME Begins(items', Records)
      PROVE  AsMade'
  <2>1. Begins(items, Records)
    BY <1>7, <1>9
  <2>2. q < Len(data) /\ x = Frame(n + 1, q + 1)
    <3>1. \/ q < Len(data) /\ x = Frame(n + 1, q + 1)
          \/ q = Len(data) /\ x = EndOfRecord
      BY <1>1, <1>4, <1>9, <2>1, FrameIsNext
    <3>2. x # EndOfRecord
      BY <1>4 DEF EndOfRecord
    <3> QED
      BY <3>1, <3>2
  <2> QED
    BY <2>1, <2>2, NextFrameAsMade
<1>10. ObjectsInStep'
  BY <1>1, <1>2, <1>3, <1>8, <1>9 DEF ObjectsInStep
<1>11. RecordKept'
  BY <1>1, <1>3 DEF ObjectInv, RecordKept
<1>12. BoundariesKept'
  BY <1>1, <1>3 DEF ObjectInv, BoundariesKept
<1> QED
  BY <1>3, <1>5, <1>6, <1>10, <1>11, <1>12 DEF ObjectInv
\* The end of an object takes the decoder to the next one.
LEMMA EndAsMade ==
    ASSUME ObjectInv, CloseRecord, Begins(items, Records),
           Len(rebuilt) = Len(objects[Len(decoded) + 1].data)
    PROVE  AsMade'
<1> DEFINE n == Len(decoded)
           data == objects[n + 1].data
           o == [name |-> record[1].name, data |-> rebuilt]
<1>1. /\ phase = "frames" /\ phase' = "header" /\ items' = Append(items, EndOfRecord)
      /\ decoded' = Append(decoded, o) /\ record' = <<>>
      /\ UNCHANGED given /\ UNCHANGED <<names, known, window, expectedOffset, rebuilt>>
  BY DEF CloseRecord
<1>2. EndOfRecord \in Items
  BY DEF Items
<1>3. /\ ObjectSource /\ n \in Nat /\ n < Len(objects) /\ n + 1 \in 1 .. Len(objects)
      /\ data \in Seq(Chunks) /\ Len(data) \in Nat
      /\ record[1].name = objects[n + 1].name
  BY <1>1, <1>2, FrameIsNext DEF ObjectInv
<1>4. /\ UNCHANGED <<objects, warm, secureMode>>
      /\ \A k : RecordsOf(k)' = RecordsOf(k)
  BY <1>1, GivenStays
<1>5. /\ AsMade /\ items \in Seq(Items) /\ rebuilt \in Seq(Chunks)
      /\ decoded \in Seq(Objects) /\ Begins(rebuilt, data) /\ Begins(decoded, objects)
      /\ Len(items) = Len(RecordsOf(n)) + (1 + Len(rebuilt))
  BY <1>1 DEF ObjectInv, ObjectsInStep, ObjectTypeOK, AsMade
<1>6. rebuilt = data
  BY <1>3, <1>5, SeqEqual DEF Begins
<1>7. /\ o = objects[n + 1] /\ o \in Objects
      /\ objects[n + 1].data \in Seq(Chunks) /\ n + 1 \in 0 .. Len(objects)
      /\ (n + 1) - 1 = n /\ n \in 0 .. Len(objects)
  <2>1. o = [name |-> objects[n + 1].name, data |-> objects[n + 1].data]
    BY <1>3, <1>6
  <2>2. /\ objects[n + 1] = [name |-> objects[n + 1].name, data |-> objects[n + 1].data]
        /\ objects[n + 1].name \in Names /\ objects[n + 1].data \in Seq(Chunks)
    BY <1>3, ObjectFacts
  <2>3. o = objects[n + 1]
    BY <2>1, <2>2
  <2> QED
    BY <1>3, <2>1, <2>2, <2>3 DEF Objects
<1> HIDE DEF o
<1>8. /\ decoded' \in Seq(Objects) /\ Len(decoded') = n + 1
      /\ \A i \in 1 .. n : decoded'[i] = decoded[i]
      /\ decoded'[n + 1] = o
  BY <1>1, <1>5, <1>7, Appended
<1>9. Begins(decoded', objects)
  <2>1. \A i \in 1 .. n : decoded[i] = objects[i]
    BY <1>5 DEF Begins
  <2>2. \A i \in 1 .. n + 1 : i \in 1 .. n \/ i = n + 1
    BY <1>3
  <2>3. \A i \in 1 .. n + 1 : decoded'[i] = objects[i]
    BY <1>7, <1>8, <2>1, <2>2
  <2>4. n + 1 <= Len(objects)
    BY <1>3
  <2> QED
    BY <1>8, <2>3, <2>4 DEF Begins
<1>10. Decoding' = Decoding
  <2>1. ChunksOf(n + 1) = ChunksOf((n + 1) - 1) \o objects[n + 1].data
    BY <1>3, ChunksFacts
  <2>2. ChunksOf(n + 1) = ChunksOf(n) \o rebuilt
    BY <1>6, <1>7, <2>1
  <2>3. Decoding = ChunksOf(n) \o rebuilt
    BY <1>1 DEF Decoding
  <2>4. Decoding' = ChunksOf(n + 1)
    <3>1. Decoding' = ChunksOf(Len(decoded))'
      BY <1>1 DEF Decoding
    <3>2. ChunksOf(Len(decoded))' = ChunksOf(n + 1)
      BY <1>4, <1>8 DEF ChunksOf
    <3> QED
      BY <3>1, <3>2
  <2> QED
    BY <2>2, <2>3, <2>4
<1>11. Len(items') = Len(RecordsOf(n + 1)) + 0
  <2>1. Len(Append(items, EndOfRecord)) = Len(items) + 1
    <3>1. items \in Seq(Items)
      BY <1>5
    <3> QED
      BY <1>2, <3>1, Appended
  <2>2. RecordsOf(n + 1) = RecordsOf((n + 1) - 1) \o Record(n + 1)
    BY <1>3, RecordsFacts
  <2>3. /\ RecordsOf(n) \in Seq(Items)
        /\ Record(n + 1) \in Seq(Items) /\ Len(Record(n + 1)) = Len(data) + 2
    BY <1>3, <1>7, RecordsFacts, RecordShape
  <2>4. Len(RecordsOf(n) \o Record(n + 1)) = Len(RecordsOf(n)) + Len(Record(n + 1))
    BY <2>3, Joined
  <2>5. Len(RecordsOf(n)) \in Nat
    BY <2>3, LenProperties
  <2>6. Len(RecordsOf(n + 1)) = Len(RecordsOf(n)) + (Len(data) + 2)
    BY <1>7, <2>2, <2>3, <2>4
  <2>7. Len(items') = (Len(RecordsOf(n)) + (1 + Len(data))) + 1
    BY <1>1, <1>5, <1>6, <2>1
  <2> HIDE DEF data, n
  <2> QED
    BY <1>3, <2>5, <2>6, <2>7
<1>12. /\ known' = warm' \cup ToSet(Decoding')
       /\ secureMode' => /\ window'.highest = Len(Decoding')
                         /\ window'.seen \subseteq 1 .. Len(Decoding')
  BY <1>1, <1>4, <1>5, <1>10 DEF AsMade
<1>13. /\ phase' = "header" /\ Begins(decoded', objects')
       /\ Len(items') = Len(RecordsOf(Len(decoded))') + 0
  <2>1. PICK k : k = n + 1
    OBVIOUS
  <2>2. RecordsOf(Len(decoded))' = RecordsOf(k)'
    BY <1>8, <2>1 DEF RecordsOf
  <2>3. RecordsOf(Len(decoded))' = RecordsOf(n + 1)
    BY <1>4, <2>1, <2>2
  <2> QED
    BY <1>1, <1>4, <1>9, <1>11, <2>3
<1> QED
  BY <1>12, <1>13 DEF AsMade

LEMMA CloseInvariant ==
    ASSUME ObjectInv, CloseRecord
    PROVE  ObjectInv'
<1> DEFINE n == Len(decoded)
           q == Len(rebuilt)
           data == objects[n + 1].data
           o == [name |-> record[1].name, data |-> rebuilt]
<1>1. /\ phase = "frames" /\ phase' = "header" /\ items' = Append(items, EndOfRecord)
      /\ decoded' = Append(decoded, o) /\ record' = <<>> /\ IsWhole
      /\ UNCHANGED given /\ UNCHANGED <<names, known, window, expectedOffset, rebuilt>>
  BY DEF CloseRecord
<1>2. /\ ObjectSource /\ ObjectTypeOK /\ items \in Seq(Items) /\ ObjectsInStep
      /\ EndOfRecord \in Items
  BY DEF ObjectInv, Items
<1>3. /\ ObjectSource' /\ Records' = Records /\ UNCHANGED <<objects, warm, secureMode>>
      /\ OfferedItems("header")' = OfferedItems("header")
  BY <1>1, <1>2, GivenStays
<1>4. items' \in Seq(Items)
  BY <1>1, <1>2, Appended
<1>5. PICK h \in OfferedItems("header") :
         record = <<h>> /\ \A i \in DOMAIN decoded : decoded[i].name # h.name
  BY <1>1 DEF ObjectInv, RecordKept
<1>6. /\ h \in HeaderItems /\ h.name \in Names /\ record[1] = h
      /\ o.name = h.name /\ o.data = rebuilt
  BY <1>2, <1>5, HeaderOffered DEF HeaderItems
<1>7. o \in Objects /\ decoded \in Seq(Objects)
  BY <1>2, <1>6 DEF Objects, ObjectTypeOK
<1> HIDE DEF o
<1>8. /\ decoded' \in Seq(Objects) /\ Len(decoded') = n + 1 /\ n \in Nat
      /\ \A i \in 1 .. n : decoded'[i] = decoded[i]
      /\ decoded'[n + 1] = o
  BY <1>1, <1>7, Appended
<1>9. /\ DOMAIN decoded = 1 .. n /\ DOMAIN decoded' = 1 .. n + 1
      /\ \A i \in 1 .. n + 1 : i \in 1 .. n \/ i = n + 1
      /\ \A i \in 1 .. n : i \in 1 .. n + 1
      /\ n + 1 \in 1 .. n + 1
  BY <1>7, <1>8, LenProperties
<1>10. ObjectTypeOK'
  <2>1. ToSet(record) = {h} /\ ToSet(record') = {}
    BY <1>1, <1>5 DEF ToSet
  <2>2. {decoded'[i].name : i \in DOMAIN decoded'}
           = {decoded[i].name : i \in DOMAIN decoded} \cup {h.name}
    BY <1>6, <1>8, <1>9
  <2>3. names' = {decoded'[i].name : i \in DOMAIN decoded'}
                    \cup {y.name : y \in ToSet(record')}
    BY <1>1, <1>2, <2>1, <2>2 DEF ObjectTypeOK
  <2> QED
    BY <1>1, <1>2, <1>8, <2>3 DEF ObjectTypeOK
<1>11. Begins(items', Records) => Begins(items, Records)
  BY <1>1, <1>2, BeginsBefore, RecordsFacts
<1>12. ASSUME Begins(items, Records)
       PROVE  /\ n \in Nat /\ q \in 0 .. Len(data) /\ Len(data) \in Nat
              /\ record[1].length = SizeAt(data, Len(data)) /\ data \in Seq(Chunks)
              /\ Size(rebuilt) = SizeAt(data, q)
              /\ Begins(items', Records) <=> q = Len(data)
  <2>1. /\ data \in Seq(Chunks) /\ Len(data) \in Nat /\ q \in 0 .. Len(data)
        /\ record[1].length = Size(data)
        /\ Begins(Append(items, EndOfRecord), Records)
             <=> \/ q < Len(data) /\ EndOfRecord = Frame(n + 1, q + 1)
                 \/ q = Len(data) /\ EndOfRecord = EndOfRecord
    BY <1>1, <1>2, <1>12, FrameIsNext
  <2>2. EndOfRecord # Frame(n + 1, q + 1)
    BY DEF EndOfRecord, Frame
  <2>3. Begins(rebuilt, data) /\ rebuilt \in Seq(Chunks)
    BY <1>1, <1>2, <1>12 DEF ObjectsInStep, AsMade, ObjectTypeOK
  <2>4. Size(data) = SizeAt(data, Len(data)) /\ Size(rebuilt) = SizeAt(data, q)
    BY <2>1, <2>3, SizeOfAll, SizeOfBeginning
  <2> QED
    BY <1>1, <1>8, <2>1, <2>2, <2>4
<1>13. ASSUME secureMode
       PROVE  Begins(items', Records)
  <2>1. Begins(items, Records)
    BY <1>1, <1>2, <1>13 DEF ObjectsInStep
  <2>2. SizeAt(data, q) = SizeAt(data, Len(data))
    BY <1>1, <1>12, <2>1 DEF IsWhole
  <2>3. SizeAt(data, q) \in Nat /\ (q < Len(data) => SizeAt(data, q) < SizeAt(data, Len(data)))
    <3>1. Len(data) \in 0 .. Len(data)
      BY <1>12, <2>1
    <3> QED
      BY <1>12, <2>1, <3>1, SizesGrow
  <2>4. q = Len(data)
    <3>1. PICK a : a = SizeAt(data, q) /\ a \in Nat
      BY <2>3
    <3>2. ~ (q < Len(data))
      BY <2>2, <2>3, <3>1
    <3> QED
      BY <1>12, <2>1, <3>2
  <2> QED
    BY <1>12, <2>1, <2>4
<1>14. ASSUME Begins(items', Records)
       PROVE  AsMade'
  <2>1. Begins(items, Records)
    BY <1>11, <1>14
  <2>2. q = Len(data)
    BY <1>12, <1>14, <2>1
  <2> QED
    BY <2>1, <2>2, EndAsMade
<1>15. ObjectsInStep'
  <2>1. secureMode' => Begins(decoded', objects')
    BY <1>3, <1>13, <1>14 DEF AsMade
  <2> QED
    BY <1>1, <1>3, <1>13, <1>14, <2>1 DEF ObjectsInStep
<1>16. RecordKept'
  BY <1>1 DEF RecordKept
<1>17. BoundariesKept'
  <2>1. ASSUME NEW i \in 1 .. n
        PROVE  \E y \in OfferedItems("header") :
                  y.name = decoded[i].name /\ y.length = Size(decoded[i].data)
    BY <1>9 DEF ObjectInv, BoundariesKept
  <2>2. h.name = o.name /\ h.length = Size(o.data)
    BY <1>1, <1>6 DEF IsWhole
  <2>3. ASSUME NEW i \in 1 .. n + 1
        PROVE  \E y \in OfferedItems("header") :
                  y.name = decoded'[i].name /\ y.length = Size(decoded'[i].data)
    BY <1>8, <1>9, <2>1, <2>2
  <2>4. ASSUME NEW i \in 1 .. n + 1, NEW j \in 1 .. n + 1,
               decoded'[i].name = decoded'[j].name
        PROVE  i = j
    <3>1. \A k \in 1 .. n : decoded[k].name # o.name
      BY <1>5, <1>6, <1>9
    <3>2. \A k, l \in 1 .. n : decoded[k].name = decoded[l].name => k = l
      BY <1>9 DEF ObjectInv, BoundariesKept
    <3> QED
      BY <1>8, <1>9, <2>4, <3>1, <3>2
  <2> QED
    BY <1>3, <1>9, <2>3, <2>4 DEF BoundariesKept
<1> QED
  BY <1>3, <1>4, <1>10, <1>15, <1>16, <1>17 DEF ObjectInv

\* Nothing that was made is refused in its place.
LEMMA RefuseItemInvariant ==
    ASSUME ObjectInv, NEW x \in Items, RefuseItem(x)
    PROVE  ObjectInv'
<1> DEFINE n == Len(decoded)
           q == Len(rebuilt)
           data == objects[n + 1].data
<1>1. /\ items' = Append(items, x) /\ phase' = "rejected" /\ UNCHANGED given
      /\ UNCHANGED <<names, known, window, decoded, record, expectedOffset, rebuilt>>
      /\ phase \in {"header", "frames"}
  BY DEF RefuseItem
<1>2. /\ ObjectSource /\ ObjectTypeOK /\ items \in Seq(Items) /\ ObjectsInStep
  BY DEF ObjectInv
<1>3. /\ ObjectSource' /\ Records' = Records /\ UNCHANGED <<objects, warm, secureMode>>
      /\ OfferedItems("header")' = OfferedItems("header")
  BY <1>1, <1>2, GivenStays
<1>4. items' \in Seq(Items)
  BY <1>1, <1>2, Appended
<1>5. Begins(items', Records) => Begins(items, Records)
  BY <1>1, <1>2, BeginsBefore, RecordsFacts
<1>6. ASSUME Begins(items', Records), phase = "header" PROVE FALSE
  <2>1. Begins(items, Records) /\ AsMade
    BY <1>2, <1>5, <1>6 DEF ObjectsInStep
  <2>2. n \in 0 .. Len(objects) /\ Len(objects) \in Nat
        /\ n < Len(objects) /\ x = Header(n + 1)
    BY <1>1, <1>6, <2>1, HeaderIsNext
  <2>3. ~ HeaderAccepted(x)
    BY <1>6 DEF RefuseItem
  <2>4. x.genuine = TRUE /\ x.index = n + 1 /\ x.name = objects[n + 1].name
    BY <2>2 DEF Header
  <2>5. x.name \in names
    BY <2>3, <2>4 DEF HeaderAccepted, AtItsIndex
  <2>6. record = <<>> /\ ToSet(record) = {}
    <3>1. record = <<>>
      BY <1>6 DEF ObjectInv, RecordKept
    <3> QED
      BY <3>1 DEF ToSet
  <2>7. PICK i \in DOMAIN decoded : decoded[i].name = x.name
    BY <1>2, <2>5, <2>6 DEF ObjectTypeOK
  <2>8. DOMAIN decoded = 1 .. n /\ DOMAIN objects = 1 .. Len(objects)
    BY <1>2, LenProperties, ObjectFacts DEF ObjectTypeOK
  <2>9. i \in 1 .. n /\ decoded[i] = objects[i]
    BY <2>1, <2>7, <2>8 DEF AsMade, Begins
  <2>10. i \in DOMAIN objects /\ n + 1 \in DOMAIN objects /\ i # n + 1
    BY <2>2, <2>8, <2>9
  <2> QED
    BY <1>2, <2>4, <2>7, <2>9, <2>10 DEF ObjectSource
<1>7. ASSUME Begins(items', Records), phase = "frames" PROVE FALSE
  <2>1. Begins(items, Records) /\ AsMade
    BY <1>2, <1>5, <1>7 DEF ObjectsInStep
  <2>2. /\ n + 1 \in 1 .. Len(objects) /\ data \in Seq(Chunks) /\ q \in 0 .. Len(data)
        /\ record[1].length = Size(data)
        /\ \/ q < Len(data) /\ x = Frame(n + 1, q + 1)
           \/ q = Len(data) /\ x = EndOfRecord
    BY <1>1, <1>7, <2>1, FrameIsNext
  <2>3. CASE q < Len(data) /\ x = Frame(n + 1, q + 1)
    <3>1. /\ x.genuine /\ x.name = record[1].name /\ x.offset = expectedOffset
          /\ x.kind = "REF" => x.chunk \in known
          /\ Decoding \in Seq(Chunks) /\ x.nonce = Len(Decoding) + 1
      BY <1>7, <2>1, <2>3, FrameHolds
    <3>2. secureMode => ~ Replayed(window, ReplayWindowSize, x.nonce)
      <4>1. PICK l \in Nat : l = Len(Decoding)
        BY <3>1, LenProperties
      <4>2. /\ x.nonce = l + 1 /\ ReplayWindowSize \in Nat
            /\ secureMode => window.highest = l /\ window.seen \subseteq 1 .. l
        BY <1>2, <2>1, <3>1, <4>1 DEF AsMade, ObjectSource
      <4> QED
        BY <4>1, <4>2 DEF Replayed
    <3>3. FrameAccepted(x)
      BY <3>1, <3>2 DEF FrameAccepted
    <3>4. x.item = "frame"
      BY <2>3 DEF Frame
    <3> QED
      BY <1>7, <3>1, <3>3, <3>4 DEF RefuseItem
  <2>4. CASE q = Len(data) /\ x = EndOfRecord
    <3>1. x.item = "end" /\ ~ IsWhole
      BY <1>7, <2>4 DEF RefuseItem, EndOfRecord
    <3>2. rebuilt \in Seq(Chunks) /\ Begins(rebuilt, data)
      BY <1>2, <1>7, <2>1 DEF ObjectTypeOK, AsMade
    <3>3. Size(rebuilt) = SizeAt(data, q) /\ Size(data) = SizeAt(data, Len(data))
      BY <2>2, <3>2, SizeOfAll, SizeOfBeginning
    <3> QED
      BY <2>2, <2>4, <3>1, <3>3 DEF IsWhole
  <2> QED
    BY <2>2, <2>3, <2>4
<1>8. ObjectsInStep'
  BY <1>1, <1>2, <1>3, <1>6, <1>7 DEF ObjectsInStep
<1>9. ObjectTypeOK'
  BY <1>1, <1>2 DEF ObjectTypeOK
<1>10. RecordKept' /\ BoundariesKept'
  BY <1>1, <1>3 DEF ObjectInv, RecordKept, BoundariesKept
<1> QED
  BY <1>3, <1>4, <1>8, <1>9, <1>10 DEF ObjectInv

LEMMA ReturnObjectsInvariant ==
    ASSUME ObjectInv, ReturnObjects \/ UNCHANGED objectVars
    PROVE  ObjectInv'
<1>1. /\ UNCHANGED given
      /\ UNCHANGED <<items, names, known, window, decoded, record, expectedOffset, rebuilt>>
      /\ phase' = phase \/ (phase = "header" /\ phase' = "done")
  BY DEF ReturnObjects, objectVars
<1>2. /\ ObjectSource' /\ Records' = Records /\ UNCHANGED <<objects, warm, secureMode>>
      /\ OfferedItems("header")' = OfferedItems("header")
      /\ RecordsOf(Len(decoded))' = RecordsOf(Len(decoded))
      /\ ChunksOf(Len(decoded))' = ChunksOf(Len(decoded))
      /\ Header(Len(decoded) + 1)' = Header(Len(decoded) + 1)
  <2>1. \A n : RecordsOf(n)' = RecordsOf(n) /\ ChunksOf(n)' = ChunksOf(n)
               /\ Header(n)' = Header(n)
    BY <1>1, GivenStays
  <2>2. /\ ObjectSource' /\ Records' = Records /\ UNCHANGED <<objects, warm, secureMode>>
        /\ OfferedItems("header")' = OfferedItems("header")
    BY <1>1, GivenStays DEF ObjectInv
  <2>3. decoded' = decoded
    BY <1>1
  <2>4. /\ RecordsOf(Len(decoded))' = RecordsOf(Len(decoded))
        /\ ChunksOf(Len(decoded))' = ChunksOf(Len(decoded))
    BY <2>2, <2>3 DEF RecordsOf, ChunksOf, Record, Header, Frame, Before
  <2>5. Header(Len(decoded) + 1)' = Header(Len(decoded) + 1)
    BY <2>2, <2>3 DEF Header
  <2> QED
    BY <2>2, <2>4, <2>5
<1>3. phase' = "frames" <=> phase = "frames"
  BY <1>1
<1>4. Decoding' = Decoding
  BY <1>1, <1>2, <1>3 DEF Decoding
<1>5. AsMade => AsMade'
  BY <1>1, <1>2, <1>3, <1>4 DEF AsMade
<1>6. ObjectsInStep'
  BY <1>1, <1>2, <1>5 DEF ObjectInv, ObjectsInStep
<1>7. ObjectTypeOK' /\ RecordKept' /\ BoundariesKept' /\ items' \in Seq(Items)
  BY <1>1, <1>2 DEF ObjectInv, ObjectTypeOK, RecordKept, BoundariesKept
<1> QED
  BY <1>2, <1>6, <1>7 DEF ObjectInv

LEMMA ObjectStepInvariant ==
    ASSUME ObjectInv, [ObjectNext]_objectVars
    PROVE  ObjectInv'
<1>1. CASE ReturnObjects \/ UNCHANGED objectVars
  BY <1>1, ReturnObjectsInvariant
<1>2. CASE CloseRecord
  BY <1>2, CloseInvariant
<1>3. CASE RefuseItem(EndOfRecord)
  <2>1. EndOfRecord \in Items
    BY DEF Items
  <2> QED
    BY <1>3, <2>1, RefuseItemInvariant
<1>4. ASSUME NEW x \in OfferedItems("header"), OpenRecord(x) \/ RefuseItem(x)
      PROVE  ObjectInv'
  <2>1. x \in Items
    BY HeaderOffered DEF ObjectInv, Items
  <2> QED
    BY <1>4, <2>1, OpenInvariant, RefuseItemInvariant
<1>5. ASSUME NEW x \in OfferedItems("frame"), TakeFrame(x) \/ RefuseItem(x)
      PROVE  ObjectInv'
  <2>1. x \in Items
    BY FrameOffered DEF ObjectInv, Items
  <2> QED
    BY <1>5, <2>1, TakeFrameInvariant, RefuseItemInvariant
<1> QED
  BY <1>1, <1>2, <1>3, <1>4, <1>5 DEF ObjectNext, Handle

LEMMA ObjectInvariant ==
    ASSUME ProperObjects
    PROVE  ObjectSpec => []ObjectInv
<1>1. ObjectInit => ObjectInv
  BY ObjectInitInvariant
<1>2. ObjectInv /\ [ObjectNext]_objectVars => ObjectInv'
  BY ObjectStepInvariant
<1> QED
  BY <1>1, <1>2, PTL DEF ObjectSpec

\* The object decoder keeps its types, and knows the names it has taken.
THEOREM ObjectTypeCorrect ==
    ASSUME ProperObjects
    PROVE  ObjectSpec => []ObjectTypeOK
<1>1. ObjectInv => ObjectTypeOK
  BY DEF ObjectInv
<1> QED
  BY <1>1, ObjectInvariant, PTL

\* What the invariant says of a run of either mode.
LEMMA ObjectPromises ==
    ASSUME ObjectInv
    PROVE  ObjectsFailClosed /\ CleanRecordsAccepted /\ BoundariesKept
<1>1. /\ ObjectSource /\ objects \in Seq(Objects) /\ decoded \in Seq(Objects)
      /\ items \in Seq(Items) /\ ObjectsInStep /\ BoundariesKept
  BY DEF ObjectInv, ObjectSource, ObjectTypeOK
<1>2. Records \in Seq(Items)
  BY <1>1, RecordsFacts
<1>3. Begins(decoded, objects) => IsPrefix(decoded, objects)
  BY <1>1, BeginsIsPrefix
<1>4. Begins(items, Records) <=> IsPrefix(items, Records)
  BY <1>1, <1>2, BeginsIsPrefix, PrefixBegins
<1> QED
  BY <1>1, <1>3, <1>4 DEF ObjectsInStep, ObjectsFailClosed, CleanRecordsAccepted

\* In the secure mode objects and frames cannot be moved, renamed, swapped or cut
\* short: what is decoded is a beginning of the objects.
THEOREM ObjectsFailClosedProved ==
    ASSUME ProperObjects
    PROVE  ObjectSpec => []ObjectsFailClosed
<1>1. ObjectInv => ObjectsFailClosed
  BY ObjectPromises
<1> QED
  BY <1>1, ObjectInvariant, PTL

\* In either mode, and with a window of any capacity, untouched records are decoded.
THEOREM CleanRecordsAreAccepted ==
    ASSUME ProperObjects
    PROVE  ObjectSpec => []CleanRecordsAccepted
<1>1. ObjectInv => CleanRecordsAccepted
  BY ObjectPromises
<1> QED
  BY <1>1, ObjectInvariant, PTL

\* In either mode an object has the length its header claims, and no name comes
\* twice.
THEOREM BoundariesAreKept ==
    ASSUME ProperObjects
    PROVE  ObjectSpec => []BoundariesKept
<1>1. ObjectInv => BoundariesKept
  BY ObjectPromises
<1> QED
  BY <1>1, ObjectInvariant, PTL
=============================================================================
