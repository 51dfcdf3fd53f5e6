-------------------------- MODULE UdpRepairProofs --------------------------
(***************************************************************************)
(* Safety of the UDP exchange for every input, dictionary bound, number of *)
(* retries, drop rule and number of faults: stop and wait skips nothing,   *)
(* the exchange implements a reliable transfer, the counters of the two    *)
(* ends agree, and no client fails without a cause.                        *)
(***************************************************************************)
EXTENDS UdpRepair, EncodingProofs

-----------------------------------------------------------------------------
(* The inductive invariant.                                                *)

\* encode makes one frame of each chunk.
FramesCoverInput ==
    /\ Len(frames) = Len(input)
    /\ \A i \in 1 .. Len(input) : frames[i].chunk = input[i]

\* What is delivered is the input's chunk at that place.
DeliveredRight ==
    \A q \in DOMAIN delivered : delivered[q] = input[q + 1]

\* The client is never past the frame it is at, and a datagram of its carries
\* the chunk of its frame.
Honest ==
    {m \in Datagrams : m.t = "FRAME" =>
        m.seq \in 0 .. seq /\ m.seq < Len(frames) /\ m.chunk = input[m.seq + 1]}

\* The server acknowledges only what it has delivered.
Warranted == {r \in Answer : r.t = "ACK" => r.seq \in DOMAIN delivered}

\* StopAndWait is not inductive by itself: a stale ACK is harmless because it
\* is still warranted, a stale frame because it is still honest.
UInv ==
    /\ UdpTypeOK
    /\ FramesCoverInput
    /\ SoundDictionary(dictionary, MaxDictChunks)
    /\ DeliveredRight
    /\ StopAndWait
    /\ pc \in {"end", "done"} => seq = Len(frames)
    /\ waiting => attempts <= MaxRetries /\ pc \notin Ended
    /\ toServer \in Seq(Honest)
    /\ toClient \in Seq(Warranted)

-----------------------------------------------------------------------------
(* Sequences.                                                              *)

\* A sequence over a set is one over every larger set.
LEMMA SeqWider ==
    ASSUME NEW S, NEW T, S \subseteq T, NEW s \in Seq(S)
    PROVE  s \in Seq(T)
<1>1. Len(s) \in Nat /\ s \in [1 .. Len(s) -> S]
  BY LenProperties
<1> QED
  BY <1>1, SeqDef

\* Taking an element out of a queue leaves a queue.
LEMMA RemoveAtType ==
    ASSUME NEW S, NEW s \in Seq(S), NEW i \in DOMAIN s
    PROVE  RemoveAt(s, i) \in Seq(S)
<1>1. Len(s) \in Nat /\ DOMAIN s = 1 .. Len(s) /\ \A j \in 1 .. Len(s) : s[j] \in S
  BY LenProperties, ElementOfSeq
<1>2. SubSeq(s, 1, i - 1) \in Seq(S)
  <2>1. 1 \in Int /\ i - 1 \in Int /\ \A j \in 1 .. i - 1 : s[j] \in S
    BY <1>1
  <2> QED
    BY <2>1, SubSeqProperties
<1>3. SubSeq(s, i + 1, Len(s)) \in Seq(S)
  <2>1. i + 1 \in Int /\ Len(s) \in Int /\ \A j \in i + 1 .. Len(s) : s[j] \in S
    BY <1>1
  <2> QED
    BY <2>1, SubSeqProperties
<1> QED
  BY <1>2, <1>3, ConcatProperties, Zenon DEF RemoveAt

-----------------------------------------------------------------------------
(* The initial states.                                                     *)

\* The transfer starts in a state of the invariant.
LEMMA UdpInitInvariant ==
    ASSUME UdpInit
    PROVE  UInv
<1>1. input \in Seq(Chunks) /\ input \in Inputs
  BY InputsAssumption DEF UdpInit
<1>2. /\ frames \in Seq(ModelFrames)
      /\ FramesCoverInput
  BY <1>1, EncodedCovers DEF UdpInit, FramesCoverInput
<1>3. MaxDictChunks \in Nat /\ MaxRetries \in Nat
  BY UdpAssumption, CapacityAssumption
<1>4. SoundDictionary(warm, MaxDictChunks)
  BY <1>3, WarmSound DEF UdpInit
<1>5. SoundDictionary(dictionary, MaxDictChunks)
  <2>1. PICK P \in SUBSET DOMAIN warm : dictionary \in Kept(warm, P)
    BY DEF UdpInit, RandomlyThinned
  <2> QED
    BY <1>3, <1>4, <2>1, KeptSound
<1>6. /\ seq = 0 /\ attempts = 0 /\ waiting = FALSE /\ repairs = 0
      /\ delivered = <<>> /\ droppedOnce = {} /\ server = "up"
      /\ toServer = <<>> /\ toClient = <<>> /\ faults = 0
      /\ counts \in [Counters -> Nat]
      /\ pc = IF input = <<>> THEN "end" ELSE "frame"
  BY DEF UdpInit
<1>7. Len(frames) \in Nat /\ Len(frames) = Len(input)
      /\ (input = <<>> <=> Len(input) = 0)
  BY <1>1, <1>2, LenProperties, EmptySeq DEF FramesCoverInput
<1>8. DOMAIN delivered = {}
  BY <1>6
<1>9. /\ toServer \in Seq(Honest) /\ toClient \in Seq(Warranted)
      /\ toServer \in Seq(Datagrams) /\ toClient \in Seq(Answer)
  BY <1>6, EmptySeq
<1>10. DeliveredRight /\ StopAndWait
  BY <1>6, <1>8 DEF DeliveredRight, StopAndWait
<1>11. /\ seq \in 0 .. Len(frames) /\ attempts \in 0 .. MaxRetries + 1
       /\ pc \in {"frame", "repair"} => seq < Len(frames)
       /\ pc \in {"frame", "repair", "end"} \cup Ended
  BY <1>3, <1>6, <1>7
<1>12. /\ delivered \in [DOMAIN delivered -> Chunks]
       /\ DOMAIN delivered \cup droppedOnce \subseteq 0 .. Len(frames) - 1
  BY <1>6, <1>8
<1>13. warm \in Seq(Entries) /\ dictionary \in Seq(Entries)
  BY <1>4, <1>5 DEF SoundDictionary
<1>14. /\ waiting \in BOOLEAN /\ repairs \in Nat /\ faults \in Nat
       /\ server \in {"up", "served", "timedOut"}
  BY <1>6
<1>15. UdpTypeOK
  BY <1>1, <1>2, <1>6, <1>9, <1>11, <1>12, <1>13, <1>14 DEF UdpTypeOK
<1> QED
  BY <1>2, <1>3, <1>5, <1>6, <1>7, <1>9, <1>10, <1>15 DEF UInv

-----------------------------------------------------------------------------
(* The client's steps.                                                     *)

\* The parts of the invariant about the server hold again if the server, what
\* it sent and the client's place stay.
LEMMA ServerPartStays ==
    ASSUME UInv, UNCHANGED <<transfer, receiver, seq>>
    PROVE  /\ FramesCoverInput' /\ SoundDictionary(dictionary, MaxDictChunks)'
           /\ DeliveredRight' /\ StopAndWait'
           /\ Honest' = Honest /\ Warranted' = Warranted
           /\ input' \in Inputs /\ warm' \in Seq(Entries)
           /\ dictionary' \in Seq(Entries) /\ frames' \in Seq(ModelFrames)
           /\ seq' \in 0 .. Len(frames')
           /\ delivered' \in [DOMAIN delivered' -> Chunks]
           /\ DOMAIN delivered' \cup droppedOnce' \subseteq 0 .. Len(frames') - 1
           /\ counts' \in [Counters -> Nat]
           /\ server' \in {"up", "served", "timedOut"}
<1>1. UNCHANGED <<input, warm, frames, dictionary, delivered, droppedOnce,
                  counts, server, seq>>
  BY DEF transfer, receiver
<1> QED
  BY <1>1 DEF UInv, UdpTypeOK, FramesCoverInput, SoundDictionary, Authentic,
              DeliveredRight, StopAndWait, Honest, Warranted

\* Honest datagrams and warranted answers are of their types.
LEMMA QueueTypes ==
    ASSUME toServer \in Seq(Honest), toClient \in Seq(Warranted)
    PROVE  toServer \in Seq(Datagrams) /\ toClient \in Seq(Answer)
<1>1. Honest \subseteq Datagrams /\ Warranted \subseteq Answer
  BY DEF Honest, Warranted
<1> QED
  BY <1>1, SeqWider

\* What the client sends is honest.
LEMMA MessageHonest ==
    ASSUME UInv, pc \notin Ended
    PROVE  Message \in Honest
<1>1. pc \in {"frame", "repair", "end"}
  BY DEF UInv, UdpTypeOK
<1>2. CASE pc = "end"
  BY <1>2 DEF Message, Honest, Datagrams
<1>3. CASE pc \in {"frame", "repair"}
  <2>1. /\ Len(frames) \in Nat /\ Len(frames) = Len(input)
        /\ seq \in Nat /\ seq < Len(frames)
    BY <1>3, LenProperties DEF UInv, UdpTypeOK, FramesCoverInput
  <2>2. seq + 1 \in 1 .. Len(input) /\ seq + 1 \in 1 .. Len(frames)
    BY <2>1
  <2>3. frames[seq + 1] \in ModelFrames /\ frames[seq + 1].chunk = input[seq + 1]
    BY <2>2, ElementOfSeq DEF UInv, UdpTypeOK, FramesCoverInput
  <2>4. seq \in 0 .. seq
    BY <2>1
  <2>5. CASE pc = "frame"
    BY <2>1, <2>3, <2>4, <2>5 DEF Message, Honest, Datagrams, ModelFrames
  <2>6. CASE pc = "repair"
    BY <2>1, <2>3, <2>4, <2>6 DEF Message, Honest, Datagrams, ModelFrames
  <2> QED
    BY <1>3, <2>5, <2>6
<1> QED
  BY <1>1, <1>2, <1>3

\* sendto.
LEMMA TransmitInvariant ==
    ASSUME UInv, Transmit
    PROVE  UInv'
<1>1. /\ pc \notin Ended /\ ~ waiting /\ attempts <= MaxRetries
      /\ waiting' = TRUE
      /\ toServer' = IF server = "up" THEN Append(toServer, Message)
                                      ELSE toServer
      /\ UNCHANGED <<transfer, pc, seq, attempts, repairs, receiver, toClient,
                     faults>>
  BY DEF Transmit, MayTransmit
<1>2. toServer' \in Seq(Honest)
  BY <1>1, MessageHonest, AppendProperties DEF UInv
<1> USE ServerPartStays
<1>3. toServer' \in Seq(Honest') /\ toClient' \in Seq(Warranted')
  BY <1>1, <1>2 DEF UInv
<1>4. toServer' \in Seq(Datagrams) /\ toClient' \in Seq(Answer)
  BY <1>1, <1>2, SeqWider DEF UInv, UdpTypeOK, Honest
<1>5. UNCHANGED <<frames, pc, seq, attempts, repairs, faults>>
  BY <1>1 DEF transfer
<1>6. UdpTypeOK'
  BY <1>1, <1>4, <1>5 DEF UInv, UdpTypeOK
<1> QED
  BY <1>1, <1>3, <1>5, <1>6 DEF UInv

\* A timeout or a stale answer costs an attempt.
LEMMA RetryInvariant ==
    ASSUME UInv, waiting, Retry, toClient' \in Seq(Warranted),
           faults' \in Nat,
           UNCHANGED <<transfer, pc, seq, repairs, receiver, toServer>>
    PROVE  UInv'
<1>1. attempts' = attempts + 1 /\ waiting' = FALSE
  BY DEF Retry
<1>2. attempts' \in 0 .. MaxRetries + 1
  <2>1. MaxRetries \in Nat
    BY UdpAssumption
  <2>2. attempts \in 0 .. MaxRetries + 1 /\ attempts <= MaxRetries
    BY DEF UInv, UdpTypeOK
  <2> QED
    BY <1>1, <2>1, <2>2
<1> USE ServerPartStays
<1>3. toServer' \in Seq(Honest') /\ toClient' \in Seq(Warranted')
  BY DEF UInv
<1>4. toServer' \in Seq(Datagrams) /\ toClient' \in Seq(Answer)
  BY SeqWider DEF UInv, UdpTypeOK, Warranted
<1>5. UNCHANGED <<frames, pc, seq, repairs>>
  BY DEF transfer
<1>6. UdpTypeOK'
  BY <1>1, <1>2, <1>4, <1>5 DEF UInv, UdpTypeOK
<1> QED
  BY <1>1, <1>3, <1>5, <1>6 DEF UInv

\* The client ends.  It reports success only from the END loop.
LEMMA CloseInvariant ==
    ASSUME UInv, NEW how \in Ended, Close(how), how = "done" => pc = "end",
           UNCHANGED <<transfer, seq, attempts, repairs, receiver, toServer,
                       faults>>
    PROVE  UInv'
<1>1. pc' = how /\ waiting' = FALSE /\ toClient' = <<>>
  BY DEF Close
<1> USE ServerPartStays
<1>2. /\ toServer' \in Seq(Honest') /\ toClient' \in Seq(Warranted')
      /\ toServer' \in Seq(Datagrams) /\ toClient' \in Seq(Answer)
  BY <1>1, EmptySeq DEF UInv, UdpTypeOK
<1>3. UNCHANGED <<frames, seq, repairs, attempts, faults>>
  BY DEF transfer
<1>4. UdpTypeOK'
  BY <1>1, <1>2, <1>3 DEF UInv, UdpTypeOK, Ended
<1> QED
  BY <1>1, <1>2, <1>3, <1>4 DEF UInv, Ended

\* The answer at the head of the queue, and the rest.
LEMMA HeadAnswer ==
    ASSUME UInv, NEW t, Receive(t)
    PROVE  /\ Head(toClient) \in Warranted /\ Head(toClient).t = t
           /\ Tail(toClient) \in Seq(Warranted)
           /\ waiting
BY HeadTailProperties DEF UInv, Receive

\* A warranted ACK for the client's frame: it was delivered.
LEMMA ReceiveAckInvariant ==
    ASSUME UInv, ReceiveAck
    PROVE  UInv'
<1>1. /\ pc \in {"frame", "repair"} /\ Answers("ACK")
      /\ seq' = seq + 1
      /\ pc' = IF seq + 1 = Len(frames) THEN "end" ELSE "frame"
      /\ attempts' = 0 /\ waiting' = FALSE
      /\ toClient' = Tail(toClient)
      /\ UNCHANGED <<input, warm, frames, repairs, dictionary, delivered,
                     droppedOnce, counts, server, toServer, faults>>
  BY DEF ReceiveAck, Acknowledged, transfer, receiver
<1>2. /\ seq \in DOMAIN delivered
      /\ Tail(toClient) \in Seq(Warranted)
  BY <1>1, HeadAnswer DEF Answers, Warranted
<1>3. /\ Len(frames) \in Nat /\ seq \in Nat /\ seq < Len(frames)
  BY <1>1, LenProperties DEF UInv, UdpTypeOK
<1>4. DOMAIN delivered = 0 .. seq' - 1
  <2>1. DOMAIN delivered = 0 .. seq
    BY <1>2, <1>3 DEF UInv, StopAndWait
  <2> QED
    BY <1>1, <1>3, <2>1
<1>5. StopAndWait'
  BY <1>1, <1>4 DEF StopAndWait
<1>6. Honest \subseteq Honest' /\ Warranted' = Warranted
  <2>1. \A x : x \in 0 .. seq => x \in 0 .. seq'
    BY <1>1, <1>3
  <2> QED
    BY <1>1, <2>1 DEF Honest, Warranted
<1>7. toServer' \in Seq(Honest') /\ toClient' \in Seq(Warranted')
  BY <1>1, <1>2, <1>6, SeqWider DEF UInv
<1>8. toServer' \in Seq(Datagrams) /\ toClient' \in Seq(Answer)
  BY <1>1, <1>2, SeqWider DEF UInv, UdpTypeOK, Warranted
<1>9. /\ seq' \in 0 .. Len(frames') /\ attempts' \in 0 .. MaxRetries + 1
      /\ pc' \in {"frame", "repair"} => seq' < Len(frames')
      /\ pc' \in {"end", "done"} => seq' = Len(frames')
      /\ pc' \in {"frame", "repair", "end"} \cup Ended
  BY <1>1, <1>3, UdpAssumption
<1>10. UdpTypeOK'
  BY <1>1, <1>8, <1>9 DEF UInv, UdpTypeOK
<1>11. /\ FramesCoverInput' /\ SoundDictionary(dictionary, MaxDictChunks)'
       /\ DeliveredRight'
  BY <1>1 DEF UInv, FramesCoverInput, SoundDictionary, Authentic, DeliveredRight
<1> QED
  BY <1>1, <1>5, <1>7, <1>9, <1>10, <1>11 DEF UInv

\* A MISS that can be repaired.
LEMMA ReceiveMissInvariant ==
    ASSUME UInv, ReceiveMiss
    PROVE  UInv'
<1>1. /\ pc = "frame" /\ Answers("MISS")
      /\ UNCHANGED <<transfer, seq, receiver, toServer, faults>>
  BY DEF ReceiveMiss
<1>2. CASE Close("unrepairable")
  <2>1. UNCHANGED <<transfer, seq, attempts, repairs, receiver, toServer, faults>>
    BY <1>2 DEF ReceiveMiss, Close
  <2> QED
    BY <1>2, <2>1, CloseInvariant DEF Ended
<1>3. CASE ~ Close("unrepairable")
  <2>1. /\ pc' = "repair" /\ repairs' = repairs + 1
        /\ attempts' = 0 /\ waiting' = FALSE /\ toClient' = Tail(toClient)
    BY <1>3 DEF ReceiveMiss
  <2>2. Tail(toClient) \in Seq(Warranted)
    BY <1>1, HeadAnswer DEF Answers
  <2> USE ServerPartStays
  <2>3. toServer' \in Seq(Honest') /\ toClient' \in Seq(Warranted')
    BY <1>1, <2>1, <2>2 DEF UInv
  <2>4. toServer' \in Seq(Datagrams) /\ toClient' \in Seq(Answer)
    BY <1>1, <2>1, <2>2, SeqWider DEF UInv, UdpTypeOK, Warranted
  <2>5. /\ attempts' \in 0 .. MaxRetries + 1 /\ repairs' \in Nat
        /\ UNCHANGED <<frames, seq, faults>>
    <3>1. UNCHANGED <<frames, seq, faults>>
      BY <1>1 DEF transfer
    <3>2. repairs \in Nat /\ MaxRetries \in Nat
      BY UdpAssumption DEF UInv, UdpTypeOK
    <3> QED
      BY <2>1, <3>1, <3>2
  <2>6. UdpTypeOK'
    BY <1>1, <2>1, <2>4, <2>5 DEF UInv, UdpTypeOK
  <2> QED
    BY <1>1, <2>1, <2>3, <2>5, <2>6 DEF UInv
<1> QED
  BY <1>2, <1>3

-----------------------------------------------------------------------------
(* The server's steps.                                                     *)

\* A datagram the server reads is honest, and the rest of the queue too.
LEMMA OldestHonest ==
    ASSUME UInv, NEW m \in Oldest
    PROVE  m \in Honest /\ Tail(toServer) \in Seq(Honest)
BY HeadTailProperties DEF UInv, Oldest

\* An answer the server sends or does not send.
LEMMA ReplyWarranted ==
    ASSUME NEW W, toClient \in Seq(W), NEW r \in W, Reply(r)
    PROVE  toClient' \in Seq(W)
BY AppendProperties DEF Reply

\* The invariant after the server has taken a datagram, in terms of what it
\* did to its dictionary, to what is delivered and to its answers.
LEMMA HandledInvariant ==
    ASSUME UInv, NEW m \in Oldest,
           toServer' = Tail(toServer) \/ toServer' = <<>>,
           SoundDictionary(dictionary', MaxDictChunks),
           delivered' \in [DOMAIN delivered' -> Chunks],
           DOMAIN delivered \subseteq DOMAIN delivered',
           DOMAIN delivered' \cup droppedOnce' \subseteq 0 .. Len(frames) - 1,
           DeliveredRight', StopAndWait',
           toClient' \in Seq(Warranted'),
           counts' \in [Counters -> Nat],
           server' \in {"up", "served", "timedOut"},
           faults' \in Nat,
           UNCHANGED <<transfer, client>>
    PROVE  UInv'
<1>1. UNCHANGED <<input, warm, frames, pc, seq, attempts, waiting, repairs>>
  BY DEF transfer, client
<1>2. Honest' = Honest
  BY <1>1 DEF Honest
<1>3. toServer' \in Seq(Honest)
  BY OldestHonest, EmptySeq
<1>4. toServer' \in Seq(Datagrams) /\ toClient' \in Seq(Answer)
  <2>1. Honest \subseteq Datagrams /\ Warranted' \subseteq Answer
    BY DEF Honest, Warranted
  <2> QED
    BY <1>3, <2>1, SeqWider
<1>5. FramesCoverInput'
  BY <1>1 DEF UInv, FramesCoverInput
<1>6. dictionary' \in Seq(Entries)
  BY DEF SoundDictionary
<1>7. UdpTypeOK'
  BY <1>1, <1>4, <1>6 DEF UInv, UdpTypeOK
<1>8. toServer' \in Seq(Honest')
  BY <1>2, <1>3
<1>9. SoundDictionary(dictionary, MaxDictChunks)'
  OBVIOUS
<1> QED
  BY <1>1, <1>5, <1>7, <1>8, <1>9 DEF UInv

\* The counters keep their type.
LEMMA CountKeepsType ==
    ASSUME UInv, NEW xs, Count(xs)
    PROVE  counts' \in [Counters -> Nat]
BY DEF UInv, UdpTypeOK, Count

\* What a frame the server handles says.
LEMMA FrameHandled ==
    ASSUME UInv, NEW m \in Oldest, m.t = "FRAME"
    PROVE  /\ m.seq \in 0 .. seq /\ m.seq \in 0 .. Len(frames) - 1
           /\ m.seq \in Nat /\ m.chunk = input[m.seq + 1] /\ m.chunk \in Chunks
           /\ m.seq \notin DOMAIN delivered =>
                m.seq = seq /\ DOMAIN delivered = 0 .. seq - 1
<1>1. m \in Honest
  BY OldestHonest
<1>2. /\ m.seq \in 0 .. seq /\ m.seq < Len(frames) /\ m.chunk = input[m.seq + 1]
      /\ m.seq \in Nat /\ m.chunk \in Chunks
  BY <1>1 DEF Honest, Datagrams
<1>3. Len(frames) \in Nat /\ seq \in Nat
  BY LenProperties DEF UInv, UdpTypeOK
<1>4. ASSUME m.seq \notin DOMAIN delivered
      PROVE  m.seq = seq /\ DOMAIN delivered = 0 .. seq - 1
  <2>1. m.seq \notin 0 .. seq - 1 /\ DOMAIN delivered # 0 .. seq
    BY <1>2, <1>4 DEF UInv, StopAndWait
  <2>2. m.seq = seq
    BY <1>2, <1>3, <2>1
  <2> QED
    BY <2>1, <2>2 DEF UInv, StopAndWait
<1> QED
  BY <1>2, <1>3, <1>4

\* Delivering the right chunk at the client's frame.
LEMMA DeliverFacts ==
    ASSUME UInv, NEW m \in Oldest, m.t = "FRAME", m.seq \notin DOMAIN delivered,
           NEW c \in Chunks, c = m.chunk, Deliver(m, c),
           UNCHANGED <<transfer, client>>
    PROVE  /\ DOMAIN delivered' = DOMAIN delivered \cup {m.seq}
           /\ delivered' \in [DOMAIN delivered' -> Chunks]
           /\ DeliveredRight' /\ StopAndWait'
           /\ Warranted \subseteq Warranted'
<1>1. /\ m.seq = seq /\ DOMAIN delivered = 0 .. seq - 1
      /\ m.chunk = input[m.seq + 1] /\ m.seq \in Nat
  BY FrameHandled
<1>2. /\ DOMAIN delivered' = DOMAIN delivered \cup {m.seq}
      /\ delivered'[m.seq] = c
      /\ \A q \in DOMAIN delivered : delivered'[q] = delivered[q]
      /\ delivered' \in [DOMAIN delivered' -> Chunks]
  BY <1>1 DEF Deliver, UInv, UdpTypeOK
<1>3. input' = input /\ seq' = seq
  BY DEF transfer, client
<1>4. DeliveredRight'
  BY <1>1, <1>2, <1>3 DEF DeliveredRight, UInv
<1>5. DOMAIN delivered' = 0 .. seq
  <2>1. (0 .. seq - 1) \cup {seq} = 0 .. seq
    BY <1>1
  <2> QED
    BY <1>1, <1>2, <2>1
<1>6. StopAndWait'
  BY <1>3, <1>5 DEF StopAndWait
<1>7. Warranted \subseteq Warranted'
  BY <1>2 DEF Warranted
<1> QED
  BY <1>2, <1>4, <1>6, <1>7

\* An ACK for what is delivered is warranted.
LEMMA AckWarranted ==
    ASSUME NEW q \in Nat, q \in DOMAIN delivered'
    PROVE  [t |-> "ACK", seq |-> q] \in Warranted'
BY DEF Warranted, Answer

\* FULL.
LEMMA ServeFullInvariant ==
    ASSUME UInv, NEW m \in Oldest, AcceptFull(m)
    PROVE  UInv'
<1>1. /\ m.t = "FRAME" /\ m.seq \notin DOMAIN delivered
      /\ dictionary' = Touched(dictionary, m.chunk)
      /\ Deliver(m, m.chunk)
      /\ Count(IF m.repair THEN {"full", "repair"} ELSE {"full"})
      /\ Reply([t |-> "ACK", seq |-> m.seq])
      /\ toServer' = Tail(toServer)
      /\ UNCHANGED <<transfer, client, droppedOnce, server, faults>>
  BY DEF AcceptFull, Cache, NotDelivered, Handling, Handled
<1>2. /\ m.seq \in Nat /\ m.chunk \in Chunks /\ m.seq \in 0 .. Len(frames) - 1
  BY <1>1, FrameHandled
<1>3. /\ DOMAIN delivered' = DOMAIN delivered \cup {m.seq}
      /\ delivered' \in [DOMAIN delivered' -> Chunks]
      /\ DeliveredRight' /\ StopAndWait' /\ Warranted \subseteq Warranted'
  BY <1>1, <1>2, DeliverFacts
<1>4. SoundDictionary(dictionary', MaxDictChunks)
  BY <1>1, <1>2, TouchedSound DEF UInv
<1>5. toClient' \in Seq(Warranted')
  <2>1. toClient \in Seq(Warranted')
    BY <1>3, SeqWider DEF UInv
  <2> QED
    BY <1>1, <1>2, <1>3, <2>1, AckWarranted, ReplyWarranted
<1>6. counts' \in [Counters -> Nat]
  BY <1>1, CountKeepsType
<1>7. /\ DOMAIN delivered \cup droppedOnce \subseteq 0 .. Len(frames) - 1
      /\ server \in {"up", "served", "timedOut"} /\ faults \in Nat
  BY DEF UInv, UdpTypeOK
<1>8. DOMAIN delivered' \cup droppedOnce' \subseteq 0 .. Len(frames) - 1
  BY <1>1, <1>2, <1>3, <1>7
<1> QED
  BY <1>1, <1>3, <1>4, <1>5, <1>6, <1>7, <1>8, HandledInvariant

\* A REF the server can resolve.
LEMMA ServeRefInvariant ==
    ASSUME UInv, NEW m \in Oldest, AcceptRef(m)
    PROVE  UInv'
<1>1. /\ m.t = "FRAME" /\ m.seq \notin DOMAIN delivered /\ Holds(dictionary, m)
      /\ Deliver(m, Lookup(dictionary, CidOf[m.chunk]))
      /\ Count({"ref"})
      /\ Reply([t |-> "ACK", seq |-> m.seq])
      /\ toServer' = Tail(toServer)
      /\ UNCHANGED <<transfer, client, droppedOnce, server, faults, dictionary>>
  BY DEF AcceptRef, NotDelivered, Handling, Handled
<1>2. /\ m.seq \in Nat /\ m.chunk \in Chunks /\ m.seq \in 0 .. Len(frames) - 1
  BY <1>1, FrameHandled
<1>3. Lookup(dictionary, CidOf[m.chunk]) = m.chunk
  BY <1>1, <1>2, HoldsIsRight DEF UInv, SoundDictionary
<1>4. /\ DOMAIN delivered' = DOMAIN delivered \cup {m.seq}
      /\ delivered' \in [DOMAIN delivered' -> Chunks]
      /\ DeliveredRight' /\ StopAndWait' /\ Warranted \subseteq Warranted'
  BY <1>1, <1>2, <1>3, DeliverFacts
<1>5. SoundDictionary(dictionary', MaxDictChunks)
  BY <1>1 DEF UInv
<1>6. toClient' \in Seq(Warranted')
  <2>1. toClient \in Seq(Warranted')
    BY <1>4, SeqWider DEF UInv
  <2> QED
    BY <1>1, <1>2, <1>4, <2>1, AckWarranted, ReplyWarranted
<1>7. counts' \in [Counters -> Nat]
  BY <1>1, CountKeepsType
<1>8. /\ DOMAIN delivered \cup droppedOnce \subseteq 0 .. Len(frames) - 1
      /\ server \in {"up", "served", "timedOut"} /\ faults \in Nat
  BY DEF UInv, UdpTypeOK
<1>9. DOMAIN delivered' \cup droppedOnce' \subseteq 0 .. Len(frames) - 1
  BY <1>1, <1>2, <1>4, <1>8
<1> QED
  BY <1>1, <1>4, <1>5, <1>6, <1>7, <1>8, <1>9, HandledInvariant

\* The steps of the server that deliver nothing: an ACK sent again, a MISS,
\* the injected drop, and END.
LEMMA ServeQuietInvariant ==
    ASSUME UInv, NEW m \in Oldest,
           AckAgain(m) \/ MissRef(m) \/ DropDatagram(m) \/ ServeEnd(m)
    PROVE  UInv'
<1>1. /\ UNCHANGED <<transfer, client, dictionary, delivered>>
      /\ toServer' = Tail(toServer) \/ toServer' = <<>>
  BY DEF AckAgain, MissRef, DropDatagram, ServeEnd, Handled
<1>2. UNCHANGED <<input, seq>>
  BY <1>1 DEF transfer, client
<1>3. DeliveredRight' /\ StopAndWait' /\ Warranted' = Warranted
  BY <1>1, <1>2 DEF UInv, DeliveredRight, StopAndWait, Warranted
<1>4. /\ SoundDictionary(dictionary', MaxDictChunks)
      /\ delivered' \in [DOMAIN delivered' -> Chunks]
      /\ DOMAIN delivered \subseteq DOMAIN delivered'
  BY <1>1 DEF UInv, UdpTypeOK
<1>5. /\ counts \in [Counters -> Nat] /\ toClient \in Seq(Warranted)
      /\ server \in {"up", "served", "timedOut"} /\ faults \in Nat
      /\ DOMAIN delivered \cup droppedOnce \subseteq 0 .. Len(frames) - 1
  BY DEF UInv, UdpTypeOK
<1>6. toClient' \in Seq(Warranted)
  <2>1. CASE AckAgain(m)
    <3>1. m.seq \in Nat /\ m.seq \in DOMAIN delivered
      BY <2>1, FrameHandled DEF AckAgain, Handling
    <3>2. [t |-> "ACK", seq |-> m.seq] \in Warranted
      BY <3>1 DEF Warranted, Answer
    <3> QED
      BY <1>5, <2>1, <3>2, ReplyWarranted DEF AckAgain
  <2>2. CASE MissRef(m)
    <3>1. m.seq \in Nat
      BY <2>2, FrameHandled DEF MissRef, Handling
    <3>2. [t |-> "MISS", seq |-> m.seq] \in Warranted
      BY <3>1 DEF Warranted, Answer
    <3> QED
      BY <1>5, <2>2, <3>2, ReplyWarranted DEF MissRef, ReplyMiss
  <2>3. CASE DropDatagram(m)
    BY <1>5, <2>3 DEF DropDatagram
  <2>4. CASE ServeEnd(m)
    <3>1. [t |-> "STATS", ok |-> input \in Output] \in Warranted
      BY DEF Warranted, Answer
    <3> QED
      BY <1>5, <2>4, <3>1, ReplyWarranted DEF ServeEnd
  <2> QED
    BY <2>1, <2>2, <2>3, <2>4
<1>7. counts' \in [Counters -> Nat]
  BY <1>5, CountKeepsType DEF AckAgain, MissRef, DropDatagram, ServeEnd
<1>8. server' \in {"up", "served", "timedOut"} /\ faults' \in Nat
  BY <1>5 DEF AckAgain, MissRef, DropDatagram, ServeEnd, Handled
<1>9. DOMAIN delivered' \cup droppedOnce' \subseteq 0 .. Len(frames) - 1
  <2>1. CASE DropDatagram(m)
    <3>1. m.seq \in 0 .. Len(frames) - 1
      BY <2>1, FrameHandled DEF DropDatagram
    <3> QED
      BY <1>1, <1>5, <2>1, <3>1 DEF DropDatagram
  <2>2. CASE ~ DropDatagram(m)
    BY <1>1, <1>5, <2>2 DEF AckAgain, MissRef, ServeEnd, Handled
  <2> QED
    BY <2>1, <2>2
<1> QED
  BY <1>1, <1>3, <1>4, <1>6, <1>7, <1>8, <1>9, HandledInvariant

-----------------------------------------------------------------------------
(* The network, and the invariant.                                         *)

\* A client that is waiting times out or reads a stale answer.
LEMMA WaitInvariant ==
    ASSUME UInv, Timeout \/ ReceiveStale
    PROVE  UInv'
<1>1. /\ waiting /\ Retry
      /\ UNCHANGED <<transfer, pc, seq, repairs, receiver, toServer>>
  BY DEF Timeout, ReceiveStale
<1>2. toClient \in Seq(Warranted) /\ faults \in Nat
  BY DEF UInv, UdpTypeOK
<1>3. toClient' \in Seq(Warranted)
  BY <1>2, HeadTailProperties DEF Timeout, ReceiveStale, Discard
<1>4. faults' \in Nat
  BY <1>2 DEF Timeout, ReceiveStale
<1> QED
  BY <1>1, <1>3, <1>4, RetryInvariant

\* A datagram is lost.
LEMMA LossInvariant ==
    ASSUME UInv, LoseDatagram
    PROVE  UInv'
<1>1. UNCHANGED <<transfer, client, receiver>> /\ faults' = faults + 1
  BY DEF LoseDatagram
<1>2. UNCHANGED <<frames, pc, seq, attempts, waiting, repairs>>
  BY <1>1 DEF transfer, client
<1>3. toServer' \in Seq(Honest) /\ toClient' \in Seq(Warranted)
  BY RemoveAtType DEF UInv, LoseDatagram
<1>4. toServer' \in Seq(Datagrams) /\ toClient' \in Seq(Answer)
  <2>1. Honest \subseteq Datagrams /\ Warranted \subseteq Answer
    BY DEF Honest, Warranted
  <2> QED
    BY <1>3, <2>1, SeqWider
<1> USE ServerPartStays
<1>5. UdpTypeOK'
  <2>1. /\ pc' \in {"frame", "repair", "end"} \cup Ended
        /\ pc' \in {"frame", "repair"} => seq' < Len(frames')
        /\ attempts' \in 0 .. MaxRetries + 1 /\ waiting' \in BOOLEAN
        /\ repairs' \in Nat
    BY <1>2 DEF UInv, UdpTypeOK
  <2>2. faults' \in Nat
    BY <1>1 DEF UInv, UdpTypeOK
  <2> QED
    BY <1>1, <1>2, <1>4, <2>1, <2>2 DEF UdpTypeOK
<1>6. toServer' \in Seq(Honest') /\ toClient' \in Seq(Warranted')
  BY <1>1, <1>2, <1>3
<1> QED
  BY <1>1, <1>2, <1>5, <1>6 DEF UInv

\* Nothing but the server's status changes, or nothing at all.
LEMMA IdleInvariant ==
    ASSUME UInv, ServerTimeout \/ UNCHANGED udpVars
    PROVE  UInv'
<1>1. /\ UNCHANGED <<input, warm, frames, pc, seq, attempts, waiting, repairs,
                     dictionary, delivered, droppedOnce, counts, toServer,
                     toClient, faults>>
      /\ server' \in {"up", "served", "timedOut"}
  BY DEF ServerTimeout, udpVars, transfer, client, receiver, UInv, UdpTypeOK
<1>2. Honest' = Honest /\ Warranted' = Warranted
  BY <1>1 DEF Honest, Warranted
<1>3. UdpTypeOK'
  BY <1>1 DEF UInv, UdpTypeOK
<1>4. /\ FramesCoverInput' /\ SoundDictionary(dictionary, MaxDictChunks)'
      /\ DeliveredRight' /\ StopAndWait'
  BY <1>1 DEF UInv, FramesCoverInput, SoundDictionary, Authentic,
              DeliveredRight, StopAndWait
<1> QED
  BY <1>1, <1>2, <1>3, <1>4 DEF UInv

\* Every step of the client, the server and the network keeps the invariant.
LEMMA UdpNextInvariant ==
    ASSUME UInv, [UdpNext]_udpVars
    PROVE  UInv'
<1>1. CASE ClientStep
  <2>1. CASE Transmit
    BY <2>1, TransmitInvariant
  <2>2. CASE GiveUp
    BY <2>2, CloseInvariant DEF GiveUp, Ended
  <2>3. CASE ReceiveAck
    BY <2>3, ReceiveAckInvariant
  <2>4. CASE ReceiveMiss
    BY <2>4, ReceiveMissInvariant
  <2>5. CASE ReceiveMissForRepair
    BY <2>5, CloseInvariant DEF ReceiveMissForRepair, Ended
  <2>6. CASE ReceiveStats
    BY <2>6, CloseInvariant DEF ReceiveStats, Ended
  <2>7. CASE ReceiveStale
    BY <2>7, WaitInvariant
  <2> QED
    BY <1>1, <2>1, <2>2, <2>3, <2>4, <2>5, <2>6, <2>7 DEF ClientStep
<1>2. CASE ServerStep
  BY <1>2, ServeFullInvariant, ServeRefInvariant, ServeQuietInvariant
  DEF ServerStep, HandleFrame
<1>3. CASE Timeout
  BY <1>3, WaitInvariant
<1>4. CASE LoseDatagram
  BY <1>4, LossInvariant
<1>5. CASE ServerTimeout \/ UNCHANGED udpVars
  BY <1>5, IdleInvariant
<1> QED
  BY <1>1, <1>2, <1>3, <1>4, <1>5 DEF UdpNext

\* The exchange keeps its invariant whatever is lost or late.
THEOREM UdpInvariant == UdpSpec => []UInv
BY UdpInitInvariant, UdpNextInvariant, PTL DEF UdpSpec

\* Every reachable state of client, server and network is type correct.
THEOREM UdpTypeCorrect == UdpSpec => []UdpTypeOK
BY UdpInvariant, PTL DEF UInv

\* The receiver is never behind the client, and never ahead by more than the
\* frame that is under way.
THEOREM NothingIsSkipped == UdpSpec => []StopAndWait
BY UdpInvariant, PTL DEF UInv

-----------------------------------------------------------------------------
(* The exchange implements a reliable transfer.                            *)

\* What the receiver has, place by place.
LEMMA GotFacts ==
    ASSUME UInv
    PROVE  /\ \A i : i \in DOMAIN Got <=> i - 1 \in DOMAIN delivered /\ i \in Int
           /\ \A i \in DOMAIN Got : Got[i] = input[i] /\ i \in DOMAIN input
<1>1. /\ DOMAIN delivered \subseteq 0 .. Len(frames) - 1
      /\ Len(frames) = Len(input) /\ input \in Seq(Chunks)
  BY InputsAssumption DEF UInv, UdpTypeOK, FramesCoverInput
<1>2. Len(input) \in Nat /\ DOMAIN input = 1 .. Len(input)
  BY <1>1, LenProperties
<1>3. DOMAIN delivered \subseteq Nat
  BY <1>1, <1>2
<1>4. \A q \in DOMAIN delivered : delivered[q] = input[q + 1]
  BY DEF UInv, DeliveredRight
<1>5. /\ \A i : i \in DOMAIN Got <=> i - 1 \in DOMAIN delivered /\ i \in Int
      /\ \A i \in DOMAIN Got : Got[i] = input[i]
  <2>1. Got = [j \in {q + 1 : q \in DOMAIN delivered} |-> delivered[j - 1]]
    BY DEF Got
  <2> QED
    BY <1>3, <1>4, <2>1, ShiftFacts
<1>6. ASSUME NEW i \in DOMAIN Got PROVE i \in 1 .. Len(input)
  BY <1>1, <1>2, <1>5
<1> QED
  BY <1>2, <1>5, <1>6

\* At the end of the END loop the receiver has the whole input.
LEMMA GotAll ==
    ASSUME UInv, pc = "end"
    PROVE  Got = input
<1>1. /\ input \in Seq(Chunks) /\ seq = Len(input) /\ seq \in Nat
      /\ DOMAIN delivered \subseteq 0 .. seq - 1
  BY InputsAssumption, LenProperties DEF UInv, UdpTypeOK, FramesCoverInput
<1>2. DOMAIN delivered = 0 .. seq - 1
  BY <1>1 DEF UInv, StopAndWait
<1>3. DOMAIN Got = 1 .. seq
  <2>1. ASSUME NEW i PROVE i \in DOMAIN Got <=> i \in 1 .. seq
    BY <1>1, <1>2, GotFacts
  <2> QED
    BY <2>1
<1>4. DOMAIN input = 1 .. seq /\ input = [i \in 1 .. seq |-> input[i]]
  BY <1>1, LenProperties
<1>5. Got = [i \in DOMAIN Got |-> Got[i]]
  BY DEF Got
<1> QED
  BY <1>3, <1>4, <1>5, GotFacts

\* The abstract outcome follows the client.
LEMMA OutcomeFacts ==
    ASSUME UInv
    PROVE  /\ pc \notin Ended => Outcome = "running"
           /\ pc = "done" => Outcome = "done"
           /\ pc \in Ended \ {"done"} => Outcome = "failed"
BY DEF Outcome, Ended

\* A step that delivers nothing and leaves the client running, or ended as it
\* was, is a stutter of the transfer.
LEMMA StutterRefines ==
    ASSUME UInv, UNCHANGED <<input, delivered>>,
           pc' = pc \/ (pc \notin Ended /\ pc' \notin Ended)
    PROVE  UNCHANGED <<input, Got, Outcome>>
BY DEF Got, Outcome, Ended

\* The end of the client is the end of the transfer.
LEMMA CloseRefines ==
    ASSUME UInv, NEW how \in Ended, Close(how), pc \notin Ended,
           how = "done" => pc = "end", UNCHANGED <<input, delivered>>
    PROVE  Transfer!Next
<1>1. Outcome = "running" /\ pc' = how
  BY OutcomeFacts DEF Close
<1>2. UNCHANGED <<input, Got>>
  BY DEF Got
<1>3. CASE how = "done"
  <2>1. Outcome' = "done"
    BY <1>1, <1>3 DEF Outcome
  <2> QED
    BY <1>1, <1>2, <1>3, <2>1, GotAll DEF Transfer!Next, Transfer!Complete
<1>4. CASE how # "done"
  <2>1. Outcome' = "failed"
    BY <1>1, <1>4 DEF Outcome
  <2> QED
    BY <1>1, <1>2, <2>1 DEF Transfer!Next, Transfer!Abort
<1> QED
  BY <1>3, <1>4

\* A frame the server accepts fills one free place with the input's chunk.
LEMMA DeliverRefines ==
    ASSUME UInv, UInv', NEW m \in Oldest, AcceptFull(m) \/ AcceptRef(m)
    PROVE  Transfer!Next
<1> DEFINE i == m.seq + 1
<1>1. /\ m.t = "FRAME" /\ m.seq \notin DOMAIN delivered
      /\ UNCHANGED <<transfer, client>>
  BY DEF AcceptFull, AcceptRef, NotDelivered, Handling, Handled
<1>2. /\ m.seq \in Nat /\ m.seq \in 0 .. Len(frames) - 1
  BY <1>1, FrameHandled
<1>3. DOMAIN delivered' = DOMAIN delivered \cup {m.seq}
  BY DEF AcceptFull, AcceptRef, Deliver
<1>4. UNCHANGED <<input, pc>>
  BY <1>1 DEF transfer, client
<1>5. Outcome' = Outcome
  BY <1>4 DEF Outcome
<1>6. /\ i \in Int /\ i - 1 = m.seq
  BY <1>2
<1>7. i \notin DOMAIN Got /\ i \in DOMAIN input
  <2>1. input \in Seq(Chunks) /\ Len(frames) = Len(input)
    BY InputsAssumption DEF UInv, UdpTypeOK, FramesCoverInput
  <2>2. i \in 1 .. Len(input) /\ DOMAIN input = 1 .. Len(input)
    BY <1>2, <2>1, LenProperties
  <2> QED
    BY <1>1, <1>6, <2>2, GotFacts
<1>8. /\ \A j : j \in DOMAIN Got' <=> j - 1 \in DOMAIN delivered' /\ j \in Int
      /\ \A j \in DOMAIN Got' : Got'[j] = input[j]
  <2>1. DOMAIN delivered \subseteq Nat
    BY InputsAssumption, LenProperties
    DEF UInv, UdpTypeOK, FramesCoverInput
  <2>2. DOMAIN delivered' \subseteq Nat
    BY <1>2, <1>3, <2>1
  <2>3. \A q \in DOMAIN delivered' : delivered'[q] = input[q + 1]
    BY <1>4 DEF UInv, DeliveredRight
  <2>4. Got' = [j \in {q + 1 : q \in DOMAIN delivered'} |-> delivered'[j - 1]]
    BY DEF Got
  <2> QED
    BY <2>2, <2>3, <2>4, ShiftFacts
<1> HIDE DEF i
<1>9. DOMAIN Got' = DOMAIN Got \cup {i}
  <2>1. ASSUME NEW j PROVE j \in DOMAIN Got' <=> j \in DOMAIN Got \cup {i}
    <3>1. j \in Int => (j - 1 = m.seq <=> j = i)
      BY <1>2, <1>6
    <3> QED
      BY <1>3, <1>6, <1>8, <3>1, GotFacts
  <2> QED
    BY <2>1
<1>10. Got' = [j \in DOMAIN Got \cup {i} |-> input[j]]
  <2>1. Got' = [j \in DOMAIN Got' |-> Got'[j]]
    BY DEF Got
  <2> QED
    BY <1>8, <1>9, <2>1
<1> QED
  BY <1>4, <1>5, <1>7, <1>10 DEF Transfer!Next, Transfer!Deliver, Transfer!Filled

\* Every step of the exchange is a step of the transfer or a stutter.
LEMMA UdpStepRefines ==
    ASSUME UInv, UInv', [UdpNext]_udpVars
    PROVE  [Transfer!Next]_<<input, Got, Outcome>>
<1>1. CASE Transmit \/ Timeout \/ ReceiveStale \/ ReceiveAck
  <2>1. /\ UNCHANGED <<input, delivered>>
        /\ pc' = pc \/ (pc \notin Ended /\ pc' \notin Ended)
    BY <1>1 DEF Transmit, Timeout, ReceiveStale, ReceiveAck, transfer,
                receiver, Ended
  <2> QED
    BY <2>1, StutterRefines
<1>2. CASE GiveUp \/ ReceiveMissForRepair \/ ReceiveStats
  BY <1>2, CloseRefines
  DEF GiveUp, ReceiveMissForRepair, ReceiveStats, transfer, receiver, Ended
<1>3. CASE ReceiveMiss
  <2>1. UNCHANGED <<input, delivered>> /\ pc = "frame"
    BY <1>3 DEF ReceiveMiss, transfer, receiver
  <2>2. pc' = "repair" \/ Close("unrepairable")
    BY <1>3 DEF ReceiveMiss
  <2>3. CASE pc' = "repair"
    BY <2>1, <2>3, StutterRefines DEF Ended
  <2>4. CASE Close("unrepairable")
    BY <2>1, <2>4, CloseRefines DEF Ended
  <2> QED
    BY <2>2, <2>3, <2>4
<1>4. CASE ServerStep
  <2>1. PICK m \in Oldest : DropDatagram(m) \/ HandleFrame(m) \/ ServeEnd(m)
    BY <1>4 DEF ServerStep
  <2>2. CASE AcceptFull(m) \/ AcceptRef(m)
    BY <2>2, DeliverRefines
  <2>3. CASE DropDatagram(m) \/ AckAgain(m) \/ MissRef(m) \/ ServeEnd(m)
    <3>1. UNCHANGED <<input, delivered, pc>>
      BY <2>3 DEF DropDatagram, AckAgain, MissRef, ServeEnd, Handled, transfer,
                  client
    <3> QED
      BY <3>1, StutterRefines
  <2> QED
    BY <2>1, <2>2, <2>3 DEF HandleFrame
<1>5. CASE ServerTimeout \/ LoseDatagram \/ UNCHANGED udpVars
  <2>1. UNCHANGED <<input, delivered, pc>>
    BY <1>5 DEF ServerTimeout, LoseDatagram, udpVars, transfer, client, receiver
  <2> QED
    BY <2>1, StutterRefines
<1> QED
  BY <1>1, <1>2, <1>3, <1>4, <1>5 DEF UdpNext, ClientStep

\* Over a network that loses and delays, the receiver only ever gets the right
\* chunks, and the client reports success only when it has them all.
THEOREM UdpIsReliableTransfer == UdpSpec => ImplementsTransfer
<1>1. UdpInit => Transfer!Init
  <2> SUFFICES ASSUME UdpInit PROVE Transfer!Init
    OBVIOUS
  <2>1. delivered = <<>> /\ pc \in {"end", "frame"}
    BY DEF UdpInit
  <2>2. Outcome = "running"
    BY <2>1 DEF Outcome, Ended
  <2>3. Got = <<>>
    <3>1. DOMAIN delivered = {}
      BY <2>1
    <3>2. {q + 1 : q \in DOMAIN delivered} = {}
      BY <3>1
    <3> QED
      BY <3>2 DEF Got
  <2> QED
    BY <2>2, <2>3 DEF Transfer!Init
<1>2. UInv /\ UInv' /\ [UdpNext]_udpVars
        => [Transfer!Next]_<<input, Got, Outcome>>
  BY UdpStepRefines
<1> QED
  BY <1>1, <1>2, UdpInvariant, PTL DEF UdpSpec, Transfer!Spec, ImplementsTransfer

-----------------------------------------------------------------------------
(* The counts of the two ends.                                             *)

\* The client's frame is a REF the receiver cannot resolve.
Unresolved ==
    /\ seq \notin DOMAIN delivered
    /\ frames[seq + 1].kind = "REF"
    /\ ~ Holds(dictionary, frames[seq + 1])

\* A datagram for the client's frame is that frame, or the FULL that repairs
\* it if the client is after that.
Consistent ==
    {m \in Datagrams : m.t = "FRAME" /\ m.seq = seq /\ pc \in {"frame", "repair"}
        => IF m.repair THEN pc = "repair" /\ m.kind = "FULL"
                       ELSE m.kind = frames[seq + 1].kind}

\* A MISS the client may still act upon is true, and it has been counted.
Justified ==
    {r \in Answer : r.t = "MISS" =>
        /\ r.seq \in 0 .. seq
        /\ pc = "frame" /\ r.seq = seq
              => Unresolved /\ counts["miss"] >= repairs + 1}

\* The repair the client is after is not counted before it is delivered.
Uncounted == IF pc = "repair" /\ seq \notin DOMAIN delivered THEN 1 ELSE 0

CountInv ==
    /\ counts["full"] + counts["ref"]
         = IF seq \in DOMAIN delivered THEN seq + 1 ELSE seq
    /\ pc \in {"frame", "repair", "end", "done"}
         => counts["repair"] + Uncounted = repairs
    /\ counts["miss"] >= repairs
    /\ pc = "repair" /\ seq \notin DOMAIN delivered => Unresolved
    /\ toServer \in Seq(Consistent)
    /\ toClient \in Seq(Justified)

\* The parts of the counts that only the queues can disturb.
LEMMA QuietCounts ==
    ASSUME CountInv,
           UNCHANGED <<frames, pc, seq, repairs, dictionary, delivered, counts>>,
           toServer' \in Seq(Consistent), toClient' \in Seq(Justified)
    PROVE  CountInv'
<1>1. Consistent' = Consistent
  BY DEF Consistent
<1>2. Unresolved' = Unresolved /\ Uncounted' = Uncounted
  BY DEF Unresolved, Uncounted
<1>3. Justified' = Justified
  BY <1>2 DEF Justified
<1> QED
  BY <1>1, <1>2, <1>3 DEF CountInv

\* Nothing is counted at first.
LEMMA CountInitInvariant ==
    ASSUME UdpInit
    PROVE  CountInv
<1>1. /\ seq = 0 /\ repairs = 0 /\ delivered = <<>>
      /\ counts = [x \in Counters |-> 0]
      /\ toServer = <<>> /\ toClient = <<>>
      /\ pc # "repair"
  BY DEF UdpInit
<1>2. DOMAIN delivered = {} /\ Uncounted = 0
  BY <1>1 DEF Uncounted
<1>3. /\ counts["full"] = 0 /\ counts["ref"] = 0
      /\ counts["repair"] = 0 /\ counts["miss"] = 0
  BY <1>1 DEF Counters
<1>4. toServer \in Seq(Consistent) /\ toClient \in Seq(Justified)
  BY <1>1, EmptySeq
<1>5. seq \notin DOMAIN delivered
  BY <1>2
<1> QED
  BY <1>1, <1>2, <1>3, <1>4, <1>5 DEF CountInv

\* What the client sends says what it is after.
LEMMA MessageConsistent ==
    ASSUME UInv, pc \notin Ended
    PROVE  Message \in Consistent
<1>1. Message \in Datagrams
  BY MessageHonest DEF Honest
<1>2. CASE pc = "end"
  BY <1>1, <1>2 DEF Message, Consistent
<1>3. CASE pc = "frame"
  BY <1>1, <1>3 DEF Message, Consistent
<1>4. CASE pc = "repair"
  BY <1>1, <1>4 DEF Message, Consistent
<1> QED
  BY <1>2, <1>3, <1>4 DEF UInv, UdpTypeOK

\* The end of the client leaves the counts of a finished transfer alone.
LEMMA CloseCounts ==
    ASSUME UInv, CountInv, NEW how \in Ended, Close(how),
           how = "done" => pc = "end",
           UNCHANGED <<frames, seq, repairs, dictionary, delivered, counts,
                       toServer>>
    PROVE  CountInv'
<1>1. pc' = how /\ toClient' = <<>> /\ how \notin {"frame", "repair", "end"}
  BY DEF Close, Ended
<1>2. Consistent \subseteq Consistent' /\ toClient' \in Seq(Justified')
  BY <1>1, EmptySeq DEF Consistent
<1>3. toServer' \in Seq(Consistent')
  BY <1>2, SeqWider DEF CountInv
<1>4. pc' \in {"frame", "repair", "end", "done"} => pc = "end" /\ pc' = "done"
  BY <1>1
<1>5. pc = "end" /\ pc' = "done" => Uncounted' = 0 /\ Uncounted = 0
  BY DEF Uncounted
<1> QED
  BY <1>1, <1>2, <1>3, <1>4, <1>5 DEF CountInv

\* A frame that is acknowledged was counted, and nothing is on its way for the
\* next one.
LEMMA ReceiveAckCounts ==
    ASSUME UInv, CountInv, ReceiveAck
    PROVE  CountInv'
<1>1. /\ pc \in {"frame", "repair"} /\ Answers("ACK")
      /\ seq' = seq + 1
      /\ pc' = IF seq + 1 = Len(frames) THEN "end" ELSE "frame"
      /\ toClient' = Tail(toClient)
      /\ UNCHANGED <<frames, repairs, dictionary, delivered, counts, toServer>>
  BY DEF ReceiveAck, Acknowledged, transfer, receiver
<1>2. seq \in DOMAIN delivered /\ seq \in Nat
  <2>1. Head(toClient) \in Warranted /\ Head(toClient).t = "ACK"
        /\ Head(toClient).seq = seq
    BY <1>1, HeadAnswer DEF Answers
  <2>2. Head(toClient).seq \in DOMAIN delivered
    BY <2>1 DEF Warranted
  <2> QED
    BY <2>1, <2>2 DEF UInv, UdpTypeOK
<1>3. DOMAIN delivered = 0 .. seq
  BY <1>2 DEF UInv, StopAndWait
<1>4. seq' \notin DOMAIN delivered'
  BY <1>1, <1>2, <1>3
<1>5. Honest \subseteq Consistent'
  <2>1. ASSUME NEW n \in 0 .. seq PROVE n # seq'
    BY <1>1, <1>2
  <2> QED
    BY <2>1 DEF Honest, Consistent
<1>6. Justified \subseteq Justified'
  <2>1. ASSUME NEW n \in 0 .. seq PROVE n # seq' /\ n \in 0 .. seq'
    BY <1>1, <1>2
  <2> QED
    BY <2>1 DEF Justified
<1>7. toServer' \in Seq(Consistent')
  BY <1>1, <1>5, SeqWider DEF UInv
<1>8. toClient' \in Seq(Justified')
  <2>1. toClient # <<>>
    BY <1>1 DEF Answers, Receive
  <2>2. Tail(toClient) \in Seq(Justified)
    BY <2>1, HeadTailProperties DEF CountInv
  <2> QED
    BY <1>1, <1>6, <2>2, SeqWider
<1>9. Uncounted = 0 /\ Uncounted' = 0 /\ pc' # "repair"
  BY <1>1, <1>2 DEF Uncounted
<1>10. counts["full"] + counts["ref"] = seq'
  BY <1>1, <1>2 DEF CountInv
<1> QED
  BY <1>1, <1>4, <1>7, <1>8, <1>9, <1>10 DEF CountInv

\* A MISS the client acts upon is true and counted.
LEMMA HeadJustified ==
    ASSUME CountInv, NEW t, Receive(t)
    PROVE  Head(toClient) \in Justified /\ Tail(toClient) \in Seq(Justified)
BY HeadTailProperties DEF CountInv, Receive

\* A MISS that the client repairs has been counted.
LEMMA ReceiveMissCounts ==
    ASSUME UInv, CountInv, ReceiveMiss
    PROVE  CountInv'
<1>1. /\ pc = "frame" /\ Answers("MISS")
      /\ UNCHANGED <<frames, seq, dictionary, delivered, counts, toServer>>
  BY DEF ReceiveMiss, transfer, receiver
<1>2. CASE Close("unrepairable")
  BY <1>1, <1>2, CloseCounts DEF ReceiveMiss, Close, Ended
<1>3. CASE ~ Close("unrepairable")
  <2>1. pc' = "repair" /\ repairs' = repairs + 1 /\ toClient' = Tail(toClient)
    BY <1>3 DEF ReceiveMiss
  <2>2. Unresolved /\ counts["miss"] >= repairs + 1
    BY <1>1, HeadJustified DEF Answers, Receive, Justified
  <2>3. Tail(toClient) \in Seq(Justified)
    BY <1>1, HeadJustified DEF Answers
  <2>4. Unresolved' /\ seq' \notin DOMAIN delivered'
    BY <1>1, <2>2 DEF Unresolved
  <2>5. Consistent \subseteq Consistent'
    BY <1>1, <2>1 DEF Consistent
  <2>6. Justified \subseteq Justified'
    BY <1>1, <2>1 DEF Justified
  <2>7. toServer' \in Seq(Consistent') /\ toClient' \in Seq(Justified')
    BY <1>1, <2>1, <2>3, <2>5, <2>6, SeqWider DEF CountInv
  <2>8. Uncounted' = 1 /\ Uncounted = 0
    BY <1>1, <2>1, <2>4 DEF Uncounted
  <2>9. counts'["repair"] + Uncounted' = repairs' /\ counts'["miss"] >= repairs'
    BY <1>1, <2>1, <2>2, <2>8 DEF CountInv, UInv, UdpTypeOK, Counters
  <2>10. counts'["full"] + counts'["ref"]
           = IF seq' \in DOMAIN delivered' THEN seq' + 1 ELSE seq'
    BY <1>1 DEF CountInv
  <2> QED
    BY <2>4, <2>7, <2>9, <2>10 DEF CountInv
<1> QED
  BY <1>2, <1>3

\* What a frame the server has not delivered yet says of the client's.
LEMMA NewFrame ==
    ASSUME UInv, CountInv, NEW m \in Oldest, m.t = "FRAME",
           m.seq \notin DOMAIN delivered
    PROVE  /\ m.seq = seq /\ seq \in Nat /\ seq \notin DOMAIN delivered
           /\ pc \notin {"end", "done"}
           /\ m.chunk = frames[seq + 1].chunk
           /\ pc \in {"frame", "repair"} =>
                IF m.repair THEN pc = "repair" /\ m.kind = "FULL"
                            ELSE m.kind = frames[seq + 1].kind
           /\ pc = "repair" => Unresolved
<1>1. /\ m.seq = seq /\ m.seq \in 0 .. Len(frames) - 1 /\ m.seq \in Nat
      /\ m.chunk = input[m.seq + 1]
  BY FrameHandled
<1>2. Len(frames) \in Nat /\ Len(frames) = Len(input)
  BY LenProperties DEF UInv, UdpTypeOK, FramesCoverInput
<1>3. seq + 1 \in 1 .. Len(input) /\ seq # Len(frames)
  BY <1>1, <1>2
<1>4. m \in Consistent
  BY HeadTailProperties DEF Oldest, CountInv
<1> QED
  BY <1>1, <1>3, <1>4 DEF Consistent, CountInv, UInv, FramesCoverInput

\* The receiver's answer joins the queue.
LEMMA ReplyJustified ==
    ASSUME CountInv, Justified \subseteq Justified', NEW r \in Justified',
           Reply(r)
    PROVE  toClient' \in Seq(Justified')
<1>1. toClient \in Seq(Justified')
  BY SeqWider DEF CountInv
<1> QED
  BY <1>1, ReplyWarranted

\* A frame that is delivered is counted once, and a repair only if the client
\* was after it.
LEMMA AcceptCounts ==
    ASSUME UInv, CountInv, NEW m \in Oldest, AcceptFull(m) \/ AcceptRef(m)
    PROVE  CountInv'
<1>1. /\ m.t = "FRAME" /\ m.seq \notin DOMAIN delivered
      /\ DOMAIN delivered' = DOMAIN delivered \cup {m.seq}
      /\ Reply([t |-> "ACK", seq |-> m.seq])
      /\ toServer' = Tail(toServer)
      /\ UNCHANGED <<frames, pc, seq, repairs>>
  BY DEF AcceptFull, AcceptRef, NotDelivered, Handling, Handled, Deliver,
         transfer, client
<1>2. /\ m.seq = seq /\ seq \in Nat /\ seq \notin DOMAIN delivered
      /\ pc \notin {"end", "done"} /\ m.chunk = frames[seq + 1].chunk
      /\ pc \in {"frame", "repair"} =>
           IF m.repair THEN pc = "repair" /\ m.kind = "FULL"
                       ELSE m.kind = frames[seq + 1].kind
      /\ pc = "repair" => Unresolved
  BY <1>1, NewFrame
<1>3. Holds(dictionary, m) => Holds(dictionary, frames[seq + 1])
  BY <1>2 DEF Holds
<1>4. seq' \in DOMAIN delivered' /\ Uncounted' = 0
  BY <1>1, <1>2 DEF Uncounted
<1>5. /\ AcceptFull(m) => m.kind = "FULL"
                          /\ Count(IF m.repair THEN {"full", "repair"} ELSE {"full"})
      /\ AcceptRef(m) => m.kind = "REF" /\ Count({"ref"}) /\ Holds(dictionary, m)
  BY DEF AcceptFull, AcceptRef
<1>6. pc = "frame" => ~ Unresolved
  BY <1>2, <1>3, <1>5 DEF Unresolved
<1>7. pc = "repair" => AcceptFull(m) /\ m.repair
  BY <1>2, <1>3, <1>5 DEF Unresolved
<1>8. /\ counts["full"] + counts["ref"] = seq /\ counts["miss"] >= repairs
      /\ pc = "repair" => counts["repair"] + 1 = repairs
      /\ pc = "frame" => counts["repair"] = repairs
      /\ counts \in [Counters -> Nat]
  <2>1. (pc = "repair" => Uncounted = 1) /\ (pc = "frame" => Uncounted = 0)
    BY <1>2 DEF Uncounted
  <2>2. counts \in [Counters -> Nat] /\ counts["repair"] \in Nat
    BY DEF UInv, UdpTypeOK, Counters
  <2> QED
    BY <1>2, <2>1, <2>2 DEF CountInv
<1>9. counts'["full"] + counts'["ref"] = seq + 1 /\ counts'["miss"] = counts["miss"]
  <2>1. CASE AcceptFull(m)
    BY <1>2, <1>5, <1>8, <2>1 DEF Count, Counters
  <2>2. CASE AcceptRef(m)
    BY <1>2, <1>5, <1>8, <2>2 DEF Count, Counters
  <2> QED
    BY <2>1, <2>2
<1>10. pc \in {"frame", "repair", "end", "done"} => counts'["repair"] = repairs
  <2>1. CASE pc = "repair"
    BY <1>5, <1>7, <1>8, <2>1 DEF Count, Counters
  <2>2. CASE pc = "frame"
    <3>1. ~ m.repair
      BY <1>2, <2>2
    <3> QED
      BY <1>5, <1>8, <2>2, <3>1 DEF Count, Counters
  <2> QED
    BY <1>2, <2>1, <2>2
<1>11. Consistent' = Consistent
  BY <1>1 DEF Consistent
<1>12. toServer' \in Seq(Consistent')
  BY <1>1, <1>11, HeadTailProperties DEF CountInv, Oldest
<1>13. Justified \subseteq Justified'
  BY <1>1, <1>6 DEF Justified
<1>14. toClient' \in Seq(Justified')
  <2>1. [t |-> "ACK", seq |-> m.seq] \in Justified'
    BY <1>2 DEF Justified, Answer
  <2> QED
    BY <1>1, <1>13, <2>1, ReplyJustified
<1>15. counts'["repair"] \in Nat
  BY <1>5, <1>8 DEF Count, Counters
<1> QED
  BY <1>1, <1>2, <1>4, <1>8, <1>9, <1>10, <1>12, <1>14, <1>15 DEF CountInv

\* A MISS is counted before it is sent.
LEMMA MissCounts ==
    ASSUME UInv, CountInv, NEW m \in Oldest, MissRef(m)
    PROVE  CountInv'
<1>1. /\ m.t = "FRAME" /\ m.seq \notin DOMAIN delivered /\ m.kind = "REF"
      /\ ~ Holds(dictionary, m) /\ Count({"miss"})
      /\ Reply([t |-> "MISS", seq |-> m.seq])
      /\ toServer' = Tail(toServer)
      /\ UNCHANGED <<frames, pc, seq, repairs, dictionary, delivered>>
  BY DEF MissRef, ReplyMiss, NotDelivered, Handling, Handled, transfer, client
<1>2. /\ m.seq = seq /\ seq \in Nat /\ seq \notin DOMAIN delivered
      /\ m.chunk = frames[seq + 1].chunk
      /\ pc = "frame" => m.kind = frames[seq + 1].kind
  BY <1>1, NewFrame
<1>3. pc = "frame" => Unresolved
  BY <1>1, <1>2 DEF Unresolved, Holds
<1>4. Unresolved' = Unresolved /\ Uncounted' = Uncounted /\ Consistent' = Consistent
  BY <1>1 DEF Unresolved, Uncounted, Consistent
<1>5. /\ counts'["miss"] = counts["miss"] + 1
      /\ counts'["full"] = counts["full"] /\ counts'["ref"] = counts["ref"]
      /\ counts'["repair"] = counts["repair"]
      /\ counts["miss"] \in Nat /\ repairs \in Nat
  BY <1>1 DEF Count, Counters, UInv, UdpTypeOK
<1>6. counts'["miss"] >= repairs + 1 /\ counts["miss"] >= repairs
  BY <1>5 DEF CountInv
<1>7. Justified \subseteq Justified'
  BY <1>1, <1>4, <1>6 DEF Justified
<1>8. [t |-> "MISS", seq |-> m.seq] \in Justified'
  BY <1>1, <1>2, <1>3, <1>4, <1>6 DEF Justified, Answer
<1>9. toClient' \in Seq(Justified')
  BY <1>1, <1>7, <1>8, ReplyJustified
<1>10. toServer' \in Seq(Consistent')
  BY <1>1, <1>4, HeadTailProperties DEF CountInv, Oldest
<1>11. counts'["miss"] >= repairs
  BY <1>5, <1>6
<1> QED
  BY <1>1, <1>4, <1>5, <1>9, <1>10, <1>11 DEF CountInv

\* The other steps of the server and the network only move datagrams.
LEMMA ServeQuietCounts ==
    ASSUME UInv, CountInv, NEW m \in Oldest,
           AckAgain(m) \/ DropDatagram(m) \/ ServeEnd(m)
    PROVE  CountInv'
<1>1. /\ UNCHANGED <<frames, pc, seq, repairs, dictionary, delivered, counts>>
      /\ toServer' = Tail(toServer) \/ toServer' = <<>>
  BY DEF AckAgain, DropDatagram, ServeEnd, Handled, transfer, client
<1>2. toServer' \in Seq(Consistent)
  BY <1>1, HeadTailProperties, EmptySeq DEF CountInv, Oldest
<1>3. toClient' \in Seq(Justified)
  <2>1. toClient \in Seq(Justified)
    BY DEF CountInv
  <2>2. CASE AckAgain(m)
    <3>1. m.seq \in Nat
      BY <2>2, FrameHandled DEF AckAgain, Handling
    <3>2. [t |-> "ACK", seq |-> m.seq] \in Justified
      BY <3>1 DEF Justified, Answer
    <3> QED
      BY <2>1, <2>2, <3>2, ReplyWarranted DEF AckAgain
  <2>3. CASE DropDatagram(m)
    BY <2>1, <2>3 DEF DropDatagram
  <2>4. CASE ServeEnd(m)
    <3>1. [t |-> "STATS", ok |-> input \in Output] \in Justified
      BY DEF Justified, Answer
    <3> QED
      BY <2>1, <2>4, <3>1, ReplyWarranted DEF ServeEnd
  <2> QED
    BY <2>2, <2>3, <2>4
<1> QED
  BY <1>1, <1>2, <1>3, QuietCounts

\* The other steps of the client and the network leave the counts alone.
LEMMA CarryCounts ==
    ASSUME UInv, CountInv,
           \/ Transmit \/ Timeout \/ ReceiveStale \/ LoseDatagram
           \/ ServerTimeout \/ UNCHANGED udpVars
    PROVE  CountInv'
<1>1. UNCHANGED <<frames, pc, seq, repairs, dictionary, delivered, counts>>
  BY DEF Transmit, Timeout, ReceiveStale, LoseDatagram, ServerTimeout, udpVars,
         transfer, client, receiver
<1>2. toServer \in Seq(Consistent) /\ toClient \in Seq(Justified)
  BY DEF CountInv
<1>3. toServer' \in Seq(Consistent)
  <2>1. CASE Transmit
    <3>1. Message \in Consistent
      BY <2>1, MessageConsistent DEF Transmit
    <3> QED
      BY <1>2, <2>1, <3>1, AppendProperties DEF Transmit
  <2>2. CASE LoseDatagram
    BY <1>2, <2>2, RemoveAtType DEF LoseDatagram
  <2> QED
    BY <1>2, <2>1, <2>2 DEF Timeout, ReceiveStale, ServerTimeout, udpVars
<1>4. toClient' \in Seq(Justified)
  <2>1. CASE ReceiveStale
    BY <1>2, <2>1, HeadTailProperties DEF ReceiveStale, Discard
  <2>2. CASE LoseDatagram
    BY <1>2, <2>2, RemoveAtType DEF LoseDatagram
  <2> QED
    BY <1>2, <2>1, <2>2 DEF Transmit, Timeout, ServerTimeout, udpVars
<1> QED
  BY <1>1, <1>3, <1>4, QuietCounts

\* Every step keeps the counters in step.
LEMMA CountNextInvariant ==
    ASSUME UInv, CountInv, [UdpNext]_udpVars
    PROVE  CountInv'
<1>1. CASE GiveUp \/ ReceiveMissForRepair \/ ReceiveStats
  BY <1>1, CloseCounts
  DEF GiveUp, ReceiveMissForRepair, ReceiveStats, Ended, transfer, receiver
<1>2. CASE ReceiveAck
  BY <1>2, ReceiveAckCounts
<1>3. CASE ReceiveMiss
  BY <1>3, ReceiveMissCounts
<1>4. CASE ServerStep
  BY <1>4, AcceptCounts, MissCounts, ServeQuietCounts DEF ServerStep, HandleFrame
<1>5. CASE \/ Transmit \/ Timeout \/ ReceiveStale \/ LoseDatagram
           \/ ServerTimeout \/ UNCHANGED udpVars
  BY <1>5, CarryCounts
<1> QED
  BY <1>1, <1>2, <1>3, <1>4, <1>5 DEF UdpNext, ClientStep

\* The counters of the two ends stay in step.
THEOREM CountInvariant == UdpSpec => [](UInv /\ CountInv)
BY UdpInvariant, CountInitInvariant, CountNextInvariant, PTL DEF UdpSpec

\* At STATS the counts of the two ends agree, however often a frame, a repair
\* or a MISS was sent.
THEOREM CountsAgreeAtStats == UdpSpec => []CountsMatch
<1>1. UInv /\ CountInv => CountsMatch
  <2> SUFFICES ASSUME UInv, CountInv, pc = "done" PROVE CountsMatch
    BY DEF CountsMatch
  <2>1. seq = Len(frames) /\ Uncounted = 0
    BY DEF UInv, Uncounted
  <2>2. seq \notin DOMAIN delivered
    <3>1. Len(frames) \in Nat
      BY LenProperties DEF UInv, UdpTypeOK
    <3>2. seq \notin 0 .. Len(frames) - 1
      BY <2>1, <3>1
    <3> QED
      BY <3>2 DEF UInv, UdpTypeOK
  <2>3. counts["repair"] \in Nat
    BY DEF UInv, UdpTypeOK, Counters
  <2> QED
    BY <2>1, <2>2, <2>3 DEF CountInv, CountsMatch
<1> QED
  BY <1>1, CountInvariant, PTL

-----------------------------------------------------------------------------
(* What the receiver holds.                                                *)

\* A REF of the sender stands for a chunk of its warm dictionary or one that
\* it has sent before.
FramesRefer ==
    \A i \in 1 .. Len(input) :
        frames[i].kind = "REF" =>
            \/ CidOf[input[i]] \in Keys(warm)
            \/ \E j \in 1 .. i - 1 : CidOf[input[j]] = CidOf[input[i]]

\* As long as there is room, whatever was delivered is still held.
HoldsDelivered ==
    Len(dictionary) < MaxDictChunks =>
        \A q \in DOMAIN delivered : CidOf[delivered[q]] \in Keys(dictionary)

HoldInv ==
    /\ FramesRefer
    /\ HoldsDelivered
    /\ pc = "unrepairable" => Len(dictionary) = MaxDictChunks

\* A transfer starts with nothing delivered and nothing evicted.
LEMMA HoldInitInvariant ==
    ASSUME UdpInit
    PROVE  HoldInv
<1>1. input \in Seq(Chunks) /\ frames = Encoded(input, warm)
  BY InputsAssumption DEF UdpInit
<1>2. SoundDictionary(warm, MaxDictChunks)
  BY CapacityAssumption, WarmSound DEF UdpInit
<1>3. FramesRefer
  BY <1>1, <1>2, EncodedRefers DEF FramesRefer
<1>4. delivered = <<>> /\ pc # "unrepairable"
  BY DEF UdpInit
<1>5. DOMAIN delivered = {}
  BY <1>4
<1> QED
  BY <1>3, <1>4, <1>5 DEF HoldInv, HoldsDelivered

\* Steps that leave the receiver's dictionary and what it delivered alone.
LEMMA QuietHolds ==
    ASSUME HoldInv, UNCHANGED <<input, warm, frames, dictionary, delivered>>,
           pc' = pc \/ pc' # "unrepairable"
    PROVE  HoldInv'
BY DEF HoldInv, FramesRefer, HoldsDelivered

\* What the receiver delivers it has in its dictionary, and it forgets nothing
\* while there is room.
LEMMA AcceptHolds ==
    ASSUME UInv, HoldInv, NEW m \in Oldest, AcceptFull(m) \/ AcceptRef(m)
    PROVE  HoldInv'
<1>1. /\ m.t = "FRAME" /\ m.seq \notin DOMAIN delivered
      /\ UNCHANGED <<input, warm, frames, pc>>
      /\ SoundDictionary(dictionary, MaxDictChunks)
  BY DEF AcceptFull, AcceptRef, NotDelivered, Handling, Handled, transfer, client,
         UInv
<1>2. m.chunk \in Chunks
  BY <1>1, FrameHandled
<1>3. /\ Deliver(m, m.chunk) /\ CidOf[m.chunk] \in Keys(dictionary')
      /\ Len(dictionary) <= Len(dictionary')
      /\ Len(dictionary') < MaxDictChunks => Keys(dictionary) \subseteq Keys(dictionary')
      /\ Len(dictionary') <= MaxDictChunks
  <2>1. CASE AcceptFull(m)
    <3>1. dictionary' = Touched(dictionary, m.chunk) /\ Deliver(m, m.chunk)
      BY <2>1 DEF AcceptFull, Cache
    <3> QED
      BY <1>1, <1>2, <3>1, TouchedSound, TouchedRoomy DEF SoundDictionary
  <2>2. CASE AcceptRef(m)
    <3>1. /\ Holds(dictionary, m) /\ dictionary' = dictionary
          /\ Deliver(m, Lookup(dictionary, CidOf[m.chunk]))
      BY <2>2 DEF AcceptRef
    <3>2. Lookup(dictionary, CidOf[m.chunk]) = m.chunk
      BY <1>1, <1>2, <3>1, HoldsIsRight DEF SoundDictionary
    <3>3. Len(dictionary) \in Nat
      BY <1>1, LenProperties DEF SoundDictionary
    <3> QED
      BY <1>1, <3>1, <3>2, <3>3 DEF Holds, SoundDictionary
  <2> QED
    BY <2>1, <2>2
<1>4. /\ DOMAIN delivered' = DOMAIN delivered \cup {m.seq}
      /\ delivered'[m.seq] = m.chunk
      /\ \A q \in DOMAIN delivered : delivered'[q] = delivered[q]
  BY <1>1, <1>3 DEF Deliver
<1>5. Len(dictionary) \in Nat /\ Len(dictionary') \in Nat /\ MaxDictChunks \in Nat
  <2>1. dictionary' \in Seq(Entries)
    <3>1. SoundDictionary(dictionary', MaxDictChunks)
      BY <1>1, <1>2, TouchedSound DEF AcceptFull, AcceptRef, Cache
    <3> QED
      BY <3>1 DEF SoundDictionary
  <2> QED
    BY <1>1, <2>1, LenProperties, CapacityAssumption DEF SoundDictionary
<1>6. HoldsDelivered'
  <2> SUFFICES ASSUME Len(dictionary') < MaxDictChunks, NEW q \in DOMAIN delivered'
               PROVE  CidOf[delivered'[q]] \in Keys(dictionary')
    BY DEF HoldsDelivered
  <2>1. Len(dictionary) < MaxDictChunks
    BY <1>3, <1>5
  <2>2. CASE q = m.seq
    BY <1>3, <1>4, <2>2
  <2>3. CASE q # m.seq
    BY <1>3, <1>4, <2>1, <2>3 DEF HoldInv, HoldsDelivered
  <2> QED
    BY <2>2, <2>3
<1>7. FramesRefer'
  BY <1>1 DEF FramesRefer, HoldInv
<1>8. pc' = "unrepairable" => Len(dictionary') = MaxDictChunks
  BY <1>1, <1>3, <1>5 DEF HoldInv
<1> QED
  BY <1>6, <1>7, <1>8 DEF HoldInv

\* A miss that cannot be repaired from the warm dictionary is one for a chunk
\* that was delivered before, so the receiver has evicted it.
LEMMA ReceiveMissHolds ==
    ASSUME UInv, CountInv, HoldInv, ReceiveMiss
    PROVE  HoldInv'
<1>1. /\ pc = "frame" /\ Answers("MISS")
      /\ UNCHANGED <<input, warm, frames, dictionary, delivered>>
  BY DEF ReceiveMiss, transfer, receiver
<1>2. CASE CidOf[frames[seq + 1].chunk] \in Keys(warm)
  <2>1. pc' = "repair"
    BY <1>2 DEF ReceiveMiss
  <2> QED
    BY <1>1, <2>1, QuietHolds
<1>3. CASE CidOf[frames[seq + 1].chunk] \notin Keys(warm)
  <2> DEFINE i == seq + 1
             c == input[i]
  <2>1. /\ Len(frames) \in Nat /\ Len(frames) = Len(input)
        /\ seq \in Nat /\ seq < Len(frames) /\ input \in Seq(Chunks)
    BY <1>1, LenProperties, InputsAssumption DEF UInv, UdpTypeOK, FramesCoverInput
  <2>2. i \in 1 .. Len(input) /\ frames[i].chunk = c /\ c \in Chunks
    <3>1. i \in 1 .. Len(input)
      BY <2>1
    <3> QED
      BY <2>1, <3>1, ElementOfSeq DEF UInv, FramesCoverInput
  <2>3. Unresolved
    BY <1>1, HeadJustified DEF Answers, Receive, Justified
  <2>4. PICK j \in 1 .. i - 1 : CidOf[input[j]] = CidOf[c]
    BY <1>3, <2>2, <2>3 DEF Unresolved, HoldInv, FramesRefer
  <2>5. j - 1 \in DOMAIN delivered /\ (j - 1) + 1 = j
    BY <2>1, <2>4 DEF UInv, StopAndWait
  <2>6. CidOf[delivered[j - 1]] = CidOf[c]
    BY <2>4, <2>5 DEF UInv, DeliveredRight
  <2>7. ASSUME CidOf[c] \in Keys(dictionary) PROVE FALSE
    <3>1. /\ dictionary \in Seq(Entries) /\ Authentic(dictionary)
      BY DEF UInv, SoundDictionary
    <3>2. /\ Lookup(dictionary, CidOf[c]) \in Chunks
          /\ CidOf[Lookup(dictionary, CidOf[c])] = CidOf[c]
      BY <2>7, <3>1, LookupFinds
    <3>3. Lookup(dictionary, CidOf[c]) = c
      BY <2>2, <3>2, CidAssumption DEF IsInjective
    <3> QED
      BY <2>2, <2>3, <2>7, <3>3 DEF Unresolved, Holds
  <2>8. ~ (Len(dictionary) < MaxDictChunks)
    BY <2>5, <2>6, <2>7 DEF HoldInv, HoldsDelivered
  <2>9. Len(dictionary) = MaxDictChunks
    BY <2>8, LenProperties, CapacityAssumption DEF UInv, SoundDictionary
  <2> QED
    BY <1>1, <2>9 DEF HoldInv, FramesRefer, HoldsDelivered
<1> QED
  BY <1>2, <1>3

\* Every step keeps what is said of the dictionary.
LEMMA HoldNextInvariant ==
    ASSUME UInv, CountInv, HoldInv, [UdpNext]_udpVars
    PROVE  HoldInv'
<1>1. CASE \/ Transmit \/ Timeout \/ ReceiveStale \/ LoseDatagram
           \/ ServerTimeout \/ UNCHANGED udpVars
  <2>1. UNCHANGED <<input, warm, frames, pc, dictionary, delivered>>
    BY <1>1 DEF Transmit, Timeout, ReceiveStale, LoseDatagram, ServerTimeout,
                udpVars, transfer, client, receiver
  <2> QED
    BY <2>1, QuietHolds
<1>2. CASE GiveUp \/ ReceiveMissForRepair \/ ReceiveStats \/ ReceiveAck
  <2>1. /\ UNCHANGED <<input, warm, frames, dictionary, delivered>>
        /\ pc' # "unrepairable"
    BY <1>2 DEF GiveUp, ReceiveMissForRepair, ReceiveStats, ReceiveAck, Close,
                transfer, receiver
  <2> QED
    BY <2>1, QuietHolds
<1>3. CASE ReceiveMiss
  BY <1>3, ReceiveMissHolds
<1>4. CASE ServerStep
  <2>1. PICK m \in Oldest : DropDatagram(m) \/ HandleFrame(m) \/ ServeEnd(m)
    BY <1>4 DEF ServerStep
  <2>2. CASE AcceptFull(m) \/ AcceptRef(m)
    BY <2>2, AcceptHolds
  <2>3. CASE DropDatagram(m) \/ AckAgain(m) \/ MissRef(m) \/ ServeEnd(m)
    <3>1. UNCHANGED <<input, warm, frames, pc, dictionary, delivered>>
      BY <2>3 DEF DropDatagram, AckAgain, MissRef, ServeEnd, Handled, transfer,
                  client
    <3> QED
      BY <3>1, QuietHolds
  <2> QED
    BY <2>1, <2>2, <2>3 DEF HandleFrame
<1> QED
  BY <1>1, <1>2, <1>3, <1>4 DEF UdpNext, ClientStep

-----------------------------------------------------------------------------
(* Faults pay for attempts.                                                *)

\* All members of s but the first n belong to S.
After(s, n, S) == \A i \in 1 .. Len(s) : i > n => s[i] \in S

\* What the client is waiting for, and what makes the server send it.
Expected ==
    {r \in Answer : IF pc = "end" THEN r.t = "STATS"
                    ELSE r.t \in {"ACK", "MISS"} /\ r.seq = seq}

Current ==
    {m \in Datagrams : IF pc = "end" THEN m.t = "END"
                       ELSE m.t = "FRAME" /\ m.seq = seq}

\* The client waits in vain.
Vain == IF waiting /\ toServer = <<>> /\ toClient = <<>> THEN 1 ELSE 0

\* Faults that have not cost an attempt yet.
Spare == faults - attempts - Vain

\* No more datagrams can be stale than there are spare faults, and these are
\* the oldest: the answers, then what is still to be answered.
Fresh ==
    /\ After(toClient, Spare, Expected)
    /\ After(toServer, Spare - Len(toClient), Current)

\* Beyond the one exchange that is waited for, every datagram under way is
\* paid for by a fault.
Surplus ==
    Len(toServer) + Len(toClient) <= faults + (IF waiting THEN 1 ELSE 0)

Frames == {m \in Datagrams : m.t = "FRAME"}

\* Repairs are FULL frames, and they are never missed.
Fulls == {m \in Datagrams : m.t = "FRAME" /\ m.kind = "FULL"}

NoMisses == {r \in Answer : r.t # "MISS"}

FaultInv ==
    /\ pc \in {"frame", "repair"} => server = "up" /\ toServer \in Seq(Frames)
    /\ server = "timedOut" => pc \in Ended
    /\ server = "up" /\ pc \notin Ended => Spare >= 0 /\ Fresh /\ Surplus
    /\ pc = "repair" /\ faults = 0 =>
          toServer \in Seq(Fulls) /\ toClient \in Seq(NoMisses)
    /\ pc = "gaveUp" => faults > MaxRetries \/ server = "served"
    /\ pc = "notAcked" => faults > 0

\* A new member is the last.
LEMMA AfterAppend ==
    ASSUME NEW T, NEW s \in Seq(T), NEW e \in T, NEW n \in Int, NEW S,
           After(s, n, S), e \in S \/ Len(s) + 1 <= n
    PROVE  After(Append(s, e), n, S)
<1>1. PICK k : k = Len(s) /\ k \in Nat
  BY LenProperties
<1>2. /\ Len(Append(s, e)) = k + 1
      /\ \A i \in 1 .. k : Append(s, e)[i] = s[i]
      /\ Append(s, e)[k + 1] = e
  BY <1>1, Appended
<1>3. ASSUME NEW i \in 1 .. k + 1, i > n PROVE Append(s, e)[i] \in S
  <2>1. CASE i = k + 1
    BY <1>1, <1>2, <1>3, <2>1
  <2>2. CASE i # k + 1
    <3>1. i \in 1 .. k
      BY <1>1, <2>2
    <3> QED
      BY <1>1, <1>2, <1>3, <3>1 DEF After
  <2> QED
    BY <2>1, <2>2
<1> QED
  BY <1>2, <1>3 DEF After

\* The members of a queue without its oldest.
LEMMA TailShape ==
    ASSUME NEW T, NEW s \in Seq(T), s # <<>>
    PROVE  /\ Len(s) \in Nat \ {0} /\ Len(Tail(s)) = Len(s) - 1
           /\ Tail(s) \in Seq(T) /\ Head(s) = s[1]
           /\ \A i \in 1 .. Len(s) - 1 : Tail(s)[i] = s[i + 1]
BY HeadTailProperties, LenProperties, EmptySeq

\* Taking the oldest member out moves the others up by one.
LEMMA AfterTail ==
    ASSUME NEW T, NEW s \in Seq(T), s # <<>>, NEW n \in Int, NEW S,
           After(s, n, S)
    PROVE  After(Tail(s), n - 1, S)
<1>1. PICK k : k = Len(s) /\ k \in Nat \ {0}
  BY TailShape
<1>2. Len(Tail(s)) = k - 1 /\ \A i \in 1 .. k - 1 : Tail(s)[i] = s[i + 1]
  BY <1>1, TailShape
<1>3. ASSUME NEW i \in 1 .. k - 1, i > n - 1 PROVE Tail(s)[i] \in S
  <2>1. i + 1 \in 1 .. k /\ i + 1 > n
    BY <1>1, <1>3
  <2> QED
    BY <1>1, <1>2, <2>1 DEF After
<1> QED
  BY <1>2, <1>3 DEF After

\* The members of a queue without one of them.
LEMMA RemoveAtShape ==
    ASSUME NEW T, NEW s \in Seq(T), NEW p \in DOMAIN s
    PROVE  /\ Len(s) \in Nat /\ Len(RemoveAt(s, p)) = Len(s) - 1
           /\ \A i \in 1 .. Len(s) - 1 :
                RemoveAt(s, p)[i] = s[i] \/ RemoveAt(s, p)[i] = s[i + 1]
<1>1. PICK k : k = Len(s) /\ k \in Nat /\ DOMAIN s = 1 .. k
  BY LenProperties
<1>2. p \in 1 .. k /\ \A i \in 1 .. k : s[i] \in T
  BY <1>1, ElementOfSeq
<1> DEFINE a == SubSeq(s, 1, p - 1)
           b == SubSeq(s, p + 1, k)
<1>3. a \in Seq(T) /\ Len(a) = p - 1 /\ \A i \in 1 .. p - 1 : a[i] = s[i]
  <2>1. 1 \in Int /\ p - 1 \in Int /\ \A i \in 1 .. p - 1 : s[i] \in T
    BY <1>2
  <2>2. /\ a \in Seq(T)
        /\ Len(a) = IF 1 <= p - 1 THEN (p - 1) - 1 + 1 ELSE 0
        /\ \A i \in 1 .. (p - 1) - 1 + 1 : a[i] = s[1 + i - 1]
    BY <2>1, SubSeqProperties
  <2> QED
    BY <1>2, <2>2
<1>4. b \in Seq(T) /\ Len(b) = k - p /\ \A i \in 1 .. k - p : b[i] = s[p + i]
  <2>1. p + 1 \in Int /\ k \in Int /\ \A i \in p + 1 .. k : s[i] \in T
    BY <1>1, <1>2
  <2>2. /\ b \in Seq(T)
        /\ Len(b) = IF p + 1 <= k THEN k - (p + 1) + 1 ELSE 0
        /\ \A i \in 1 .. k - (p + 1) + 1 : b[i] = s[p + 1 + i - 1]
    BY <2>1, SubSeqProperties
  <2> QED
    BY <1>1, <1>2, <2>2
<1>5. RemoveAt(s, p) = a \o b
  BY <1>1 DEF RemoveAt
<1> HIDE DEF a, b
<1>6. /\ Len(a \o b) = k - 1
      /\ \A i \in 1 .. k - 1 : (a \o b)[i] = IF i <= p - 1 THEN a[i] ELSE b[i - (p - 1)]
  <2>1. /\ Len(a \o b) = Len(a) + Len(b)
        /\ \A i \in 1 .. Len(a) + Len(b) :
              (a \o b)[i] = IF i <= Len(a) THEN a[i] ELSE b[i - Len(a)]
    BY <1>3, <1>4, ConcatProperties
  <2>2. (p - 1) + (k - p) = k - 1
    BY <1>1, <1>2
  <2> QED
    BY <1>3, <1>4, <2>1, <2>2
<1>7. ASSUME NEW i \in 1 .. k - 1
      PROVE  (a \o b)[i] = s[i] \/ (a \o b)[i] = s[i + 1]
  <2>1. CASE i <= p - 1
    <3>1. i \in 1 .. p - 1
      BY <1>2, <2>1
    <3> QED
      BY <1>3, <1>6, <2>1, <3>1
  <2>2. CASE ~ (i <= p - 1)
    <3>1. i - (p - 1) \in 1 .. k - p /\ p + (i - (p - 1)) = i + 1
      BY <1>1, <1>2, <2>2
    <3> QED
      BY <1>4, <1>6, <2>2, <3>1
  <2> QED
    BY <2>1, <2>2
<1> QED
  BY <1>1, <1>5, <1>6, <1>7

\* A member that is lost moves none of the others back.
LEMMA AfterRemove ==
    ASSUME NEW T, NEW s \in Seq(T), NEW p \in DOMAIN s, NEW n \in Int, NEW S,
           After(s, n, S)
    PROVE  After(RemoveAt(s, p), n, S)
<1>1. PICK k : k = Len(s) /\ k \in Nat
  BY LenProperties
<1>2. /\ Len(RemoveAt(s, p)) = k - 1
      /\ \A i \in 1 .. k - 1 :
            RemoveAt(s, p)[i] = s[i] \/ RemoveAt(s, p)[i] = s[i + 1]
  BY <1>1, RemoveAtShape
<1>3. ASSUME NEW i \in 1 .. k - 1, i > n PROVE RemoveAt(s, p)[i] \in S
  <2>1. i \in 1 .. k /\ i + 1 \in 1 .. k /\ i + 1 > n
    BY <1>1, <1>3
  <2>2. s[i] \in S /\ s[i + 1] \in S
    BY <1>1, <1>3, <2>1 DEF After
  <2> QED
    BY <1>2, <2>2
<1> QED
  BY <1>2, <1>3 DEF After

\* What holds after n members holds after more.
LEMMA AfterMore ==
    ASSUME NEW T, NEW s \in Seq(T), NEW n \in Int, NEW k \in Int, n <= k, NEW S,
           After(s, n, S)
    PROVE  After(s, k, S)
BY LenProperties DEF After

\* Nothing is said of a queue that has no more than n members.
LEMMA AfterAll ==
    ASSUME NEW T, NEW s \in Seq(T), NEW n \in Int, Len(s) <= n, NEW S
    PROVE  After(s, n, S)
BY LenProperties DEF After

\* The numbers the argument is about.
LEMMA FaultTypes ==
    ASSUME UInv
    PROVE  /\ toServer \in Seq(Datagrams) /\ toClient \in Seq(Answer)
           /\ Len(toServer) \in Nat /\ Len(toClient) \in Nat
           /\ faults \in Nat /\ attempts \in Nat /\ seq \in Nat
           /\ Vain \in {0, 1} /\ Spare \in Int
           /\ toServer # <<>> \/ toClient # <<>> \/ ~ waiting => Vain = 0
           /\ toServer = <<>> /\ toClient = <<>> /\ waiting => Vain = 1
           /\ MaxRetries \in Nat
<1>1. /\ toServer \in Seq(Datagrams) /\ toClient \in Seq(Answer)
      /\ faults \in Nat /\ attempts \in Nat /\ seq \in Nat
  BY UdpAssumption DEF UInv, UdpTypeOK
<1>2. /\ Vain \in {0, 1}
      /\ toServer # <<>> \/ toClient # <<>> \/ ~ waiting => Vain = 0
      /\ toServer = <<>> /\ toClient = <<>> /\ waiting => Vain = 1
  BY DEF Vain
<1>3. Spare \in Int
  BY <1>1, <1>2 DEF Spare
<1> QED
  BY <1>1, <1>2, <1>3, LenProperties, UdpAssumption

\* Without faults nothing is under way but the one exchange.
LEMMA FaultInitInvariant ==
    ASSUME UdpInit
    PROVE  FaultInv
<1>1. /\ toServer = <<>> /\ toClient = <<>> /\ ~ waiting /\ attempts = 0
      /\ faults = 0 /\ server = "up" /\ pc \in {"frame", "end"}
  BY DEF UdpInit
<1>2. UInv
  BY UdpInitInvariant
<1>3. Spare = 0 /\ Len(toServer) = 0 /\ Len(toClient) = 0
  BY <1>1, <1>2, FaultTypes, EmptySeq DEF Spare
<1>4. Fresh
  <2>1. After(toClient, 0, Expected) /\ After(toServer, 0, Current)
    <3>1. /\ toClient \in Seq(Answer) /\ toServer \in Seq(Datagrams) /\ 0 \in Int
          /\ Len(toClient) <= 0 /\ Len(toServer) <= 0
      BY <1>2, <1>3, FaultTypes
    <3> QED
      BY <3>1, AfterAll
  <2>2. Spare - Len(toClient) = 0
    BY <1>3
  <2> QED
    BY <1>3, <2>1, <2>2 DEF Fresh
<1>5. Surplus
  BY <1>1, <1>3 DEF Surplus
<1>6. toServer \in Seq(Frames) /\ pc # "repair" /\ pc \notin {"gaveUp", "notAcked"}
  BY <1>1, EmptySeq
<1> QED
  BY <1>1, <1>3, <1>4, <1>5, <1>6 DEF FaultInv

\* Once the client has ended, only the cause of the end is left to say.
LEMMA EndedFaults ==
    ASSUME pc' \in Ended,
           pc' = "gaveUp" => faults' > MaxRetries \/ server' = "served",
           pc' = "notAcked" => faults' > 0
    PROVE  FaultInv'
BY DEF FaultInv, Ended

\* The cause of the end does not go away.
LEMMA StaysEndedFaults ==
    ASSUME UInv, FaultInv, pc \in Ended, pc' = pc,
           faults' = faults \/ faults' = faults + 1,
           server' = server \/ server' \in {"served", "timedOut"},
           server = "served" => server' = "served"
    PROVE  FaultInv'
<1>1. faults \in Nat /\ MaxRetries \in Nat
  BY FaultTypes
<1> QED
  BY <1>1, EndedFaults DEF FaultInv

\* The server answers whatever is on its way as long as the client runs.
LEMMA UpFaults ==
    ASSUME UInv, FaultInv, pc \notin Ended
    PROVE  /\ server \in {"up", "served"}
           /\ server = "up" => Spare >= 0 /\ Fresh /\ Surplus
BY DEF FaultInv, UInv, UdpTypeOK

\* What the client sends is what it waits for an answer to.
LEMMA TransmitFaults ==
    ASSUME UInv, FaultInv, Transmit
    PROVE  FaultInv'
<1>1. /\ pc \notin Ended /\ ~ waiting /\ waiting' = TRUE
      /\ toServer' = IF server = "up" THEN Append(toServer, Message)
                                      ELSE toServer
      /\ UNCHANGED <<pc, seq, attempts, server, toClient, faults>>
  BY DEF Transmit, transfer, receiver
<1>2. Message \in Datagrams /\ pc \in {"frame", "repair", "end"}
  BY <1>1, MessageHonest DEF Honest, UInv, UdpTypeOK
<1>3. /\ Message \in Current
      /\ pc \in {"frame", "repair"} => Message \in Frames
      /\ pc = "repair" => Message \in Fulls
  <2>1. CASE pc = "end"
    BY <1>2, <2>1 DEF Message, Current
  <2>2. CASE pc = "frame"
    BY <1>2, <2>2 DEF Message, Current, Frames
  <2>3. CASE pc = "repair"
    BY <1>2, <2>3 DEF Message, Current, Frames, Fulls
  <2> QED
    BY <1>2, <2>1, <2>2, <2>3
<1>4. Current' = Current /\ Expected' = Expected
  BY <1>1 DEF Current, Expected
<1>5. ASSUME server = "up"
      PROVE  /\ Spare' >= 0 /\ Fresh' /\ Surplus'
             /\ pc \in {"frame", "repair"} => toServer' \in Seq(Frames)
             /\ pc = "repair" /\ faults = 0 => toServer' \in Seq(Fulls)
  <2>1. PICK n, k \in Nat : n = Len(toServer) /\ k = Len(toClient)
    BY FaultTypes
  <2>2. /\ toServer' = Append(toServer, Message) /\ Len(toServer') = n + 1
        /\ toServer' # <<>> /\ Vain = 0 /\ faults \in Nat
    BY <1>1, <1>2, <1>5, <2>1, FaultTypes, Appended, EmptySeq
  <2>3. Spare' = Spare /\ Spare \in Int
    BY <1>1, <2>2, FaultTypes DEF Spare, Vain
  <2>4. After(toServer, Spare - k, Current) /\ After(toClient, Spare, Expected)
    BY <1>1, <1>5, <2>1, UpFaults DEF Fresh
  <2>5. After(toServer', Spare - k, Current)
    BY <1>2, <1>3, <2>1, <2>2, <2>3, <2>4, FaultTypes, AfterAppend
  <2>6. Fresh'
    BY <1>1, <1>4, <2>1, <2>3, <2>4, <2>5 DEF Fresh
  <2>7. Surplus'
    <3>1. n + k <= faults
      BY <1>1, <1>5, <2>1, <2>2, UpFaults DEF Surplus
    <3> QED
      BY <1>1, <2>1, <2>2, <3>1 DEF Surplus
  <2> QED
    BY <1>1, <1>3, <1>5, <2>2, <2>3, <2>6, <2>7, UpFaults, AppendProperties DEF FaultInv
<1>6. pc' \notin Ended /\ pc' \notin {"gaveUp", "notAcked"}
  BY <1>1 DEF Ended
<1>7. server = "up" \/ pc \notin {"frame", "repair"}
  BY DEF FaultInv
<1>8. server # "timedOut"
  BY <1>1 DEF FaultInv
<1>9. pc = "repair" /\ faults = 0 => toClient \in Seq(NoMisses)
  BY DEF FaultInv
<1> QED
  BY <1>1, <1>5, <1>6, <1>7, <1>8, <1>9 DEF FaultInv

\* An attempt that is over was paid for by a fault.
LEMMA WaitFaults ==
    ASSUME UInv, FaultInv, Timeout \/ ReceiveStale
    PROVE  FaultInv'
<1>1. /\ waiting /\ waiting' = FALSE /\ attempts' = attempts + 1
      /\ UNCHANGED <<pc, seq, server, toServer>>
  BY DEF Timeout, ReceiveStale, Retry, transfer, receiver
<1>2. pc \notin Ended
  BY <1>1 DEF UInv
<1>3. Current' = Current /\ Expected' = Expected
  BY <1>1 DEF Current, Expected
<1>4. /\ faults' \in Nat /\ faults' >= faults /\ faults \in Nat
      /\ toClient' = toClient \/ (toClient' = Tail(toClient) /\ toClient # <<>>)
  BY FaultTypes DEF Timeout, ReceiveStale, Discard
<1>5. ASSUME server = "up"
      PROVE  Spare' >= 0 /\ Fresh' /\ Surplus'
  <2>1. PICK n, k \in Nat : n = Len(toServer) /\ k = Len(toClient)
    BY FaultTypes
  <2>2. PICK a \in Nat, v \in {0, 1} : a = attempts /\ v = Vain
    BY FaultTypes
  <2>3. /\ Spare = faults - a - v /\ Spare' = faults' - (a + 1)
        /\ Spare >= 0
    <3>1. Vain' = 0
      BY <1>1 DEF Vain
    <3>2. Spare' = faults' - (a + 1) - 0
      BY <1>1, <2>2, <3>1 DEF Spare
    <3>3. faults' - (a + 1) - 0 = faults' - (a + 1)
      BY <1>4, <2>2
    <3> QED
      BY <1>2, <1>5, <2>2, <3>2, <3>3, UpFaults DEF Spare
  <2>4. After(toServer, Spare - k, Current) /\ After(toClient, Spare, Expected)
    BY <1>2, <1>5, <2>1, UpFaults DEF Fresh
  <2>5. n + k <= faults + 1
    BY <1>1, <1>2, <1>5, <2>1, UpFaults DEF Surplus
  <2>6. CASE Timeout
    <3>1. /\ toClient' = toClient
          /\ faults' = IF NothingOnItsWay THEN faults ELSE faults + 1
      BY <2>6 DEF Timeout
    <3>2. Spare' = Spare
      BY <1>1, <1>4, <2>2, <2>3, <3>1, FaultTypes DEF NothingOnItsWay
    <3>3. Fresh'
      BY <1>1, <1>3, <2>1, <2>4, <3>1, <3>2 DEF Fresh
    <3>4. n + k <= faults'
      <4>1. CASE NothingOnItsWay
        BY <1>4, <2>1, <4>1, EmptySeq DEF NothingOnItsWay
      <4>2. CASE ~ NothingOnItsWay
        BY <2>5, <3>1, <4>2
      <4> QED
        BY <4>1, <4>2
    <3>5. Surplus'
      BY <1>1, <1>4, <2>1, <3>1, <3>4 DEF Surplus
    <3> QED
      BY <2>3, <3>2, <3>3, <3>5
  <2>7. CASE ReceiveStale
    <3>1. /\ toClient # <<>> /\ toClient' = Tail(toClient) /\ faults' = faults
          /\ IF pc = "end" THEN ~ Receive("STATS")
                           ELSE ~ Answers("ACK") /\ ~ Answers("MISS")
      BY <2>7 DEF ReceiveStale, Discard
    <3>2. Len(toClient') = k - 1 /\ k \in Nat \ {0} /\ Head(toClient) = toClient[1]
      BY <2>1, <3>1, FaultTypes, TailShape
    <3>3. toClient[1] \notin Expected
      BY <1>1, <3>1, <3>2 DEF Expected, Receive, Answers
    <3>4. ~ (1 > Spare)
      BY <2>1, <2>4, <3>2, <3>3 DEF After
    <3>5. v = 0
      BY <2>2, <3>1, FaultTypes
    <3>6. Spare' = Spare - 1 /\ Spare' >= 0 /\ Spare \in Int
      BY <1>4, <2>2, <2>3, <3>1, <3>4, <3>5
    <3>7. After(toClient', Spare', Expected)
      BY <2>4, <3>1, <3>6, FaultTypes, AfterTail
    <3>8. Spare' - (k - 1) = Spare - k
      BY <3>6
    <3>9. Fresh'
      BY <1>1, <1>3, <2>1, <2>4, <3>2, <3>7, <3>8 DEF Fresh
    <3>10. Surplus'
      BY <1>1, <1>4, <2>1, <2>5, <3>1, <3>2 DEF Surplus
    <3> QED
      BY <3>6, <3>9, <3>10
  <2> QED
    BY <2>6, <2>7
<1>6. pc = "repair" /\ faults' = 0 =>
        toServer \in Seq(Fulls) /\ toClient' \in Seq(NoMisses)
  <2> SUFFICES ASSUME pc = "repair", faults' = 0
               PROVE  toServer \in Seq(Fulls) /\ toClient' \in Seq(NoMisses)
    OBVIOUS
  <2>1. faults = 0
    BY <1>4
  <2>2. toServer \in Seq(Fulls) /\ toClient \in Seq(NoMisses)
    BY <2>1 DEF FaultInv
  <2> QED
    BY <1>4, <2>2, TailShape
<1>7. pc \notin {"gaveUp", "notAcked"}
  BY <1>2 DEF Ended
<1> QED
  BY <1>1, <1>2, <1>5, <1>6, <1>7 DEF FaultInv

\* The answer that was waited for starts the count of attempts again: whatever
\* else is on its way is paid for by a fault each.
LEMMA AnsweredFaults ==
    ASSUME UInv, UInv', FaultInv, pc \in {"frame", "repair"},
           pc' \in {"frame", "repair", "end"}, waiting, waiting' = FALSE,
           attempts' = 0, toClient # <<>>, toClient' = Tail(toClient),
           UNCHANGED <<server, toServer, faults>>
    PROVE  FaultInv'
<1>1. PICK n, k, f \in Nat : n = Len(toServer) /\ k = Len(toClient) /\ f = faults
  BY FaultTypes
<1>2. Len(toClient') = k - 1 /\ k # 0
  BY <1>1, FaultTypes, TailShape
<1>3. server = "up" /\ toServer \in Seq(Frames) /\ pc \notin Ended
  BY DEF FaultInv, Ended
<1>4. n + (k - 1) <= f
  <2>1. n + k <= f + 1
    BY <1>1, <1>3, UpFaults DEF Surplus
  <2> QED
    BY <1>1, <2>1
<1>5. Spare' = f /\ Surplus'
  BY <1>1, <1>2, <1>4 DEF Spare, Vain, Surplus
<1>6. toClient' \in Seq(Answer) /\ toServer' \in Seq(Datagrams)
  BY DEF UInv, UdpTypeOK
<1>7. Len(toClient') <= f /\ Len(toServer') <= f - (k - 1)
      /\ f \in Int /\ f - (k - 1) \in Int
  BY <1>1, <1>2, <1>4
<1>8. Fresh'
  <2>1. After(toClient', f, Expected') /\ After(toServer', f - (k - 1), Current')
    BY <1>6, <1>7, AfterAll
  <2> QED
    BY <1>2, <1>5, <2>1 DEF Fresh
<1>9. f = 0 => toServer' = <<>> /\ toClient' = <<>>
  <2>1. f = 0 => Len(toServer') = 0 /\ Len(toClient') = 0
    BY <1>1, <1>2, <1>4
  <2> QED
    BY <1>6, <2>1, EmptySeq
<1>10. f = 0 => toServer' \in Seq(Fulls) /\ toClient' \in Seq(NoMisses)
  BY <1>9, EmptySeq
<1>11. pc' \notin {"gaveUp", "notAcked"} /\ server' # "timedOut"
  BY <1>3
<1> QED
  BY <1>1, <1>3, <1>5, <1>8, <1>10, <1>11 DEF FaultInv

\* Every attempt was paid for by a fault.
LEMMA GiveUpFaults ==
    ASSUME UInv, FaultInv, GiveUp
    PROVE  FaultInv'
<1>1. /\ pc \notin Ended /\ ~ waiting /\ attempts > MaxRetries /\ pc' = "gaveUp"
      /\ UNCHANGED <<server, faults>>
  BY DEF GiveUp, Close, receiver
<1>2. CASE server = "up"
  <2>1. Spare >= 0 /\ Vain = 0
    BY <1>1, <1>2, UpFaults, FaultTypes
  <2>2. faults > MaxRetries
    BY <1>1, <2>1, FaultTypes DEF Spare
  <2> QED
    BY <1>1, <2>2, EndedFaults DEF Ended
<1>3. CASE server = "served"
  BY <1>1, <1>3, EndedFaults DEF Ended
<1> QED
  BY <1>1, <1>2, <1>3, UpFaults

\* A MISS in answer to a repair is left from an attempt that was repeated.
LEMMA MissForRepairFaults ==
    ASSUME UInv, FaultInv, ReceiveMissForRepair
    PROVE  FaultInv'
<1>1. /\ pc = "repair" /\ Answers("MISS") /\ pc' = "notAcked" /\ faults' = faults
  BY DEF ReceiveMissForRepair, Close
<1>2. toClient \notin Seq(NoMisses)
  <2>1. toClient # <<>> /\ Head(toClient).t = "MISS"
    BY <1>1 DEF Answers, Receive
  <2>2. toClient \in Seq(NoMisses) => Head(toClient) \in NoMisses
    BY <2>1, HeadTailProperties
  <2> QED
    BY <2>1, <2>2 DEF NoMisses
<1>3. faults \in Nat /\ faults # 0
  BY <1>1, <1>2, FaultTypes DEF FaultInv
<1> QED
  BY <1>1, <1>3, EndedFaults DEF Ended

\* The server's answer takes the place of the datagram in the pipeline.
LEMMA HandleFaults ==
    ASSUME UInv, FaultInv, NEW m \in Oldest, HandleFrame(m)
    PROVE  FaultInv'
<1>1. /\ m.t = "FRAME" /\ server = "up" /\ toServer # <<>>
      /\ m = Head(toServer) /\ toServer' = Tail(toServer)
      /\ UNCHANGED <<pc, seq, attempts, waiting, server, faults>>
  BY DEF Oldest, HandleFrame, AckAgain, AcceptFull, AcceptRef, MissRef, Handling,
         Handled, client
<1>2. PICK r : /\ r \in Answer /\ r.t \in {"ACK", "MISS"} /\ r.seq = m.seq
               /\ Reply(r)
               /\ r.t = "MISS" => m.kind = "REF"
  <2>1. m.seq \in Nat
    BY <1>1, FrameHandled
  <2>2. CASE MissRef(m)
    <3> DEFINE r == [t |-> "MISS", seq |-> m.seq]
    <3>1. Reply(r) /\ m.kind = "REF"
      BY <2>2 DEF MissRef, ReplyMiss
    <3>2. r \in Answer /\ r.t = "MISS" /\ r.seq = m.seq
      BY <2>1 DEF Answer
    <3> QED
      BY <3>1, <3>2
  <2>3. CASE AckAgain(m) \/ AcceptFull(m) \/ AcceptRef(m)
    <3> DEFINE r == [t |-> "ACK", seq |-> m.seq]
    <3>1. Reply(r)
      BY <2>3 DEF AckAgain, AcceptFull, AcceptRef
    <3>2. r \in Answer /\ r.t = "ACK" /\ r.seq = m.seq
      BY <2>1 DEF Answer
    <3> QED
      BY <3>1, <3>2
  <2> QED
    BY <2>2, <2>3 DEF HandleFrame
<1>3. CASE pc \in Ended
  BY <1>1, <1>3, StaysEndedFaults
<1>4. CASE pc \notin Ended
  <2>1. toClient' = Append(toClient, r)
    BY <1>2, <1>4 DEF Reply
  <2>2. PICK n, k \in Nat : n = Len(toServer) /\ k = Len(toClient)
    BY FaultTypes
  <2>3. /\ Len(toServer') = n - 1 /\ m = toServer[1] /\ n # 0
        /\ Len(toClient') = k + 1 /\ toClient' # <<>>
    <3>1. toServer \in Seq(Datagrams) /\ toClient \in Seq(Answer)
      BY FaultTypes
    <3>2. Len(toServer') = n - 1 /\ m = toServer[1] /\ n # 0
      BY <1>1, <2>2, <3>1, TailShape
    <3>3. Len(toClient') = k + 1
      BY <1>2, <2>1, <2>2, <3>1, Appended
    <3> QED
      BY <2>2, <3>2, <3>3, EmptySeq
  <2>4. /\ After(toServer, Spare - k, Current) /\ After(toClient, Spare, Expected)
        /\ Spare >= 0 /\ n + k <= faults + (IF waiting THEN 1 ELSE 0)
    BY <1>1, <1>4, <2>2, UpFaults DEF Fresh, Surplus
  <2>5. Spare' = Spare /\ Spare \in Int
    <3>1. Vain = 0 /\ Vain' = 0
      BY <1>1, <2>3, FaultTypes DEF Vain
    <3> QED
      BY <1>1, <3>1, FaultTypes DEF Spare
  <2>6. Current' = Current /\ Expected' = Expected
    BY <1>1 DEF Current, Expected
  <2>7. After(toServer', (Spare - k) - 1, Current)
    <3>1. Spare - k \in Int
      BY <2>2, <2>5
    <3> QED
      BY <1>1, <2>4, <3>1, FaultTypes, AfterTail
  <2>8. r \in Expected \/ k + 1 <= Spare
    <3>1. CASE 1 > Spare - k
      <4>1. m \in Current
        BY <2>2, <2>3, <2>4, <3>1 DEF After
      <4> QED
        BY <1>1, <1>2, <4>1 DEF Current, Expected
    <3>2. CASE ~ (1 > Spare - k)
      BY <2>2, <2>5, <3>2
    <3> QED
      BY <3>1, <3>2
  <2>9. After(toClient', Spare, Expected)
    BY <1>2, <2>1, <2>2, <2>4, <2>5, <2>8, FaultTypes, AfterAppend
  <2>10. Fresh'
    <3>1. Spare' - (k + 1) = (Spare - k) - 1
      BY <2>2, <2>5
    <3> QED
      BY <2>3, <2>5, <2>6, <2>7, <2>9, <3>1 DEF Fresh
  <2>11. Surplus'
    <3>1. (n - 1) + (k + 1) = n + k
      BY <2>2
    <3> QED
      BY <1>1, <2>3, <2>4, <3>1 DEF Surplus
  <2>12. pc \in {"frame", "repair"} => toServer' \in Seq(Frames)
    BY <1>1, TailShape DEF FaultInv
  <2>13. pc = "repair" /\ faults = 0 =>
           toServer' \in Seq(Fulls) /\ toClient' \in Seq(NoMisses)
    <3> SUFFICES ASSUME pc = "repair", faults = 0
                 PROVE  toServer' \in Seq(Fulls) /\ toClient' \in Seq(NoMisses)
      OBVIOUS
    <3>1. toServer \in Seq(Fulls) /\ toClient \in Seq(NoMisses)
      BY DEF FaultInv
    <3>2. m \in Fulls /\ toServer' \in Seq(Fulls)
      BY <1>1, <3>1, HeadTailProperties
    <3>3. r \in NoMisses
      BY <1>2, <3>2 DEF Fulls, NoMisses
    <3> QED
      BY <2>1, <3>1, <3>2, <3>3, AppendProperties
  <2>14. pc \notin {"gaveUp", "notAcked"} /\ server' # "timedOut"
    BY <1>1, <1>4 DEF Ended
  <2> QED
    BY <1>1, <2>4, <2>5, <2>10, <2>11, <2>12, <2>13, <2>14 DEF FaultInv
<1> QED
  BY <1>3, <1>4

\* A datagram that is lost or dropped is a fault.
LEMMA LossFaults ==
    ASSUME UInv, FaultInv, faults' = faults + 1,
           UNCHANGED <<pc, seq, attempts, waiting, server>>,
           \/ /\ \E i \in DOMAIN toServer : toServer' = RemoveAt(toServer, i)
              /\ UNCHANGED toClient
           \/ /\ \E i \in DOMAIN toClient : toClient' = RemoveAt(toClient, i)
              /\ UNCHANGED toServer
    PROVE  FaultInv'
<1>1. faults \in Nat /\ faults' # 0
  BY FaultTypes
<1>2. CASE pc \in Ended
  BY <1>2, StaysEndedFaults
<1>3. CASE pc \notin Ended
  <2>1. PICK n, k \in Nat : n = Len(toServer) /\ k = Len(toClient)
    BY FaultTypes
  <2>2. /\ toServer \in Seq(Datagrams) /\ toClient \in Seq(Answer)
        /\ Spare \in Int /\ attempts \in Nat /\ Vain \in {0, 1}
    BY FaultTypes
  <2>3. \/ UNCHANGED toClient /\ Len(toServer') = n - 1
        \/ UNCHANGED toServer /\ Len(toClient') = k - 1
    BY <2>1, <2>2, RemoveAtShape
  <2>4. Current' = Current /\ Expected' = Expected
    BY DEF Current, Expected
  <2>5. PICK d \in {0, 1} : Spare' = Spare + d
    <3>1. PICK v, w \in {0, 1} : v = Vain /\ w = Vain'
      BY DEF Vain
    <3>2. v = 0
      <4>1. toServer # <<>> \/ toClient # <<>>
        BY <2>2, EmptySeq
      <4> QED
        BY <3>1, <4>1, FaultTypes
    <3>3. Spare' = faults' - attempts' - w /\ Spare = faults - attempts - v
      BY <3>1 DEF Spare
    <3>4. CASE w = 0
      <4>1. Spare' = Spare + 1
        BY <1>1, <2>2, <3>2, <3>3, <3>4
      <4> QED
        BY <4>1
    <3>5. CASE w = 1
      <4>1. Spare' = Spare + 0
        BY <1>1, <2>2, <3>2, <3>3, <3>5
      <4> QED
        BY <4>1
    <3> QED
      BY <3>1, <3>4, <3>5
  <2>6. ASSUME server = "up"
        PROVE  Spare' >= 0 /\ Fresh' /\ Surplus'
    <3>1. /\ After(toServer, Spare - k, Current) /\ After(toClient, Spare, Expected)
          /\ Spare >= 0 /\ n + k <= faults + (IF waiting THEN 1 ELSE 0)
      BY <1>3, <2>1, <2>6, UpFaults DEF Fresh, Surplus
    <3>2. Spare - k \in Int /\ Spare' \in Int /\ Spare <= Spare' /\ Spare' >= 0
      BY <2>1, <2>2, <2>5, <3>1
    <3>3. After(toServer', Spare - k, Current) /\ After(toClient', Spare, Expected)
      BY <2>2, <3>1, <3>2, AfterRemove
    <3>4. toServer' \in Seq(Datagrams) /\ toClient' \in Seq(Answer)
      BY <2>2, RemoveAtType
    <3>5. PICK l \in Int : l = Len(toClient') /\ l <= k
      BY <2>1, <2>3
    <3>6. Spare' - l \in Int /\ Spare - k <= Spare' - l
      BY <2>1, <2>2, <3>2, <3>5
    <3>7. After(toServer', Spare' - l, Current) /\ After(toClient', Spare', Expected)
      BY <2>2, <3>2, <3>3, <3>4, <3>6, AfterMore
    <3>8. Fresh'
      BY <2>4, <3>5, <3>7 DEF Fresh
    <3>9. Surplus'
      BY <1>1, <2>1, <2>3, <3>1 DEF Surplus
    <3> QED
      BY <3>2, <3>8, <3>9
  <2>7. pc \in {"frame", "repair"} => toServer' \in Seq(Frames)
    BY RemoveAtType DEF FaultInv
  <2>8. pc \notin {"gaveUp", "notAcked"} /\ server # "timedOut"
    BY <1>3 DEF Ended, FaultInv
  <2> QED
    BY <1>1, <2>6, <2>7, <2>8 DEF FaultInv
<1> QED
  BY <1>2, <1>3

\* Taking the first datagram out of a queue.
LEMMA TailIsRemoveAt ==
    ASSUME NEW T, NEW s \in Seq(T), s # <<>>
    PROVE  1 \in DOMAIN s /\ Tail(s) = RemoveAt(s, 1)
<1>1. PICK k : k = Len(s) /\ k \in Nat \ {0} /\ DOMAIN s = 1 .. k
  BY TailShape, LenProperties
<1>2. SubSeq(s, 1, 1 - 1) = <<>>
  BY SubSeqEmpty
<1>3. SubSeq(s, 1 + 1, k) = Tail(s)
  BY <1>1, TailIsSubSeq
<1>4. <<>> \o Tail(s) = Tail(s)
  BY HeadTailProperties, ConcatEmptySeq
<1> QED
  BY <1>1, <1>2, <1>3, <1>4 DEF RemoveAt

\* Only a client at its end makes the server stop.
LEMMA ServeEndFaults ==
    ASSUME UInv, FaultInv, NEW m \in Oldest, ServeEnd(m)
    PROVE  FaultInv'
<1>1. /\ m.t = "END" /\ m = Head(toServer) /\ toServer # <<>>
      /\ server = "up" /\ server' = "served"
      /\ UNCHANGED <<pc, seq, attempts, waiting, faults>>
  BY DEF ServeEnd, Oldest, client
<1>2. pc \notin {"frame", "repair"}
  <2>1. m \notin Frames
    BY <1>1 DEF Frames
  <2> QED
    BY <1>1, <2>1, HeadTailProperties DEF FaultInv
<1> QED
  BY <1>1, <1>2 DEF FaultInv

\* Every step keeps account of the faults.
LEMMA FaultNextInvariant ==
    ASSUME UInv, UInv', FaultInv, [UdpNext]_udpVars
    PROVE  FaultInv'
<1>1. CASE Transmit
  BY <1>1, TransmitFaults
<1>2. CASE GiveUp
  BY <1>2, GiveUpFaults
<1>3. CASE ReceiveAck
  <2>1. /\ pc \in {"frame", "repair"} /\ pc' \in {"frame", "repair", "end"}
        /\ waiting /\ waiting' = FALSE /\ attempts' = 0
        /\ toClient # <<>> /\ toClient' = Tail(toClient)
        /\ UNCHANGED <<server, toServer, faults>>
    BY <1>3 DEF ReceiveAck, Acknowledged, Answers, Receive, receiver
  <2> QED
    BY <2>1, AnsweredFaults
<1>4. CASE ReceiveMiss
  <2>1. /\ pc = "frame" /\ waiting /\ toClient # <<>>
        /\ UNCHANGED <<server, toServer, faults>>
    BY <1>4 DEF ReceiveMiss, Answers, Receive, receiver
  <2>2. CASE CidOf[frames[seq + 1].chunk] \in Keys(warm)
    <3>1. /\ pc' = "repair" /\ waiting' = FALSE /\ attempts' = 0
          /\ toClient' = Tail(toClient)
      BY <1>4, <2>2 DEF ReceiveMiss
    <3> QED
      BY <2>1, <3>1, AnsweredFaults
  <2>3. CASE CidOf[frames[seq + 1].chunk] \notin Keys(warm)
    <3>1. pc' = "unrepairable"
      BY <1>4, <2>3 DEF ReceiveMiss, Close
    <3> QED
      BY <3>1, EndedFaults DEF Ended
  <2> QED
    BY <2>2, <2>3
<1>5. CASE ReceiveMissForRepair
  BY <1>5, MissForRepairFaults
<1>6. CASE ReceiveStats
  <2>1. pc' = "done"
    BY <1>6 DEF ReceiveStats, Close
  <2> QED
    BY <2>1, EndedFaults DEF Ended
<1>7. CASE Timeout \/ ReceiveStale
  BY <1>7, WaitFaults
<1>8. CASE ServerStep
  <2>1. PICK m \in Oldest : DropDatagram(m) \/ HandleFrame(m) \/ ServeEnd(m)
    BY <1>8 DEF ServerStep
  <2>2. CASE DropDatagram(m)
    <3>1. /\ toServer' = Tail(toServer) /\ faults' = faults + 1
          /\ UNCHANGED <<pc, seq, attempts, waiting, server, toClient>>
      BY <2>2 DEF DropDatagram, client
    <3>2. toServer \in Seq(Datagrams) /\ toServer # <<>>
      BY <2>1, FaultTypes DEF Oldest
    <3>3. 1 \in DOMAIN toServer /\ toServer' = RemoveAt(toServer, 1)
      BY <3>1, <3>2, TailIsRemoveAt
    <3> QED
      BY <3>1, <3>3, LossFaults
  <2> QED
    BY <2>1, <2>2, HandleFaults, ServeEndFaults
<1>9. CASE LoseDatagram
  <2>1. UNCHANGED <<pc, seq, attempts, waiting, server>> /\ faults' = faults + 1
    BY <1>9 DEF LoseDatagram, client, receiver
  <2> QED
    BY <1>9, <2>1, LossFaults DEF LoseDatagram
<1>10. CASE ServerTimeout
  <2>1. pc \in Ended /\ server = "up" /\ server' = "timedOut"
        /\ UNCHANGED <<pc, faults>>
    BY <1>10 DEF ServerTimeout, client
  <2> QED
    BY <2>1, StaysEndedFaults
<1>11. CASE UNCHANGED udpVars
  <2>1. UNCHANGED <<pc, seq, attempts, waiting, server, faults, toServer, toClient>>
    BY <1>11 DEF udpVars, client, receiver
  <2>2. /\ Current' = Current /\ Expected' = Expected /\ Vain' = Vain
    BY <2>1 DEF Current, Expected, Vain
  <2>3. Spare' = Spare
    BY <2>1, <2>2 DEF Spare
  <2>4. Fresh' = Fresh /\ Surplus' = Surplus
    BY <2>1, <2>2, <2>3 DEF Fresh, Surplus
  <2> QED
    BY <2>1, <2>3, <2>4 DEF FaultInv
<1> QED
  BY <1>1, <1>2, <1>3, <1>4, <1>5, <1>6, <1>7, <1>8, <1>9, <1>10, <1>11
  DEF UdpNext, ClientStep

\* A client that fails met more faults than it has retries, or a fault at its
\* repair, or a receiver that had to evict: for every number of retries and
\* every way the faults are spread over the frames.
THEOREM FailuresAreCaused == UdpSpec => []FailureHasCause
<1>1. UInv /\ CountInv /\ HoldInv /\ [UdpNext]_udpVars => HoldInv'
  BY HoldNextInvariant
<1>2. UInv /\ UInv' /\ FaultInv /\ [UdpNext]_udpVars => FaultInv'
  BY FaultNextInvariant
<1>3. UdpInit => HoldInv /\ FaultInv
  BY HoldInitInvariant, FaultInitInvariant
<1>4. HoldInv /\ FaultInv => FailureHasCause
  BY DEF HoldInv, FaultInv, FailureHasCause
<1> QED
  BY <1>1, <1>2, <1>3, <1>4, CountInvariant, PTL DEF UdpSpec
=============================================================================
