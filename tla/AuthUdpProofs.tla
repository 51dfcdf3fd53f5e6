--------------------------- MODULE AuthUdpProofs ---------------------------
(***************************************************************************)
(* The authenticated UDP exchange for every input, choice of probes, size  *)
(* of the window and number of faults: it is type correct and a reliable   *)
(* transfer, its two ends count the same, and it fails only for a cause.   *)
(***************************************************************************)
EXTENDS AuthUdp, EncodingProofs

-----------------------------------------------------------------------------
(* The inductive invariant.                                                *)

FramesCoverInput ==
    /\ Len(frames) = Len(input)
    /\ frames # << >> => Len(frames) # 0
    /\ \A i \in 1 .. Len(input) :
          frames[i] = [kind |-> frames[i].kind, chunk |-> input[i], nonce |-> i,
                       offset |-> frames[i].offset, genuine |-> TRUE]

DeliveredRight ==
    /\ DOMAIN delivered \subseteq 0 .. Len(frames) - 1
    /\ \A q \in DOMAIN delivered : delivered[q] = input[q + 1]

\* The client is never past a frame the server lacks.
NothingSkipped == \A q \in 0 .. seq - 1 : q \in DOMAIN delivered

Probing == {"tamper", "probe", "replay"}

Sending == {"frame", "repair"}

Stages ==
    /\ pc = "start" => seq = 0
    /\ pc \in Probing \cup Sending => seq < Len(frames)
    /\ pc \in {"end", "done"} => seq = Len(frames)
    /\ waiting => pc \notin Ended \cup {"start"}

\* A datagram of the client: a frame of the transfer is the one it is at.
Honest(m) ==
    /\ m.t \in {"FRAME", "END"}
    /\ m.t = "FRAME" =>
          /\ m.seq \in Int /\ m.nonce \in Nat
          /\ m.seq >= 0 => m.seq = seq /\ seq < Len(frames) /\ m.chunk = input[seq + 1]

\* What is on its way to the server: nothing, or what the client waits for the
\* answer to, or what a client that has ended left behind.
RequestRight ==
    request # << >> =>
        /\ reply = << >>
        /\ request = <<request[1]>> /\ Honest(request[1])
        /\ waiting \/ pc \in Ended
        /\ waiting /\ pc \in Sending => request[1].t = "FRAME" /\ request[1].seq >= 0

\* What is on its way to the client: an ACK for a frame means it is delivered.
ReplyRight ==
    reply # << >> =>
        /\ request = << >> /\ waiting
        /\ reply[1].t = "ACK" /\ pc \in Sending => seq \in DOMAIN delivered

AInv ==
    /\ AuthTypeOK
    /\ FramesCoverInput
    /\ SoundDictionary(dictionary, MaxDictChunks)
    /\ DeliveredRight
    /\ NothingSkipped
    /\ Stages
    /\ RequestRight
    /\ ReplyRight
-----------------------------------------------------------------------------
(* The inductive step.                                                     *)

LEMMA InputFacts ==
    ASSUME AInv
    PROVE  /\ input \in Seq(Chunks) /\ Len(input) \in Nat /\ DOMAIN input = 1 .. Len(input)
           /\ Len(frames) = Len(input) /\ seq \in Nat /\ seq <= Len(frames)
           /\ \A i \in 1 .. Len(input) : input[i] \in Chunks
<1>1. input \in Seq(Chunks) /\ Len(frames) = Len(input) /\ seq \in 0 .. Len(frames)
  BY InputsAssumption DEF AInv, AuthTypeOK, FramesCoverInput
<1> QED
  BY <1>1, LenProperties, ElementOfSeq

LEMMA RememberType ==
    ASSUME NEW w \in Windows, NEW n \in Nat
    PROVE  Remember(w, WindowSize, n) \in Windows
<1>1. Later(w.highest, n) \in Nat
  BY DEF Windows, Later
<1>2. \A S \in SUBSET Nat : {m \in S : m > n - WindowSize} \in SUBSET Nat
  OBVIOUS
<1>3. w.seen \cup {n} \in SUBSET Nat
  BY DEF Windows
<1> QED
  BY <1>1, <1>2, <1>3 DEF Remember, Windows

LEMMA InitInvariant ==
    ASSUME AuthInit
    PROVE  AInv
<1>1. input \in Seq(Chunks) /\ Len(input) \in Nat
  BY InputsAssumption, LenProperties DEF AuthInit
<1>2. FramesCoverInput
  BY <1>1, SecurelyEncodedCovers DEF AuthInit, FramesCoverInput
<1>3. SoundDictionary(warm, MaxDictChunks)
  BY WarmSound, CapacityAssumption DEF AuthInit
<1>4. SoundDictionary(dictionary, MaxDictChunks)
  <2>1. PICK P \in SUBSET DOMAIN warm : dictionary \in Kept(warm, P)
    BY DEF AuthInit, RandomlyThinned
  <2>2. MaxDictChunks \in Nat
    BY CapacityAssumption
  <2> QED
    BY <1>3, <2>1, <2>2, KeptSound
<1>5. seq \in 0 .. Len(frames)
  BY <1>1, <1>2 DEF AuthInit, FramesCoverInput
<1>6. window \in Windows /\ counts \in [Counters -> Nat]
      /\ delivered \in [DOMAIN delivered -> Chunks] /\ faults \in 0 .. MaxFaults
  BY AuthAssumption DEF AuthInit, EmptyWindow, Windows
<1>7. Len(request) <= 1 /\ Len(reply) <= 1
  BY DEF AuthInit
<1>8. AuthTypeOK
  BY <1>3, <1>4, <1>5, <1>6, <1>7 DEF AuthInit, AuthTypeOK, SoundDictionary
<1>9. DeliveredRight /\ NothingSkipped
  BY DEF AuthInit, DeliveredRight, NothingSkipped
<1>10. Stages /\ RequestRight /\ ReplyRight
  BY DEF AuthInit, Stages, RequestRight, ReplyRight, Probing, Sending
<1> QED
  BY <1>2, <1>4, <1>8, <1>9, <1>10 DEF AInv

\* What does not concern the receiver leaves its part of the invariant.
LEMMA ReceiverStays ==
    ASSUME AInv, UNCHANGED <<transfer, receiver>>, seq' \in 0 .. Len(frames)
    PROVE  /\ FramesCoverInput' /\ SoundDictionary(dictionary', MaxDictChunks)
           /\ DeliveredRight'
           /\ input' \in Inputs /\ warm' \in Seq(Entries)
           /\ dictionary' \in Seq(Entries) /\ Len(dictionary') <= MaxDictChunks
           /\ window' \in Windows /\ delivered' \in [DOMAIN delivered' -> Chunks]
           /\ counts' \in [Counters -> Nat] /\ server' \in {"up", "served", "timedOut"}
           /\ seq' \in 0 .. Len(frames')
BY DEF AInv, transfer, receiver, FramesCoverInput, DeliveredRight, AuthTypeOK

LEMMA StartInvariant ==
    ASSUME AInv, Start
    PROVE  AInv'
<1>1. UNCHANGED <<transfer, seq, waiting, repairs, receiver, request, reply, faults>>
      /\ pc = "start" /\ seq = 0 /\ ~ waiting
      /\ pc' = IF frames = << >> THEN "noFrames" ELSE FirstStage
  BY DEF Start, AInv, Stages
<1>2. pc' = "noFrames" \/ (pc' \in Probing \cup Sending /\ 0 < Len(frames))
  <2>1. FirstStage \in Probing \cup Sending
    BY DEF FirstStage, AfterTamper, Probing, Sending
  <2>2. frames # << >> => 0 < Len(frames)
    BY InputFacts DEF AInv, FramesCoverInput
  <2> QED
    BY <1>1, <2>1, <2>2
<1>3. request = << >> /\ reply = << >>
  BY <1>1 DEF AInv, RequestRight, ReplyRight, Ended
<1>4. AuthTypeOK'
  BY <1>1, <1>2, ReceiverStays DEF AInv, AuthTypeOK, Ended, Probing, Sending
<1>5. Stages'
  BY <1>1, <1>2 DEF Stages, Probing, Sending, Ended, transfer
<1>6. NothingSkipped' /\ RequestRight' /\ ReplyRight'
  BY <1>1, <1>3 DEF NothingSkipped, RequestRight, ReplyRight
<1> QED
  BY <1>1, <1>4, <1>5, <1>6, ReceiverStays DEF AInv, AuthTypeOK

\* What the client sends is honest.
LEMMA MessageHonest ==
    ASSUME AInv, pc \notin Ended \cup {"start"}
    PROVE  /\ Honest(Message)
           /\ pc \in Sending => Message.t = "FRAME" /\ Message.seq >= 0
<1>1. pc \in Probing \cup Sending \cup {"end"}
  BY DEF AInv, AuthTypeOK, Ended, Probing, Sending
<1>2. CASE pc = "end"
  <2>1. Message = [t |-> "END"]
    BY <1>2 DEF Message
  <2> QED
    BY <1>2, <2>1 DEF Honest, Sending
<1>3. CASE pc \in Probing
  <2>1. 1 \in 1 .. Len(input)
    BY <1>3, InputFacts DEF AInv, Stages
  <2>2. frames[1] = [kind |-> frames[1].kind, chunk |-> input[1], nonce |-> 1,
                     offset |-> frames[1].offset, genuine |-> TRUE]
    BY <2>1 DEF AInv, FramesCoverInput
  <2>3. ProbeNonce \in Nat
    BY AuthAssumption, InputFacts DEF ProbeNonce
  <2>4. Message.t = "FRAME" /\ Message.seq \in {-100, -99} /\ Message.nonce \in Nat
    <3>1. CASE pc = "tamper"
      BY <2>2, <3>1 DEF Message, Framed
    <3>2. CASE pc \in {"probe", "replay"}
      BY <2>2, <2>3, <3>2 DEF Message, Framed
    <3> QED
      BY <1>3, <3>1, <3>2 DEF Probing
  <2> QED
    BY <1>3, <2>4 DEF Honest, Probing, Sending
<1>4. CASE pc \in Sending
  <2>1. seq \in Nat /\ seq < Len(frames) /\ seq + 1 \in 1 .. Len(input)
    BY <1>4, InputFacts DEF AInv, Stages
  <2>2. frames[seq + 1] = [kind |-> frames[seq + 1].kind, chunk |-> input[seq + 1],
                           nonce |-> seq + 1, offset |-> frames[seq + 1].offset,
                           genuine |-> TRUE]
    BY <2>1 DEF AInv, FramesCoverInput
  <2>3. RepairNonce \in Nat
    BY InputFacts DEF RepairNonce, AInv, AuthTypeOK
  <2>4. /\ Message.t = "FRAME" /\ Message.seq = seq
        /\ Message.chunk = input[seq + 1] /\ Message.nonce \in Nat
    <3>1. CASE pc = "frame"
      BY <2>1, <2>2, <3>1 DEF Message, Framed
    <3>2. CASE pc = "repair"
      BY <2>2, <2>3, <3>2 DEF Message, Framed, FullRepair
    <3> QED
      BY <1>4, <3>1, <3>2 DEF Sending
  <2> QED
    BY <2>1, <2>4 DEF Honest
<1> QED
  BY <1>1, <1>2, <1>3, <1>4

LEMMA ExchangeInvariant ==
    ASSUME AInv, Exchange
    PROVE  AInv'
<1>1. /\ UNCHANGED <<transfer, pc, seq, repairs, receiver, reply, faults>>
      /\ pc \notin Ended \cup {"start"} /\ ~ waiting /\ waiting'
      /\ request' = <<Message>> \/ request' = << >>
      /\ waiting' = TRUE
  BY DEF Exchange
<1>2. reply = << >>
  BY <1>1 DEF AInv, ReplyRight
<1>3. /\ Honest(Message)
      /\ pc \in Sending => Message.t = "FRAME" /\ Message.seq >= 0
  BY <1>1, MessageHonest
<1>4. PICK m : m = Message
  OBVIOUS
<1>5. request' # << >> => request'[1] = m /\ request' = <<m>>
  BY <1>1, <1>4
<1>6. Len(request') <= 1
  BY <1>1
<1>7. AuthTypeOK'
  BY <1>1, <1>6, ReceiverStays DEF AInv, AuthTypeOK
<1>8. Stages' /\ NothingSkipped'
  BY <1>1 DEF AInv, Stages, NothingSkipped, transfer, receiver
<1>9. RequestRight'
  <2> SUFFICES ASSUME request' # << >> PROVE RequestRight'
    BY DEF RequestRight
  <2>1. request'[1] = m /\ request' = <<m>> /\ reply' = << >>
    BY <1>1, <1>2, <1>5
  <2>2. UNCHANGED <<pc, seq, frames, input>>
    BY <1>1 DEF transfer
  <2>3. Honest(m)'
    BY <1>3, <1>4, <2>2 DEF Honest
  <2>4. pc' \in Sending => m.t = "FRAME" /\ m.seq >= 0
    BY <1>3, <1>4, <2>2
  <2>5. Honest(request[1])'
    BY <2>1, <2>3 DEF Honest
  <2> QED
    BY <1>1, <2>1, <2>4, <2>5 DEF RequestRight
<1>10. ReplyRight'
  BY <1>1, <1>2 DEF ReplyRight
<1> QED
  BY <1>1, <1>7, <1>8, <1>9, <1>10, ReceiverStays DEF AInv, AuthTypeOK

\* A reply is taken: nothing is under way any more.
LEMMA ProceedInvariant ==
    ASSUME AInv, NEW stage, Proceed(stage), waiting, reply # << >>,
           stage \in Probing \cup Sending \cup {"end"} \cup Ended,
           seq' \in 0 .. Len(frames), repairs' \in Nat,
           \A q \in 0 .. seq' - 1 : q \in DOMAIN delivered,
           stage \in Probing \cup Sending => seq' < Len(frames),
           stage \in {"end", "done"} => seq' = Len(frames)
    PROVE  AInv'
<1>1. /\ UNCHANGED <<transfer, receiver, request, faults>>
      /\ pc' = stage /\ waiting' = FALSE /\ reply' = << >>
  BY DEF Proceed
<1>2. request' = << >> /\ Len(request') = 0 /\ Len(reply') = 0
  BY <1>1 DEF AInv, ReplyRight
<1>3. pc' \in {"start", "tamper", "probe", "replay", "frame", "repair", "end"} \cup Ended
  BY <1>1 DEF Probing, Sending
<1>4. AuthTypeOK'
  BY <1>1, <1>2, <1>3, ReceiverStays DEF AInv, AuthTypeOK
<1>5. Stages'
  <2>1. pc' # "start"
    BY <1>1 DEF Probing, Sending, Ended
  <2> QED
    BY <1>1, <2>1 DEF Stages, transfer
<1>6. NothingSkipped'
  BY <1>1 DEF NothingSkipped, receiver
<1>7. RequestRight' /\ ReplyRight'
  BY <1>1, <1>2 DEF RequestRight, ReplyRight
<1> QED
  BY <1>1, <1>4, <1>5, <1>6, <1>7, ReceiverStays DEF AInv, AuthTypeOK

LEMMA ReceiveInvariant ==
    ASSUME AInv,
           ReceiveProbeReply \/ ReceiveAck \/ ReceiveMiss \/ ReceiveError \/ ReceiveStats
    PROVE  AInv'
<1>0. seq \in Nat /\ seq \in 0 .. Len(frames) /\ Len(frames) \in Nat /\ repairs \in Nat
      /\ \A q \in 0 .. seq - 1 : q \in DOMAIN delivered
  BY InputFacts DEF AInv, AuthTypeOK, NothingSkipped
<1>1. CASE ReceiveProbeReply
  <2>1. PICK stage : stage \in Probing \cup Sending /\ Proceed(stage)
    <3>1. AfterTamper \in Probing \cup Sending
      BY DEF AfterTamper, Probing, Sending
    <3> QED
      BY <1>1, <3>1 DEF ReceiveProbeReply, Probing, Sending
  <2>2. /\ waiting /\ reply # << >> /\ UNCHANGED <<seq, repairs>>
        /\ seq < Len(frames)
    BY <1>1 DEF ReceiveProbeReply, Replied, AInv, Stages, Probing
  <2>3. stage \notin {"end", "done"}
    BY <2>1 DEF Probing, Sending
  <2> QED
    BY <1>0, <2>1, <2>2, <2>3, ProceedInvariant
<1>2. CASE ReceiveAck
  <2>1. /\ waiting /\ reply # << >> /\ reply[1].t = "ACK" /\ pc \in Sending
        /\ seq' = seq + 1 /\ repairs' \in Nat
    BY <1>0, <1>2 DEF ReceiveAck, Replied, Sending
  <2>2. seq < Len(frames) /\ seq \in DOMAIN delivered
    BY <2>1 DEF AInv, Stages, ReplyRight
  <2>3. seq' \in 0 .. Len(frames)
    BY <1>0, <2>1, <2>2
  <2>4. \A q \in 0 .. seq' - 1 : q \in DOMAIN delivered
    BY <1>0, <2>1, <2>2
  <2>5. CASE seq + 1 = Len(frames)
    <3>1. Proceed("end")
      BY <1>2, <2>5 DEF ReceiveAck
    <3> QED
      BY <2>1, <2>3, <2>4, <2>5, <3>1, ProceedInvariant DEF Probing, Sending
  <2>6. CASE seq + 1 # Len(frames)
    <3>1. Proceed("frame")
      BY <1>2, <2>6 DEF ReceiveAck
    <3>2. seq' < Len(frames)
      BY <1>0, <2>1, <2>2, <2>6
    <3> QED
      BY <2>1, <2>3, <2>4, <3>1, <3>2, ProceedInvariant DEF Probing, Sending
  <2> QED
    BY <2>5, <2>6
<1>3. CASE ReceiveMiss \/ ReceiveError
  <2>1. PICK stage : stage \in {"repair", "noRepair", "refused"} /\ Proceed(stage)
    BY <1>3 DEF ReceiveMiss, ReceiveError
  <2>2. /\ waiting /\ reply # << >> /\ UNCHANGED <<seq, repairs>>
        /\ seq < Len(frames)
    BY <1>3 DEF ReceiveMiss, ReceiveError, Replied, AInv, Stages, Sending
  <2>3. stage \in Sending \cup Ended /\ stage \notin {"end", "done"}
    BY <2>1 DEF Sending, Ended
  <2> QED
    BY <1>0, <2>1, <2>2, <2>3, ProceedInvariant
<1>4. CASE ReceiveStats
  <2>1. /\ waiting /\ reply # << >> /\ UNCHANGED <<seq, repairs>>
        /\ seq = Len(frames) /\ Proceed("done")
    BY <1>4 DEF ReceiveStats, Replied, AInv, Stages
  <2>2. "done" \in Ended /\ "done" \notin Probing \cup Sending
    BY DEF Probing, Sending, Ended
  <2> QED
    BY <1>0, <2>1, <2>2, ProceedInvariant
<1> QED
  BY <1>1, <1>2, <1>3, <1>4

LEMMA FaultInvariant ==
    ASSUME AInv, Timeout \/ LoseDatagram
    PROVE  AInv'
<1>1. UNCHANGED <<transfer, seq, repairs, receiver>> /\ reply' = << >>
  BY DEF Timeout, LoseDatagram, client
<1>2. faults' \in 0 .. MaxFaults
  BY AuthAssumption DEF Timeout, LoseDatagram, AInv, AuthTypeOK
<1>3. \/ pc' = "timedOut" /\ waiting' = FALSE /\ request' = request
      \/ UNCHANGED <<pc, waiting>> /\ request' = << >>
  BY DEF Timeout, LoseDatagram, client
<1>4. Len(request') <= 1 /\ Len(reply') <= 1
  BY <1>1, <1>3 DEF AInv, AuthTypeOK
<1>5. pc' \in Ended \cup {pc} /\ waiting' \in BOOLEAN
  BY <1>3 DEF Ended, AInv, AuthTypeOK
<1>6. AuthTypeOK'
  BY <1>1, <1>2, <1>4, <1>5, ReceiverStays DEF AInv, AuthTypeOK
<1>7. Stages'
  BY <1>1, <1>3 DEF AInv, Stages, Probing, Sending, transfer
<1>8. NothingSkipped' /\ ReplyRight'
  BY <1>1 DEF AInv, NothingSkipped, ReplyRight, receiver
<1>9. RequestRight'
  BY <1>1, <1>3 DEF AInv, RequestRight, Honest, transfer, Ended
<1> QED
  BY <1>1, <1>6, <1>7, <1>8, <1>9, ReceiverStays DEF AInv, AuthTypeOK

\* A datagram handled by the server, whose dictionary stays sound and whose
\* delivered chunks stay right and only grow.
LEMMA HandledInvariant ==
    ASSUME AInv, UNCHANGED <<transfer, client, faults>>, request' = << >>,
           NEW r, r.t \in {"ACK", "ERROR", "MISS", "STATS"}, Reply(r),
           SoundDictionary(dictionary', MaxDictChunks), window' \in Windows,
           counts' \in [Counters -> Nat], server' \in {"up", "served", "timedOut"},
           delivered' \in [DOMAIN delivered' -> Chunks], DeliveredRight',
           DOMAIN delivered \subseteq DOMAIN delivered',
           waiting /\ r.t = "ACK" /\ pc \in Sending => seq \in DOMAIN delivered'
    PROVE  AInv'
<1>1. UNCHANGED <<input, warm, frames, pc, seq, waiting, repairs, faults>>
  BY DEF transfer, client
<1>2. reply' = << >> \/ (waiting /\ reply' = <<r>>)
  BY DEF Reply
<1>3. Len(reply') <= 1 /\ Len(request') <= 1 /\ (reply' # << >> => reply'[1] = r)
  <2>1. Len(request') = 0
    OBVIOUS
  <2>2. CASE reply' = << >>
    BY <2>1, <2>2
  <2>3. CASE reply' = <<r>>
    BY <2>1, <2>3
  <2> QED
    BY <1>2, <2>2, <2>3
<1>4. AuthTypeOK'
  BY <1>1, <1>3 DEF AInv, AuthTypeOK, SoundDictionary
<1>5. FramesCoverInput' /\ Stages'
  BY <1>1 DEF AInv, FramesCoverInput, Stages
<1>6. NothingSkipped'
  BY <1>1 DEF AInv, NothingSkipped
<1>7. RequestRight'
  BY DEF RequestRight
<1>8. ReplyRight'
  BY <1>1, <1>2, <1>3 DEF ReplyRight
<1> QED
  BY <1>4, <1>5, <1>6, <1>7, <1>8 DEF AInv

\* What the server finds on its way.
LEMMA OldestHonest ==
    ASSUME AInv, NEW m \in ToSet(request)
    PROVE  /\ Honest(m)
           /\ waiting /\ pc \in Sending => m.t = "FRAME" /\ m.seq >= 0
<1>1. request # << >> /\ m = request[1]
  <2>1. PICK i \in DOMAIN request : m = request[i]
    BY DEF ToSet
  <2>2. request # << >>
    BY <2>1
  <2>3. request = <<request[1]>>
    BY <2>2 DEF AInv, RequestRight
  <2>4. DOMAIN request = {1}
    BY <2>3
  <2> QED
    BY <2>1, <2>2, <2>4
<1> QED
  BY <1>1 DEF AInv, RequestRight

\* A frame of the transfer is put in its place.
LEMMA DeliverRight ==
    ASSUME AInv, NEW m, Honest(m), m.t = "FRAME", m.seq >= 0,
           NEW c, c = m.chunk, Deliver(m, c), UNCHANGED transfer
    PROVE  /\ m.seq = seq /\ seq \in 0 .. Len(frames) - 1
           /\ c = input[seq + 1] /\ c \in Chunks
           /\ delivered' = [q \in DOMAIN delivered \cup {seq} |-> input[q + 1]]
           /\ DOMAIN delivered' = DOMAIN delivered \cup {seq}
           /\ delivered' \in [DOMAIN delivered' -> Chunks]
           /\ DeliveredRight'
<1>1. /\ m.seq = seq /\ seq < Len(frames) /\ c = input[seq + 1]
      /\ UNCHANGED <<input, frames>>
  BY DEF Honest, transfer
<1>2. seq \in 0 .. Len(frames) - 1 /\ seq + 1 \in 1 .. Len(input)
  BY <1>1, InputFacts
<1>3. \A q \in DOMAIN delivered : delivered[q] = input[q + 1] /\ delivered[q] \in Chunks
  BY DEF AInv, DeliveredRight, AuthTypeOK
<1>4. delivered' = [q \in DOMAIN delivered \cup {seq} |->
                       IF q = seq THEN c ELSE delivered[q]]
  BY <1>1 DEF Deliver, Place
<1>5. delivered' = [q \in DOMAIN delivered \cup {seq} |-> input[q + 1]]
  BY <1>1, <1>3, <1>4
<1>6. c \in Chunks
  BY <1>1, <1>2, InputFacts
<1>7. delivered' \in [DOMAIN delivered \cup {seq} -> Chunks]
  BY <1>3, <1>4, <1>6
<1>8. DOMAIN delivered' = DOMAIN delivered \cup {seq}
  BY <1>4
<1>9. DeliveredRight'
  BY <1>1, <1>2, <1>5, <1>8 DEF AInv, DeliveredRight
<1> QED
  BY <1>1, <1>2, <1>5, <1>6, <1>7, <1>8, <1>9

LEMMA VerifiedType ==
    ASSUME AInv, NEW m, Honest(m), Verified(m)
    PROVE  /\ window' \in Windows /\ m.t = "FRAME" /\ request' = << >>
           /\ UNCHANGED <<transfer, client, server, faults>>
BY RememberType DEF Verified, Handled, Honest, AInv, AuthTypeOK

LEMMA CountType ==
    ASSUME AInv, NEW x \in Counters, Count(x)
    PROVE  counts' \in [Counters -> Nat]
BY DEF Count, AInv, AuthTypeOK

LEMMA FullInvariant ==
    ASSUME AInv, NEW m \in ToSet(request), AcceptFull(m)
    PROVE  AInv'
<1>1. Honest(m) /\ Verified(m) /\ m.seq >= 0 /\ Cache(m) /\ Deliver(m, m.chunk)
      /\ Reply([t |-> "ACK"])
  BY OldestHonest DEF AcceptFull
<1>2. /\ window' \in Windows /\ m.t = "FRAME" /\ request' = << >>
      /\ UNCHANGED <<transfer, client, server, faults>>
  BY <1>1, VerifiedType
<1>3. /\ m.chunk \in Chunks /\ m.seq = seq
      /\ DOMAIN delivered' = DOMAIN delivered \cup {seq}
      /\ delivered' \in [DOMAIN delivered' -> Chunks] /\ DeliveredRight'
  BY <1>1, <1>2, DeliverRight
<1>4. SoundDictionary(dictionary', MaxDictChunks)
  BY <1>1, <1>3, TouchedSound DEF Cache, AInv
<1>5. counts' \in [Counters -> Nat]
  <2>1. "repair" \in Counters
    BY DEF Counters
  <2> QED
    BY <2>1, CountType DEF AcceptFull, AInv, AuthTypeOK
<1>6. server' \in {"up", "served", "timedOut"}
  BY <1>2 DEF AInv, AuthTypeOK
<1> QED
  BY <1>1, <1>2, <1>3, <1>4, <1>5, <1>6, HandledInvariant

LEMMA RefInvariant ==
    ASSUME AInv, NEW m \in ToSet(request), AcceptRef(m)
    PROVE  /\ AInv'
           /\ Deliver(m, m.chunk)
<1>1. /\ Honest(m) /\ Verified(m) /\ m.seq >= 0 /\ Holds(dictionary, m)
      /\ Deliver(m, Lookup(dictionary, CidOf[m.chunk])) /\ Reply([t |-> "ACK"])
      /\ UNCHANGED <<dictionary, counts>>
  BY OldestHonest DEF AcceptRef
<1>2. /\ window' \in Windows /\ m.t = "FRAME" /\ request' = << >>
      /\ UNCHANGED <<transfer, client, server, faults>>
  BY <1>1, VerifiedType
<1>3. m.chunk \in Chunks
  <2>1. seq + 1 \in 1 .. Len(input) /\ m.chunk = input[seq + 1]
    BY <1>1, <1>2, InputFacts DEF Honest
  <2> QED
    BY <2>1, InputFacts
<1>4. Lookup(dictionary, CidOf[m.chunk]) = m.chunk
  BY <1>1, <1>3, HoldsIsRight DEF AInv, SoundDictionary
<1>5. Deliver(m, m.chunk)
  BY <1>1, <1>4
<1>6. /\ m.seq = seq
      /\ DOMAIN delivered' = DOMAIN delivered \cup {seq}
      /\ delivered' \in [DOMAIN delivered' -> Chunks] /\ DeliveredRight'
  BY <1>1, <1>2, <1>5, DeliverRight
<1>7. /\ SoundDictionary(dictionary', MaxDictChunks) /\ counts' \in [Counters -> Nat]
      /\ server' \in {"up", "served", "timedOut"}
  BY <1>1, <1>2 DEF AInv, AuthTypeOK
<1> QED
  BY <1>1, <1>2, <1>5, <1>6, <1>7, HandledInvariant

LEMMA QuietInvariant ==
    ASSUME AInv, NEW m \in ToSet(request),
           Refuse(m) \/ AcceptProbe(m) \/ MissRef(m) \/ ServeEnd(m)
    PROVE  AInv' /\ UNCHANGED <<input, delivered, pc>>
<1>1. /\ Honest(m)
      /\ waiting /\ pc \in Sending => m.t = "FRAME" /\ m.seq >= 0
  BY OldestHonest
<1>2. /\ request' = << >> /\ UNCHANGED <<transfer, client, faults, dictionary, delivered>>
      /\ window' \in Windows /\ server' \in {"up", "served", "timedOut"}
      /\ counts' \in [Counters -> Nat]
  <2>1. CASE Refuse(m)
    <3>1. counts' \in [Counters -> Nat]
      <4>1. "replay" \in Counters /\ "auth" \in Counters
        BY DEF Counters
      <4> QED
        BY <2>1, <4>1, CountType DEF Refuse
    <3> QED
      BY <2>1, <3>1 DEF Refuse, RefusedWindow, Handled, AInv, AuthTypeOK
  <2>2. CASE AcceptProbe(m)
    BY <1>1, <2>2, VerifiedType DEF AcceptProbe, AInv, AuthTypeOK
  <2>3. CASE MissRef(m)
    <3>1. counts' \in [Counters -> Nat]
      <4>1. "miss" \in Counters
        BY DEF Counters
      <4> QED
        BY <2>3, <4>1, CountType DEF MissRef
    <3> QED
      BY <1>1, <2>3, <3>1, VerifiedType DEF MissRef, AInv, AuthTypeOK
  <2>4. CASE ServeEnd(m)
    BY <2>4 DEF ServeEnd, AInv, AuthTypeOK
  <2> QED
    BY <2>1, <2>2, <2>3, <2>4
<1>3. PICK r : /\ r.t \in {"ACK", "ERROR", "MISS", "STATS"} /\ Reply(r)
               /\ r.t = "ACK" => m.seq < 0 /\ m.t = "FRAME"
  <2>1. CASE Refuse(m)
    BY <2>1 DEF Refuse
  <2>2. CASE AcceptProbe(m)
    BY <2>2 DEF AcceptProbe, Verified
  <2>3. CASE MissRef(m)
    BY <2>3 DEF MissRef
  <2>4. CASE ServeEnd(m)
    BY <2>4 DEF ServeEnd
  <2> QED
    BY <2>1, <2>2, <2>3, <2>4
<1>4. waiting /\ r.t = "ACK" => pc \notin Sending
  <2>1. m.t = "FRAME" => m.seq \in Int
    BY <1>1 DEF Honest
  <2> QED
    BY <1>1, <1>3, <2>1
<1>5. /\ SoundDictionary(dictionary', MaxDictChunks)
      /\ delivered' \in [DOMAIN delivered' -> Chunks] /\ DeliveredRight'
      /\ DOMAIN delivered \subseteq DOMAIN delivered'
  BY <1>2 DEF AInv, AuthTypeOK, DeliveredRight, transfer
<1>6. AInv'
  BY <1>2, <1>3, <1>4, <1>5, HandledInvariant
<1> QED
  BY <1>2, <1>6 DEF transfer, client

LEMMA IdleInvariant ==
    ASSUME AInv, ServerTimeout \/ UNCHANGED authVars
    PROVE  AInv' /\ UNCHANGED <<input, delivered, pc>>
<1>1. /\ UNCHANGED <<transfer, client, dictionary, window, delivered, counts,
                     request, reply, faults>>
      /\ server' \in {server, "timedOut"}
  BY DEF ServerTimeout, authVars, receiver
<1>2. UNCHANGED <<input, warm, frames, pc, seq, waiting, repairs>>
  BY <1>1 DEF transfer, client
<1>3. AuthTypeOK'
  BY <1>1, <1>2 DEF AInv, AuthTypeOK
<1>4. /\ FramesCoverInput' /\ DeliveredRight' /\ NothingSkipped' /\ Stages'
      /\ RequestRight' /\ ReplyRight'
  BY <1>1, <1>2 DEF AInv, FramesCoverInput, DeliveredRight, NothingSkipped, Stages,
                    RequestRight, ReplyRight, Honest
<1> QED
  BY <1>1, <1>2, <1>3, <1>4 DEF AInv

LEMMA AuthInvariant == AuthSpec => []AInv
<1>1. AuthInit => AInv
  BY InitInvariant
<1>2. AInv /\ [AuthNext]_authVars => AInv'
  <2> SUFFICES ASSUME AInv, [AuthNext]_authVars PROVE AInv'
    OBVIOUS
  <2>1. CASE ClientStep
    BY <2>1, StartInvariant, ExchangeInvariant, ReceiveInvariant DEF ClientStep
  <2>2. CASE Timeout \/ LoseDatagram
    BY <2>2, FaultInvariant
  <2>3. CASE ServerStep
    BY <2>3, FullInvariant, RefInvariant, QuietInvariant DEF ServerStep
  <2>4. CASE ServerTimeout \/ UNCHANGED authVars
    BY <2>4, IdleInvariant
  <2> QED
    BY <2>1, <2>2, <2>3, <2>4 DEF AuthNext
<1> QED
  BY <1>1, <1>2, PTL DEF AuthSpec

\* Type correctness, for any window, probes and faults.
THEOREM AuthTypeCorrect == AuthSpec => []AuthTypeOK
<1>1. AInv => AuthTypeOK
  BY DEF AInv
<1> QED
  BY <1>1, AuthInvariant, PTL

-----------------------------------------------------------------------------
(* The exchange implements a reliable transfer.                            *)

\* What the receiver has, place by place.
LEMMA GotFacts ==
    ASSUME AInv
    PROVE  /\ \A i : i \in DOMAIN Got <=> i - 1 \in DOMAIN delivered /\ i \in Int
           /\ \A i \in DOMAIN Got : Got[i] = input[i]
<1>1. DOMAIN delivered \subseteq Nat
  BY InputFacts DEF AInv, DeliveredRight
<1>2. \A q \in DOMAIN delivered : delivered[q] = input[q + 1]
  BY DEF AInv, DeliveredRight
<1>3. Got = [j \in {q + 1 : q \in DOMAIN delivered} |-> delivered[j - 1]]
  BY DEF Got
<1> QED
  BY <1>1, <1>2, <1>3, ShiftFacts

\* When the client is past the last frame, the server has the whole input.
LEMMA GotAll ==
    ASSUME AInv, seq = Len(frames)
    PROVE  Got = input
<1>1. /\ DOMAIN delivered \subseteq 0 .. seq - 1 /\ seq = Len(input) /\ seq \in Nat
      /\ input \in Seq(Chunks)
  BY InputFacts DEF AInv, DeliveredRight
<1>2. DOMAIN delivered = 0 .. seq - 1
  BY <1>1 DEF AInv, NothingSkipped
<1>3. DOMAIN Got = 1 .. seq
  <2>1. ASSUME NEW i PROVE i \in DOMAIN Got <=> i \in 1 .. seq
    BY <1>1, <1>2, GotFacts
  <2> QED
    BY <2>1
<1>4. DOMAIN input = 1 .. seq /\ input = [i \in 1 .. seq |-> input[i]]
  BY <1>1, LenProperties
<1>5. Got = [i \in DOMAIN Got |-> Got[i]]
  BY DEF Got
<1> QED
  BY <1>3, <1>4, <1>5, GotFacts

\* A step that delivers nothing and leaves the client running, or ended as it
\* was, is a stutter of the transfer.
LEMMA StutterRefines ==
    ASSUME UNCHANGED <<input, delivered>>,
           pc' = pc \/ (pc \notin Ended /\ pc' \notin Ended)
    PROVE  UNCHANGED <<input, Got, Outcome>>
BY DEF Got, Outcome, Ended

\* The end of the client is the end of the transfer.
LEMMA CloseRefines ==
    ASSUME AInv, UNCHANGED <<input, delivered>>, pc \notin Ended, pc' \in Ended,
           pc' = "done" => seq = Len(frames)
    PROVE  Transfer!Next
<1>1. Outcome = "running" /\ UNCHANGED <<input, Got>>
  BY DEF Outcome, Ended, Got
<1>2. CASE pc' = "done"
  <2>1. Outcome' = "done"
    BY <1>2 DEF Outcome
  <2> QED
    BY <1>1, <1>2, <2>1, GotAll DEF Transfer!Next, Transfer!Complete
<1>3. CASE pc' # "done"
  <2>1. Outcome' = "failed"
    BY <1>3 DEF Outcome
  <2> QED
    BY <1>1, <2>1 DEF Transfer!Next, Transfer!Abort
<1> QED
  BY <1>2, <1>3

\* A frame the server accepts fills its place with the input's chunk, unless
\* that is there already.
LEMMA DeliverRefines ==
    ASSUME AInv, AInv', NEW m \in ToSet(request), Honest(m), Verified(m),
           m.seq >= 0, Deliver(m, m.chunk)
    PROVE  [Transfer!Next]_<<input, Got, Outcome>>
<1>1. m.t = "FRAME" /\ UNCHANGED <<transfer, client>>
  BY DEF Verified, Handled
<1>2. /\ seq \in 0 .. Len(frames) - 1
      /\ delivered' = [q \in DOMAIN delivered \cup {seq} |-> input[q + 1]]
      /\ DOMAIN delivered' = DOMAIN delivered \cup {seq}
  BY <1>1, DeliverRight
<1>3. UNCHANGED <<input, pc>> /\ Outcome' = Outcome
  BY <1>1 DEF transfer, client, Outcome
<1>4. CASE seq \in DOMAIN delivered
  <2>1. \A q \in DOMAIN delivered : delivered[q] = input[q + 1]
    BY DEF AInv, DeliveredRight
  <2>2. delivered = [q \in DOMAIN delivered |-> delivered[q]]
    BY DEF AInv, AuthTypeOK
  <2>3. delivered' = delivered
    BY <1>2, <1>4, <2>1, <2>2
  <2> QED
    BY <1>3, <2>3 DEF Got
<1>5. CASE seq \notin DOMAIN delivered
  <2>0. PICK i : i = seq + 1
    OBVIOUS
  <2>1. i \in Int /\ i - 1 = seq /\ seq \in Int /\ i \in DOMAIN input
    BY <1>2, <2>0, InputFacts
  <2>2. i \notin DOMAIN Got
    BY <1>5, <2>1, GotFacts
  <2>3. /\ \A j : j \in DOMAIN Got' <=> j - 1 \in DOMAIN delivered' /\ j \in Int
        /\ \A j \in DOMAIN Got' : Got'[j] = input[j]
    <3>1. DOMAIN delivered' \subseteq Nat
      BY <1>2, InputFacts DEF AInv, DeliveredRight
    <3>2. \A q \in DOMAIN delivered' : delivered'[q] = input[q + 1]
      BY <1>2
    <3>3. Got' = [j \in {q + 1 : q \in DOMAIN delivered'} |-> delivered'[j - 1]]
      BY DEF Got
    <3> QED
      BY <3>1, <3>2, <3>3, ShiftFacts
  <2>4. DOMAIN Got' = DOMAIN Got \cup {i}
    <3>1. ASSUME NEW j PROVE j \in DOMAIN Got' <=> j \in DOMAIN Got \cup {i}
      <4>1. j \in Int => (j - 1 = seq <=> j = i)
        BY <2>1
      <4> QED
        BY <1>2, <2>1, <2>3, <4>1, GotFacts
    <3> QED
      BY <3>1
  <2>5. Got' = [j \in DOMAIN Got \cup {i} |-> input[j]]
    <3>1. Got' = [j \in DOMAIN Got' |-> Got'[j]]
      BY DEF Got
    <3> QED
      BY <2>3, <2>4, <3>1
  <2> QED
    BY <1>3, <2>1, <2>2, <2>5 DEF Transfer!Next, Transfer!Deliver, Transfer!Filled
<1> QED
  BY <1>4, <1>5

LEMMA AuthStepRefines ==
    ASSUME AInv, AInv', [AuthNext]_authVars
    PROVE  [Transfer!Next]_<<input, Got, Outcome>>
<1>1. CASE Start \/ Exchange \/ ReceiveProbeReply \/ ReceiveAck \/ ReceiveMiss
           \/ ReceiveError \/ ReceiveStats \/ Timeout \/ LoseDatagram
  <2>1. UNCHANGED <<input, delivered>>
    BY <1>1 DEF Start, Exchange, ReceiveProbeReply, ReceiveAck, ReceiveMiss,
                ReceiveError, ReceiveStats, Timeout, LoseDatagram, Proceed, transfer,
                receiver
  <2>2. pc' = pc \/ pc \notin Ended
    <3>1. waiting => pc \notin Ended
      BY DEF AInv, Stages
    <3> QED
      BY <1>1, <3>1 DEF Start, Exchange, ReceiveProbeReply, ReceiveAck, ReceiveMiss,
                        ReceiveError, ReceiveStats, Replied, Timeout, LoseDatagram,
                        client, Ended
  <2>3. pc' = "done" => pc' = pc \/ seq = Len(frames)
    BY <1>1 DEF Start, FirstStage, AfterTamper, Exchange, ReceiveProbeReply,
                ReceiveAck, ReceiveMiss, ReceiveError, ReceiveStats, Proceed, Timeout,
                LoseDatagram, client, AInv, Stages
  <2>4. CASE pc' = pc \/ pc' \notin Ended
    BY <2>1, <2>2, <2>4, StutterRefines
  <2>5. CASE pc' # pc /\ pc' \in Ended
    BY <2>1, <2>2, <2>3, <2>5, CloseRefines
  <2> QED
    BY <2>4, <2>5
<1>2. CASE ServerStep
  <2>1. PICK m \in ToSet(request) :
            \/ Refuse(m) \/ AcceptProbe(m)
            \/ AcceptFull(m) \/ AcceptRef(m) \/ MissRef(m)
            \/ ServeEnd(m)
    BY <1>2 DEF ServerStep
  <2>2. CASE AcceptFull(m) \/ AcceptRef(m)
    BY <2>2, OldestHonest, RefInvariant, DeliverRefines DEF AcceptFull, AcceptRef
  <2>3. CASE Refuse(m) \/ AcceptProbe(m) \/ MissRef(m) \/ ServeEnd(m)
    BY <2>3, QuietInvariant, StutterRefines
  <2> QED
    BY <2>1, <2>2, <2>3
<1>3. CASE ServerTimeout \/ UNCHANGED authVars
  BY <1>3, IdleInvariant, StutterRefines
<1> QED
  BY <1>1, <1>2, <1>3 DEF AuthNext, ClientStep

\* With probes or without, the server only ever gets the right chunks at their
\* places, and the client reports success only when all are there.
THEOREM AuthIsReliableTransfer == AuthSpec => ImplementsTransfer
<1>1. AuthInit => Transfer!Init
  <2> SUFFICES ASSUME AuthInit PROVE Transfer!Init
    OBVIOUS
  <2>1. delivered = << >> /\ pc = "start"
    BY DEF AuthInit
  <2>2. Outcome = "running"
    BY <2>1 DEF Outcome, Ended
  <2>3. DOMAIN delivered = {}
    BY <2>1
  <2>4. {q + 1 : q \in DOMAIN delivered} = {}
    BY <2>3
  <2>5. Got = << >>
    BY <2>4 DEF Got
  <2> QED
    BY <2>2, <2>5 DEF Transfer!Init
<1>2. AInv /\ AInv' /\ [AuthNext]_authVars
        => [Transfer!Next]_<<input, Got, Outcome>>
  BY AuthStepRefines
<1> QED
  BY <1>1, <1>2, AuthInvariant, PTL DEF AuthSpec, Transfer!Spec, ImplementsTransfer

-----------------------------------------------------------------------------
(* What the two ends have said to each other.                              *)

\* The places of the frames, and what their REFs stand for.
FramesPlaced ==
    \A i \in 1 .. Len(input) :
        /\ frames[i].offset = (i - 1) * ChunkSize
        /\ frames[i].kind = "REF" =>
              \/ CidOf[input[i]] \in Keys(warm)
              \/ \E j \in 1 .. i - 1 : CidOf[input[j]] = CidOf[input[i]]

\* As long as there is room, whatever was delivered is still held.
HoldsDelivered ==
    Len(dictionary) < MaxDictChunks =>
        \A q \in DOMAIN delivered : CidOf[delivered[q]] \in Keys(dictionary)

\* The answers there are to what the client sends at its stage.
Answers ==
    CASE pc \in {"tamper", "replay"} -> {"ERROR"}
      [] pc = "probe" -> {"ACK"}
      [] pc = "frame" -> {"ACK", "MISS", "ERROR"}
      [] pc = "repair" -> {"ACK", "ERROR"}
      [] pc = "end" -> {"STATS"}

\* The server is there for what the client sends, and hears nothing else from
\* a client that has not given up on it.
Talk ==
    /\ waiting /\ request # << >> => request = <<Message>>
    /\ reply # << >> => reply = <<reply[1]>> /\ reply[1].t \in Answers
    /\ pc \in Ended /\ request # << >> => pc = "timedOut"
    /\ pc \notin Ended /\ (waiting => pc # "end") => server = "up"
    /\ pc = "tamper" => "tamper" \in probes
    /\ pc \in {"probe", "replay"} => "replay" \in probes
    /\ repairs <= seq

\* Nothing was lost or refused, so the client and the server know of each other.
InStep ==
    /\ pc \notin Ended \ {"done"}
    /\ waiting => ~ Lost
    /\ pc \in Sending => ~ Replied({"ERROR"})

TamperDone == pc # "start" /\ (pc = "tamper" => reply # << >>)

ProbeDone == pc \notin {"start", "tamper"} /\ (pc = "probe" => reply # << >>)

ReplayDone ==
    pc \notin {"start", "tamper", "probe"} /\ (pc = "replay" => reply # << >>)

\* What the server has counted.
Tally ==
    InStep =>
        /\ counts["auth"] = IF "tamper" \in probes /\ TamperDone THEN 1 ELSE 0
        /\ counts["replay"] = IF "replay" \in probes /\ ReplayDone THEN 1 ELSE 0
        /\ counts["miss"] = IF pc = "repair" \/ (pc = "frame" /\ Replied({"MISS"}))
                            THEN repairs + 1 ELSE repairs
        /\ counts["repair"] = IF pc = "repair" /\ Replied({"ACK"})
                              THEN repairs + 1 ELSE repairs

\* The nonces that the server can have seen: those of the frames and repairs
\* behind the client, the probe's, and those of the frame it is at.
Used(n) ==
    \/ n = 0 \/ n \in 1 .. seq
    \/ n \in Len(frames) + 1 .. Len(frames) + repairs
    \/ "replay" \in probes /\ n = ProbeNonce
    \/ pc = "frame" /\ reply # << >> /\ n = seq + 1
    \/ pc = "repair" /\ (n = seq + 1 \/ (reply # << >> /\ n = RepairNonce))

WindowKnows ==
    InStep =>
        /\ ~ ProbeDone => window = EmptyWindow
        /\ "replay" \in probes /\ ProbeDone /\ pc \in Probing =>
              ProbeNonce \in window.seen
        /\ \A n \in window.seen \cup {window.highest} : Used(n)

\* Why an honest frame may be refused.
Pushed ==
    \/ /\ "replay" \in probes
       /\ ProbeNonce > WindowSize \/ RepairNonce = ProbeNonce
    \/ repairs > 0 /\ Len(frames) > WindowSize

Causes ==
    /\ pc \in Sending /\ Replied({"ERROR"}) => Pushed
    /\ pc = "refused" => Pushed
    /\ waiting /\ Lost => faults > 0
    /\ pc = "timedOut" => faults > 0
    /\ pc = "noRepair" => Len(dictionary) = MaxDictChunks
    /\ pc = "frame" /\ Replied({"MISS"}) =>
          frames[seq + 1].kind = "REF" /\ ~ Holds(dictionary, frames[seq + 1])

TalkInv ==
    /\ FramesPlaced
    /\ HoldsDelivered
    /\ Talk
    /\ Tally
    /\ WindowKnows
    /\ Causes

\* Numbers and frames, as the provers need them.
LEMMA AuthFacts ==
    ASSUME AInv
    PROVE  /\ Len(frames) \in Nat /\ seq \in Nat /\ seq <= Len(frames) /\ repairs \in Nat
           /\ RepairNonce = Len(frames) + 1 + repairs
           /\ ProbeNonce \in Nat /\ ProbeNonce > Len(frames)
           /\ ChunkSize \in Nat /\ WindowSize \in Nat \ {0}
           /\ window \in Windows
           /\ \A x \in Counters : counts[x] \in Nat
           /\ faults \in Nat
<1>1. /\ Len(frames) \in Nat /\ seq \in Nat /\ seq <= Len(frames)
  BY InputFacts
<1>2. ProbeGap \in Nat \ {0} /\ ChunkSize \in Nat /\ WindowSize \in Nat \ {0}
      /\ MaxFaults \in Nat
  BY AuthAssumption
<1>3. faults \in Nat
  BY <1>2 DEF AInv, AuthTypeOK
<1>4. repairs \in Nat /\ window \in Windows /\ counts \in [Counters -> Nat]
  BY DEF AInv, AuthTypeOK
<1>5. \A x \in Counters : counts[x] \in Nat
  BY <1>4
<1>6. RepairNonce = Len(frames) + 1 + repairs
  BY DEF RepairNonce
<1>7. ProbeNonce \in Nat /\ ProbeNonce > Len(frames)
  BY <1>1, <1>2 DEF ProbeNonce
<1> QED
  BY <1>1, <1>2, <1>3, <1>4, <1>5, <1>6, <1>7

\* What the client sends in each of its stages.
LEMMA Messages ==
    ASSUME AInv, FramesPlaced
    PROVE  /\ pc = "tamper" => Message.t = "FRAME" /\ ~ Genuine(Message)
           /\ pc \in {"probe", "replay"} =>
                /\ Message.t = "FRAME" /\ Genuine(Message)
                /\ Message.seq = -99 /\ Message.nonce = ProbeNonce
           /\ pc \in Sending =>
                /\ Message.t = "FRAME" /\ Genuine(Message) /\ Message.seq = seq
                /\ Message.chunk = input[seq + 1] /\ seq + 1 \in 1 .. Len(input)
           /\ pc = "frame" =>
                /\ Message.repair = FALSE /\ Message.kind = frames[seq + 1].kind
                /\ Message.nonce = seq + 1
           /\ pc = "repair" =>
                /\ Message.repair = TRUE /\ Message.kind = "FULL"
                /\ Message.nonce = RepairNonce
           /\ pc = "end" => Message.t = "END"
<1> USE DEF Sending
<1>1. ASSUME pc = "tamper" PROVE Message.t = "FRAME" /\ ~ Genuine(Message)
  <2>1. 1 \in 1 .. Len(input)
    BY <1>1, InputFacts DEF AInv, Stages, Probing
  <2>2. Message = Framed([frames[1] EXCEPT !.genuine = FALSE], -100, FALSE)
    BY <1>1 DEF Message
  <2>3. [frames[1] EXCEPT !.genuine = FALSE].genuine = FALSE
    BY <2>1 DEF AInv, FramesCoverInput
  <2> QED
    BY <2>2, <2>3 DEF Framed, Genuine
<1>2. ASSUME pc \in {"probe", "replay"}
      PROVE  /\ Message.t = "FRAME" /\ Genuine(Message)
             /\ Message.seq = -99 /\ Message.nonce = ProbeNonce
  <2>1. 1 \in 1 .. Len(input)
    BY <1>2, InputFacts DEF AInv, Stages, Probing
  <2>2. Message = Framed([frames[1] EXCEPT !.nonce = ProbeNonce], -99, FALSE)
    BY <1>2 DEF Message
  <2>3. /\ [frames[1] EXCEPT !.nonce = ProbeNonce].genuine = TRUE
        /\ [frames[1] EXCEPT !.nonce = ProbeNonce].nonce = ProbeNonce
    <3>1. frames[1] = [kind |-> frames[1].kind, chunk |-> input[1], nonce |-> 1,
                       offset |-> frames[1].offset, genuine |-> TRUE]
      BY <2>1 DEF AInv, FramesCoverInput
    <3> QED
      BY <3>1
  <2>4. /\ Message.t = "FRAME" /\ Message.genuine = TRUE
        /\ Message.seq = -99 /\ Message.nonce = ProbeNonce
    BY <2>2, <2>3 DEF Framed
  <2> QED
    BY <2>4 DEF Genuine
<1>3. ASSUME pc \in Sending
      PROVE  /\ seq + 1 \in 1 .. Len(input) /\ seq \in Nat
             /\ frames[seq + 1] = [kind |-> frames[seq + 1].kind, chunk |-> input[seq + 1],
                                   nonce |-> seq + 1, offset |-> seq * ChunkSize,
                                   genuine |-> TRUE]
  <2>1. seq + 1 \in 1 .. Len(input) /\ seq \in Nat
    BY <1>3, InputFacts DEF AInv, Stages
  <2>2. frames[seq + 1].offset = ((seq + 1) - 1) * ChunkSize
    BY <2>1 DEF FramesPlaced
  <2>3. (seq + 1) - 1 = seq
    BY <2>1
  <2>4. frames[seq + 1] = [kind |-> frames[seq + 1].kind, chunk |-> input[seq + 1],
                           nonce |-> seq + 1, offset |-> frames[seq + 1].offset,
                           genuine |-> TRUE]
    BY <2>1 DEF AInv, FramesCoverInput
  <2> QED
    BY <2>1, <2>2, <2>3, <2>4, Zenon
<1>4. ASSUME pc = "frame"
      PROVE  /\ Message.t = "FRAME" /\ Genuine(Message) /\ Message.seq = seq
             /\ Message.chunk = input[seq + 1]
             /\ Message.repair = FALSE /\ Message.kind = frames[seq + 1].kind
             /\ Message.nonce = seq + 1
  <2>1. Message = Framed(frames[seq + 1], seq, FALSE)
    BY <1>4 DEF Message
  <2>2. /\ Message.t = "FRAME" /\ Message.genuine = TRUE /\ Message.seq = seq
        /\ Message.offset = seq * ChunkSize /\ Message.chunk = input[seq + 1]
        /\ Message.repair = FALSE /\ Message.kind = frames[seq + 1].kind
        /\ Message.nonce = seq + 1
    BY <1>3, <1>4, <2>1 DEF Framed
  <2> QED
    BY <2>2 DEF Genuine
<1>5. ASSUME pc = "repair"
      PROVE  /\ Message.t = "FRAME" /\ Genuine(Message) /\ Message.seq = seq
             /\ Message.chunk = input[seq + 1]
             /\ Message.repair = TRUE /\ Message.kind = "FULL"
             /\ Message.nonce = RepairNonce
  <2>1. Message = Framed(FullRepair, seq, TRUE)
    BY <1>5 DEF Message
  <2>2. /\ FullRepair.genuine = TRUE /\ FullRepair.offset = seq * ChunkSize
        /\ FullRepair.chunk = input[seq + 1] /\ FullRepair.kind = "FULL"
        /\ FullRepair.nonce = RepairNonce
    BY <1>3, <1>5 DEF FullRepair
  <2>3. /\ Message.t = "FRAME" /\ Message.genuine = TRUE /\ Message.seq = seq
        /\ Message.offset = seq * ChunkSize /\ Message.chunk = input[seq + 1]
        /\ Message.repair = TRUE /\ Message.kind = "FULL"
        /\ Message.nonce = RepairNonce
    BY <2>1, <2>2 DEF Framed
  <2> QED
    BY <2>3 DEF Genuine
<1>6. pc = "end" => Message.t = "END"
  <2>1. pc = "end" => Message = [t |-> "END"]
    BY DEF Message
  <2> QED
    BY <2>1
<1>7. pc \in Sending =>
        /\ Message.t = "FRAME" /\ Genuine(Message) /\ Message.seq = seq
        /\ Message.chunk = input[seq + 1] /\ seq + 1 \in 1 .. Len(input)
  BY <1>3, <1>4, <1>5
<1> QED
  BY <1>1, <1>2, <1>4, <1>5, <1>6, <1>7, Zenon

\* What the client would send does not change before it is answered.
LEMMA MessageStays ==
    ASSUME UNCHANGED <<transfer, pc, seq, repairs>>
    PROVE  Message' = Message /\ UNCHANGED <<ProbeNonce, RepairNonce>>
BY DEF Message, Framed, FullRepair, ProbeNonce, RepairNonce, transfer

\* What the server knows when nothing has been said.
LEMMA TalkInitInvariant ==
    ASSUME AuthInit
    PROVE  TalkInv
<1>1. /\ input \in Seq(Chunks) /\ Len(input) \in Nat
      /\ frames = SecurelyEncoded(input, warm)
      /\ \A j \in 1 .. Len(input) - 1 : LengthOf[input[j]] = ChunkSize
      /\ ChunkSize \in Nat
  BY InputsAssumption, FixedChunksAssumption, AuthAssumption, LenProperties DEF AuthInit
<1>2. SoundDictionary(warm, MaxDictChunks)
  BY CapacityAssumption, WarmSound DEF AuthInit
<1>3. ASSUME NEW i \in 1 .. Len(input)
      PROVE  /\ frames[i].kind = Encoded(input, warm)[i].kind
             /\ frames[i].offset = (i - 1) * ChunkSize
  <2>1. /\ SecurelyEncoded(input, warm)[i].kind = Encoded(input, warm)[i].kind
        /\ SecurelyEncoded(input, warm)[i].offset = (i - 1) * ChunkSize
    BY <1>1, <1>2, SecurelyEncodedPlaces DEF SoundDictionary
  <2> QED
    BY <1>1, <2>1
<1>4. FramesPlaced
  BY <1>1, <1>2, <1>3, EncodedRefers DEF FramesPlaced
<1>5. HoldsDelivered
  <2>1. DOMAIN delivered = {}
    BY DEF AuthInit
  <2> QED
    BY <2>1 DEF HoldsDelivered
<1>6. /\ pc = "start" /\ seq = 0 /\ ~ waiting /\ repairs = 0 /\ server = "up"
      /\ request = << >> /\ reply = << >> /\ window = EmptyWindow
      /\ counts = [x \in Counters |-> 0]
  BY DEF AuthInit
<1>7. Talk
  BY <1>6 DEF Talk, Ended
<1>8. Tally
  <2>1. \A x \in {"auth", "replay", "miss", "repair"} : counts[x] = 0
    BY <1>6 DEF Counters
  <2> QED
    BY <1>6, <2>1 DEF Tally, TamperDone, ReplayDone
<1>9. WindowKnows
  BY <1>6 DEF WindowKnows, ProbeDone, EmptyWindow, Used
<1>10. Causes
  BY <1>6 DEF Causes, Sending
<1> QED
  BY <1>4, <1>5, <1>7, <1>8, <1>9, <1>10 DEF TalkInv

\* Steps that deliver nothing leave what is said of the frames and of the
\* dictionary.
LEMMA HoldStays ==
    ASSUME TalkInv, UNCHANGED <<input, warm, frames, dictionary, delivered>>
    PROVE  FramesPlaced' /\ HoldsDelivered'
BY DEF TalkInv, FramesPlaced, HoldsDelivered

\* Nothing is said of a client that has given up but what it has met.
LEMMA GivenUp ==
    ASSUME TalkInv, FramesPlaced', HoldsDelivered', pc' = "timedOut", faults' > 0,
           reply' = << >>, ~ waiting', UNCHANGED <<seq, repairs>>
    PROVE  TalkInv'
<1>1. ~ InStep'
  BY DEF InStep, Ended
<1>2. Talk'
  BY DEF TalkInv, Talk, Ended
<1>3. Tally' /\ WindowKnows'
  BY <1>1 DEF Tally, WindowKnows
<1>4. Causes'
  BY DEF Causes, Sending
<1> QED
  BY <1>2, <1>3, <1>4 DEF TalkInv

\* Before the client starts, nothing is counted and no nonce used.
LEMMA StartTalks ==
    ASSUME AInv, TalkInv, Start
    PROVE  TalkInv'
<1>1. UNCHANGED <<transfer, seq, waiting, repairs, receiver, request, reply, faults>>
      /\ pc = "start" /\ seq = 0 /\ ~ waiting /\ waiting' = waiting
      /\ pc' = IF frames = << >> THEN "noFrames" ELSE FirstStage
  BY DEF Start, AInv, Stages
<1>2. UNCHANGED <<input, warm, frames, probes, dictionary, delivered, window, counts,
                  server>>
  BY <1>1 DEF transfer, receiver
<1>3. request = << >> /\ reply = << >>
  BY <1>1 DEF AInv, RequestRight, ReplyRight, Ended
<1>4. \/ pc' = "noFrames"
      \/ pc' = "tamper" /\ "tamper" \in probes
      \/ pc' = "probe" /\ "tamper" \notin probes /\ "replay" \in probes
      \/ pc' = "frame" /\ "tamper" \notin probes /\ "replay" \notin probes
  BY <1>1 DEF FirstStage, AfterTamper
<1>5. InStep /\ server = "up" /\ repairs = 0
  BY <1>1, AuthFacts DEF InStep, Ended, Sending, TalkInv, Talk
<1>6. Talk'
  BY <1>1, <1>2, <1>3, <1>4, <1>5 DEF Talk, Ended
<1>7. Tally'
  <2>1. /\ counts["auth"] = 0 /\ counts["replay"] = 0
        /\ counts["miss"] = 0 /\ counts["repair"] = 0
    BY <1>1, <1>5 DEF TalkInv, Tally, TamperDone, ReplayDone
  <2>2. pc' # "noFrames" => counts'["auth"] = IF "tamper" \in probes' /\ TamperDone' THEN 1 ELSE 0
    BY <1>1, <1>2, <1>3, <1>4, <2>1 DEF TamperDone
  <2>3. pc' # "noFrames" => counts'["replay"] = IF "replay" \in probes' /\ ReplayDone' THEN 1 ELSE 0
    BY <1>1, <1>2, <1>3, <1>4, <2>1 DEF ReplayDone
  <2>4. pc' = "noFrames" => ~ InStep'
    BY DEF InStep, Ended
  <2> QED
    BY <1>1, <1>2, <1>3, <1>4, <1>5, <2>1, <2>2, <2>3, <2>4 DEF Tally, Replied
<1>8. WindowKnows'
  <2>1. window' = EmptyWindow
    BY <1>1, <1>2, <1>5 DEF TalkInv, WindowKnows, ProbeDone
  <2>2. window'.seen \cup {window'.highest} = {0}
    BY <2>1 DEF EmptyWindow
  <2>3. "replay" \in probes' /\ ProbeDone' /\ pc' # "noFrames" => FALSE
    BY <1>1, <1>2, <1>3, <1>4 DEF ProbeDone
  <2> QED
    BY <2>1, <2>2, <2>3 DEF WindowKnows, Used, Probing
<1>9. Causes'
  BY <1>1, <1>2, <1>3, <1>4 DEF Causes, Sending, Replied
<1> QED
  BY <1>2, <1>6, <1>7, <1>8, <1>9, HoldStays DEF TalkInv

\* A server that is up hears what is sent.
LEMMA ExchangeTalks ==
    ASSUME AInv, TalkInv, Exchange
    PROVE  TalkInv'
<1>1. /\ UNCHANGED <<transfer, pc, seq, repairs, receiver, reply, faults>>
      /\ pc \notin Ended \cup {"start"} /\ ~ waiting /\ waiting' = TRUE
      /\ request' = IF server = "up" THEN <<Message>> ELSE << >>
  BY DEF Exchange
<1>2. UNCHANGED <<input, warm, frames, probes, dictionary, delivered, window, counts,
                  server>>
  BY <1>1 DEF transfer, receiver
<1>3. server = "up" /\ request' = <<Message>> /\ reply = << >> /\ request' # << >>
  BY <1>1 DEF TalkInv, Talk, AInv, ReplyRight
<1>4. /\ Message' = Message /\ ProbeNonce' = ProbeNonce /\ RepairNonce' = RepairNonce
  BY <1>1, MessageStays
<1>5. InStep
  BY <1>1 DEF InStep, Replied
<1>6. Talk'
  BY <1>1, <1>2, <1>3, <1>4 DEF TalkInv, Talk
<1>7. Tally'
  BY <1>1, <1>2, <1>3, <1>5 DEF TalkInv, Tally, TamperDone, ReplayDone, Replied
<1>8. WindowKnows'
  BY <1>1, <1>2, <1>3, <1>4, <1>5 DEF TalkInv, WindowKnows, ProbeDone, Used
<1>9. Causes'
  BY <1>1, <1>3 DEF Causes, Replied, Lost, Ended
<1> QED
  BY <1>2, <1>6, <1>7, <1>8, <1>9, HoldStays DEF TalkInv

\* A client that has lost its datagram can only give up.
LEMMA FaultTalks ==
    ASSUME AInv, TalkInv, Timeout \/ LoseDatagram
    PROVE  TalkInv'
<1>1. UNCHANGED <<transfer, seq, repairs, receiver>> /\ reply' = << >>
  BY DEF Timeout, LoseDatagram, client
<1>2. UNCHANGED <<input, warm, frames, dictionary, delivered>>
  BY <1>1 DEF transfer, receiver
<1>3. FramesPlaced' /\ HoldsDelivered'
  BY <1>2, HoldStays
<1>4. CASE Timeout
  <2>1. pc' = "timedOut" /\ ~ waiting' /\ waiting
    BY <1>4 DEF Timeout
  <2>2. faults' > 0
    BY <1>4, <2>1, AuthFacts DEF Timeout, TalkInv, Causes
  <2> QED
    BY <1>1, <1>3, <2>1, <2>2, GivenUp
<1>5. CASE LoseDatagram
  <2>1. ~ Lost /\ request' = << >> /\ UNCHANGED <<pc, waiting, server, probes>>
        /\ faults' = faults + 1
    BY <1>1, <1>5 DEF LoseDatagram, client, receiver, transfer
  <2>2. faults' > 0
    BY <2>1, AuthFacts
  <2>3. CASE pc \in Ended
    <3>1. ~ waiting /\ request # << >>
      BY <2>1, <2>3 DEF AInv, Stages, ReplyRight, Lost
    <3>2. pc' = "timedOut" /\ ~ waiting'
      BY <2>1, <2>3, <3>1 DEF TalkInv, Talk
    <3> QED
      BY <1>1, <1>3, <2>2, <3>2, GivenUp
  <2>4. CASE pc \notin Ended
    <3>1. waiting
      BY <2>1, <2>4 DEF AInv, RequestRight, ReplyRight, Lost
    <3>2. Lost' /\ waiting'
      BY <1>1, <2>1, <3>1 DEF Lost
    <3>3. ~ InStep'
      BY <3>2 DEF InStep
    <3>4. Talk'
      BY <1>1, <2>1, <2>4 DEF TalkInv, Talk
    <3>5. Causes'
      BY <1>1, <2>1, <2>2, <2>4 DEF Causes, Replied, Ended
    <3> QED
      BY <1>3, <3>3, <3>4, <3>5 DEF TalkInv, Tally, WindowKnows
  <2> QED
    BY <2>3, <2>4
<1> QED
  BY <1>4, <1>5

\* The server leaves only a client that has ended.
LEMMA IdleTalks ==
    ASSUME AInv, TalkInv, ServerTimeout \/ UNCHANGED authVars
    PROVE  TalkInv'
<1>1. /\ UNCHANGED <<transfer, client, dictionary, window, delivered, counts,
                     request, reply, faults>>
      /\ server' = server \/ pc \in Ended
  BY DEF ServerTimeout, authVars, receiver, ServerPatience
<1>2. UNCHANGED <<input, warm, frames, probes, pc, seq, waiting, repairs, dictionary,
                  window, delivered, counts, request, reply, faults>>
  BY <1>1 DEF transfer, client
<1>3. /\ Message' = Message /\ ProbeNonce' = ProbeNonce /\ RepairNonce' = RepairNonce
  BY <1>1, <1>2, MessageStays
<1>4. InStep' = InStep
  BY <1>2 DEF InStep, Lost, Replied
<1>5. Talk'
  BY <1>1, <1>2, <1>3 DEF TalkInv, Talk, Answers
<1>6. Tally'
  BY <1>2, <1>4 DEF TalkInv, Tally, TamperDone, ReplayDone, Replied
<1>7. WindowKnows'
  BY <1>2, <1>3, <1>4 DEF TalkInv, WindowKnows, ProbeDone, Used
<1>8. Causes'
  <2>1. Pushed' = Pushed
    BY <1>2, <1>3 DEF Pushed
  <2> QED
    BY <1>2, <2>1 DEF TalkInv, Causes, Replied, Lost, Holds
<1> QED
  BY <1>2, <1>5, <1>6, <1>7, <1>8, HoldStays DEF TalkInv

\* The answer the client takes leaves nothing under way, and the server as it
\* is.
LEMMA ProceedFacts ==
    ASSUME AInv, TalkInv, NEW stage, NEW ts, Replied(ts), Proceed(stage)
    PROVE  /\ UNCHANGED <<input, warm, frames, probes, dictionary, delivered, window,
                          counts, server, faults, ProbeNonce>>
           /\ pc' = stage /\ ~ waiting' /\ reply' = << >> /\ request' = << >>
           /\ waiting /\ reply # << >> /\ reply[1].t \in ts /\ pc \notin Ended
           /\ (pc # "end" => server = "up") /\ repairs <= seq
           /\ InStep \/ (pc \in Sending /\ reply[1].t = "ERROR")
           /\ FramesPlaced' /\ HoldsDelivered'
<1>1. UNCHANGED <<input, warm, frames, probes, dictionary, delivered, window,
                  counts, server, request, faults>>
      /\ pc' = stage /\ ~ waiting' /\ reply' = << >>
  BY DEF Proceed, transfer, receiver
<1>2. waiting /\ reply # << >> /\ reply[1].t \in ts
  BY DEF Replied
<1>3. request = << >> /\ pc \notin Ended
  BY <1>2 DEF AInv, ReplyRight, Stages
<1>4. (pc # "end" => server = "up") /\ repairs <= seq
  BY <1>2, <1>3 DEF TalkInv, Talk
<1>5. InStep \/ (pc \in Sending /\ reply[1].t = "ERROR")
  BY <1>2, <1>3 DEF InStep, Lost, Replied
<1> QED
  BY <1>1, <1>2, <1>3, <1>4, <1>5, HoldStays DEF ProbeNonce

\* What a probe is answered moves the client on.
LEMMA ReceiveProbeReplyTalks ==
    ASSUME AInv, TalkInv, ReceiveProbeReply
    PROVE  TalkInv'
<1> DEFINE stage == CASE pc = "tamper" -> AfterTamper
                      [] pc = "probe"  -> "replay"
                      [] pc = "replay" -> "frame"
<1>1. /\ pc \in Probing /\ Replied({"ACK", "ERROR"}) /\ Proceed(stage)
      /\ UNCHANGED <<seq, repairs>>
  BY DEF ReceiveProbeReply, Probing
<1>2. /\ UNCHANGED <<input, warm, frames, probes, dictionary, delivered, window,
                     counts, server, faults, ProbeNonce>>
      /\ pc' = stage /\ ~ waiting' /\ reply' = << >> /\ request' = << >>
      /\ waiting /\ reply # << >> /\ InStep /\ server = "up" /\ repairs <= seq
      /\ FramesPlaced' /\ HoldsDelivered'
  BY <1>1, ProceedFacts DEF Probing, Sending
<1>3. /\ pc = "tamper" => "tamper" \in probes
      /\ pc \in {"probe", "replay"} => "replay" \in probes
  BY DEF TalkInv, Talk
<1>4. \/ pc = "tamper" /\ pc' = "probe" /\ "replay" \in probes
      \/ pc = "tamper" /\ pc' = "frame" /\ "replay" \notin probes
      \/ pc = "probe" /\ pc' = "replay" /\ "replay" \in probes
      \/ pc = "replay" /\ pc' = "frame" /\ "replay" \in probes
  BY <1>1, <1>2, <1>3 DEF Probing, AfterTamper
<1> HIDE DEF stage
<1>5. Talk'
  BY <1>1, <1>2, <1>4 DEF Talk, Ended
<1>6. Tally'
  <2>1. counts'["auth"] = IF "tamper" \in probes' /\ TamperDone' THEN 1 ELSE 0
    BY <1>2, <1>3, <1>4 DEF TalkInv, Tally, TamperDone
  <2>2. counts'["replay"] = IF "replay" \in probes' /\ ReplayDone' THEN 1 ELSE 0
    BY <1>2, <1>4 DEF TalkInv, Tally, ReplayDone
  <2>3. counts'["miss"] = repairs /\ counts'["repair"] = repairs
    BY <1>2, <1>4 DEF TalkInv, Tally
  <2> QED
    BY <1>1, <1>2, <1>4, <2>1, <2>2, <2>3 DEF Tally, Replied
<1>7. WindowKnows'
  <2>1. /\ ProbeDone' => ProbeDone \/ "replay" \notin probes
        /\ ProbeDone => ProbeDone'
    BY <1>2, <1>4 DEF ProbeDone
  <2>2. ~ ProbeDone' => window' = EmptyWindow
    BY <1>2, <2>1 DEF TalkInv, WindowKnows
  <2>3. "replay" \in probes' /\ ProbeDone' => ProbeNonce' \in window'.seen
    BY <1>1, <1>2, <2>1 DEF TalkInv, WindowKnows
  <2>4. \A n \in window'.seen \cup {window'.highest} : Used(n)'
    BY <1>1, <1>2, <1>4 DEF TalkInv, WindowKnows, Used
  <2> QED
    BY <2>2, <2>3, <2>4 DEF WindowKnows
<1>8. Causes'
  BY <1>2, <1>4 DEF Causes, Sending, Replied
<1> QED
  BY <1>2, <1>5, <1>6, <1>7, <1>8 DEF TalkInv

\* An ACK brings the client to its next frame, and what was repaired is one
\* more.
LEMMA ReceiveAckTalks ==
    ASSUME AInv, TalkInv, ReceiveAck
    PROVE  TalkInv'
<1> DEFINE stage == IF seq + 1 = Len(frames) THEN "end" ELSE "frame"
<1>1. /\ pc \in Sending /\ Replied({"ACK"}) /\ Proceed(stage)
      /\ seq' = seq + 1
      /\ repairs' = IF pc = "repair" THEN repairs + 1 ELSE repairs
  BY DEF ReceiveAck, Sending
<1>2. /\ UNCHANGED <<input, warm, frames, probes, dictionary, delivered, window,
                     counts, server, faults, ProbeNonce>>
      /\ pc' = stage /\ ~ waiting' /\ reply' = << >> /\ request' = << >>
      /\ waiting /\ reply # << >> /\ reply[1].t = "ACK" /\ InStep /\ server = "up"
      /\ repairs <= seq /\ FramesPlaced' /\ HoldsDelivered'
  BY <1>1, ProceedFacts DEF Sending
<1>3. pc' \in {"end", "frame"} /\ pc \in {"frame", "repair"}
  BY <1>1, <1>2 DEF Sending
<1> HIDE DEF stage
<1>4. seq \in Nat /\ repairs \in Nat /\ Len(frames) \in Nat /\ repairs' <= seq'
  BY <1>1, <1>2, AuthFacts
<1>5. Talk'
  BY <1>1, <1>2, <1>3, <1>4 DEF Talk, Ended
<1>6. Tally'
  <2>1. counts'["auth"] = IF "tamper" \in probes' /\ TamperDone' THEN 1 ELSE 0
    BY <1>2, <1>3 DEF TalkInv, Tally, TamperDone
  <2>2. counts'["replay"] = IF "replay" \in probes' /\ ReplayDone' THEN 1 ELSE 0
    BY <1>2, <1>3 DEF TalkInv, Tally, ReplayDone
  <2>3. counts'["miss"] = repairs' /\ counts'["repair"] = repairs'
    BY <1>1, <1>2, <1>3 DEF TalkInv, Tally, Replied
  <2> QED
    BY <1>2, <1>3, <2>1, <2>2, <2>3 DEF Tally, Replied
<1>7. WindowKnows'
  <2>1. ProbeDone' /\ pc' \notin Probing
    BY <1>3 DEF ProbeDone, Probing
  <2>2. ASSUME NEW n, Used(n) PROVE Used(n)'
    <3>1. \/ n = 0 \/ n \in 1 .. seq \/ n \in Len(frames) + 1 .. Len(frames) + repairs
          \/ "replay" \in probes /\ n = ProbeNonce
          \/ n = seq + 1
          \/ pc = "repair" /\ n = Len(frames) + 1 + repairs
      BY <2>2, AuthFacts DEF Used
    <3>2. \/ n = 0 \/ n \in 1 .. seq' \/ n \in Len(frames) + 1 .. Len(frames) + repairs'
          \/ "replay" \in probes /\ n = ProbeNonce
      BY <1>1, <1>4, <3>1
    <3> QED
      BY <1>2, <3>2 DEF Used
  <2> QED
    BY <1>2, <2>1, <2>2 DEF TalkInv, WindowKnows
<1>8. Causes'
  BY <1>2, <1>3 DEF Causes, Sending, Replied
<1> QED
  BY <1>2, <1>5, <1>6, <1>7, <1>8 DEF TalkInv

\* A miss makes the client repair, unless it is for a chunk that it has learnt
\* in this transfer: that one was delivered, so the receiver has evicted it.
LEMMA ReceiveMissTalks ==
    ASSUME AInv, TalkInv, ReceiveMiss
    PROVE  TalkInv'
<1> DEFINE known == CidOf[frames[seq + 1].chunk] \in Keys(warm)
           stage == IF known THEN "repair" ELSE "noRepair"
<1>1. pc = "frame" /\ Replied({"MISS"}) /\ Proceed(stage) /\ UNCHANGED <<seq, repairs>>
  BY DEF ReceiveMiss
<1>2. /\ UNCHANGED <<input, warm, frames, probes, dictionary, delivered, window,
                     counts, server, faults, ProbeNonce>>
      /\ pc' = stage /\ ~ waiting' /\ reply' = << >> /\ request' = << >>
      /\ waiting /\ reply # << >> /\ reply[1].t = "MISS" /\ InStep /\ server = "up"
      /\ repairs <= seq /\ FramesPlaced' /\ HoldsDelivered'
  BY <1>1, ProceedFacts DEF Sending
<1>3. Talk'
  BY <1>1, <1>2 DEF Talk, Ended
<1>4. Tally'
  <2>1. CASE pc' = "noRepair"
    BY <2>1 DEF Tally, InStep, Ended
  <2>2. CASE pc' = "repair"
    <3>1. counts'["auth"] = IF "tamper" \in probes' /\ TamperDone' THEN 1 ELSE 0
      BY <1>1, <1>2, <2>2 DEF TalkInv, Tally, TamperDone
    <3>2. counts'["replay"] = IF "replay" \in probes' /\ ReplayDone' THEN 1 ELSE 0
      BY <1>1, <1>2, <2>2 DEF TalkInv, Tally, ReplayDone
    <3>3. counts'["miss"] = repairs' + 1 /\ counts'["repair"] = repairs'
      BY <1>1, <1>2 DEF TalkInv, Tally
    <3> QED
      BY <1>2, <2>2, <3>1, <3>2, <3>3 DEF Tally, Replied
  <2> QED
    BY <1>2, <2>1, <2>2
<1>5. WindowKnows'
  <2>1. CASE pc' = "noRepair"
    BY <2>1 DEF WindowKnows, InStep, Ended
  <2>2. CASE pc' = "repair"
    <3>1. ProbeDone' /\ pc' \notin Probing
      BY <2>2 DEF ProbeDone, Probing
    <3>2. ASSUME NEW n, Used(n) PROVE Used(n)'
      BY <1>1, <1>2, <2>2, <3>2 DEF Used
    <3> QED
      BY <1>2, <3>1, <3>2 DEF TalkInv, WindowKnows
  <2> QED
    BY <1>2, <2>1, <2>2
<1>6. CASE known
  <2>1. pc' = "repair"
    BY <1>2, <1>6
  <2>2. Causes'
    BY <1>2, <2>1 DEF Causes, Sending, Replied
  <2> QED
    BY <1>2, <1>3, <1>4, <1>5, <2>2 DEF TalkInv
<1>7. CASE ~ known
  <2> DEFINE i == seq + 1
             c == input[i]
  <2>1. /\ seq \in Nat /\ i \in 1 .. Len(input) /\ c \in Chunks
        /\ frames[i].chunk = c /\ frames[i].kind = "REF" /\ ~ Holds(dictionary, frames[i])
    <3>1. seq \in Nat /\ i \in 1 .. Len(input)
      BY <1>1, InputFacts DEF AInv, Stages, Sending
    <3>2. c \in Chunks
      BY <3>1, InputFacts
    <3>3. frames[i].chunk = c
      <4>1. frames[i] = [kind |-> frames[i].kind, chunk |-> c, nonce |-> i,
                         offset |-> frames[i].offset, genuine |-> TRUE]
        BY <3>1 DEF AInv, FramesCoverInput
      <4> QED
        BY <4>1
    <3>4. frames[i].kind = "REF" /\ ~ Holds(dictionary, frames[i])
      BY <1>1 DEF TalkInv, Causes
    <3> QED
      BY <3>1, <3>2, <3>3, <3>4
  <2>2. PICK j \in 1 .. i - 1 : CidOf[input[j]] = CidOf[c]
    BY <1>7, <2>1 DEF TalkInv, FramesPlaced
  <2>3. j - 1 \in DOMAIN delivered /\ (j - 1) + 1 = j
    BY <2>1, <2>2 DEF AInv, NothingSkipped
  <2>4. CidOf[delivered[j - 1]] = CidOf[c]
    BY <2>2, <2>3 DEF AInv, DeliveredRight
  <2>5. ASSUME CidOf[c] \in Keys(dictionary) PROVE FALSE
    <3>1. dictionary \in Seq(Entries) /\ Authentic(dictionary)
      BY DEF AInv, SoundDictionary
    <3>2. /\ Lookup(dictionary, CidOf[c]) \in Chunks
          /\ CidOf[Lookup(dictionary, CidOf[c])] = CidOf[c]
      BY <2>5, <3>1, LookupFinds
    <3>3. Lookup(dictionary, CidOf[c]) = c
      BY <2>1, <3>2, CidAssumption DEF IsInjective
    <3> QED
      BY <2>1, <2>5, <3>3 DEF Holds
  <2>6. ~ (Len(dictionary) < MaxDictChunks)
    BY <2>3, <2>4, <2>5 DEF TalkInv, HoldsDelivered
  <2>7. Len(dictionary) = MaxDictChunks
    BY <2>6, LenProperties, CapacityAssumption DEF AInv, SoundDictionary
  <2>8. pc' = "noRepair"
    BY <1>2, <1>7
  <2>9. Causes'
    BY <1>2, <2>7, <2>8 DEF Causes, Sending, Replied
  <2> QED
    BY <1>2, <1>3, <1>4, <1>5, <2>9 DEF TalkInv
<1> QED
  BY <1>6, <1>7

\* A refusal ends the client, STATS ends it well.
LEMMA ReceiveEndTalks ==
    ASSUME AInv, TalkInv, ReceiveError \/ ReceiveStats
    PROVE  TalkInv'
<1>1. CASE ReceiveError
  <2>1. pc \in Sending /\ Replied({"ERROR"}) /\ Proceed("refused")
        /\ UNCHANGED <<seq, repairs>>
    BY <1>1 DEF ReceiveError, Sending
  <2>2. /\ UNCHANGED <<frames, probes, ProbeNonce>>
        /\ pc' = "refused" /\ ~ waiting' /\ reply' = << >> /\ request' = << >>
        /\ repairs <= seq /\ FramesPlaced' /\ HoldsDelivered'
    BY <2>1, ProceedFacts
  <2>3. Pushed'
    BY <2>1, <2>2 DEF TalkInv, Causes, Pushed, RepairNonce
  <2>4. Talk'
    BY <2>1, <2>2 DEF Talk, Ended
  <2>5. ~ InStep'
    BY <2>2 DEF InStep, Ended
  <2>6. Causes'
    BY <2>2, <2>3 DEF Causes, Sending
  <2> QED
    BY <2>2, <2>4, <2>5, <2>6 DEF TalkInv, Tally, WindowKnows
<1>2. CASE ReceiveStats
  <2>1. pc = "end" /\ Replied({"STATS"}) /\ Proceed("done") /\ UNCHANGED <<seq, repairs>>
    BY <1>2 DEF ReceiveStats
  <2>2. /\ UNCHANGED <<frames, probes, window, counts, ProbeNonce>>
        /\ pc' = "done" /\ ~ waiting' /\ reply' = << >> /\ request' = << >>
        /\ InStep /\ repairs <= seq /\ FramesPlaced' /\ HoldsDelivered'
    BY <2>1, ProceedFacts DEF Sending
  <2>3. Talk'
    BY <2>1, <2>2 DEF Talk, Ended
  <2>4. Tally'
    BY <2>1, <2>2 DEF TalkInv, Tally, TamperDone, ReplayDone
  <2>5. WindowKnows'
    BY <2>1, <2>2 DEF TalkInv, WindowKnows, ProbeDone, Probing, Used
  <2>6. Causes'
    BY <2>2 DEF Causes, Sending
  <2> QED
    BY <2>2, <2>3, <2>4, <2>5, <2>6 DEF TalkInv
<1> QED
  BY <1>1, <1>2

\* What an accepted frame delivers the server has in its dictionary, and it
\* forgets nothing while there is room.
LEMMA AcceptHolds ==
    ASSUME AInv, TalkInv, NEW m \in ToSet(request), AcceptFull(m) \/ AcceptRef(m)
    PROVE  HoldsDelivered'
<1>1. /\ Honest(m) /\ m.t = "FRAME" /\ m.seq >= 0 /\ UNCHANGED transfer
      /\ SoundDictionary(dictionary, MaxDictChunks)
  BY OldestHonest DEF AcceptFull, AcceptRef, Verified, Handled, AInv
<1>2. Deliver(m, m.chunk)
  BY RefInvariant DEF AcceptFull
<1>3. /\ m.seq = seq /\ m.chunk \in Chunks /\ m.chunk = input[seq + 1]
      /\ delivered' = [q \in DOMAIN delivered \cup {seq} |-> input[q + 1]]
  BY <1>1, <1>2, DeliverRight
<1>4. /\ CidOf[m.chunk] \in Keys(dictionary')
      /\ Len(dictionary) <= Len(dictionary')
      /\ Len(dictionary') < MaxDictChunks => Keys(dictionary) \subseteq Keys(dictionary')
      /\ SoundDictionary(dictionary', MaxDictChunks)
  <2>1. CASE AcceptFull(m)
    <3>1. dictionary' = Touched(dictionary, m.chunk)
      BY <2>1 DEF AcceptFull, Cache
    <3> QED
      BY <1>1, <1>3, <3>1, TouchedSound, TouchedRoomy
  <2>2. CASE AcceptRef(m)
    <3>1. Holds(dictionary, m) /\ dictionary' = dictionary
      BY <2>2 DEF AcceptRef
    <3>2. Len(dictionary) \in Nat
      BY <1>1, LenProperties DEF SoundDictionary
    <3> QED
      BY <1>1, <3>1, <3>2 DEF Holds
  <2> QED
    BY <2>1, <2>2
<1>5. Len(dictionary) \in Nat /\ Len(dictionary') \in Nat /\ MaxDictChunks \in Nat
  BY <1>1, <1>4, LenProperties, CapacityAssumption DEF SoundDictionary
<1> SUFFICES ASSUME Len(dictionary') < MaxDictChunks, NEW q \in DOMAIN delivered'
             PROVE  CidOf[delivered'[q]] \in Keys(dictionary')
  BY DEF HoldsDelivered
<1>6. Len(dictionary) < MaxDictChunks
  BY <1>4, <1>5
<1>7. CASE q = seq
  BY <1>3, <1>4, <1>7
<1>8. CASE q # seq
  <2>1. q \in DOMAIN delivered /\ delivered'[q] = delivered[q]
    BY <1>3, <1>8 DEF AInv, DeliveredRight
  <2> QED
    BY <1>4, <1>6, <2>1 DEF TalkInv, HoldsDelivered
<1> QED
  BY <1>7, <1>8

\* What NonceWindow.add makes of a nonce.
LEMMA RememberAdds ==
    ASSUME NEW w \in Windows, NEW n \in Nat
    PROVE  /\ n \in Remember(w, WindowSize, n).seen
           /\ Remember(w, WindowSize, n).seen \subseteq w.seen \cup {n}
           /\ Remember(w, WindowSize, n).highest \in {w.highest, n}
<1>1. WindowSize \in Nat \ {0}
  BY AuthAssumption
<1>2. n > n - WindowSize
  BY <1>1
<1> QED
  BY <1>2 DEF Remember, Later

\* What the server does with a datagram, as far as the client goes.
LEMMA HandledFacts ==
    ASSUME AInv, TalkInv, NEW m \in ToSet(request), NEW r, Reply(r), waiting,
           request' = << >>, UNCHANGED <<transfer, client, faults>>
    PROVE  /\ m = Message /\ reply = << >> /\ reply' = <<r>> /\ reply'[1] = r
           /\ reply' # << >>
           /\ InStep /\ (InStep' <=> ~ (pc \in Sending /\ r.t = "ERROR"))
           /\ pc \notin Ended \cup {"start"} /\ (pc # "end" => server = "up")
           /\ UNCHANGED <<input, warm, frames, probes, pc, seq, waiting, repairs, faults,
                          ProbeNonce, RepairNonce>>
<1>1. UNCHANGED <<input, warm, frames, probes, pc, seq, waiting, repairs, faults,
                  ProbeNonce, RepairNonce>>
  BY MessageStays DEF transfer, client
<1>2. request # << >> /\ m = request[1]
  <2>1. PICK i \in DOMAIN request : m = request[i]
    BY DEF ToSet
  <2>2. request # << >>
    BY <2>1
  <2>3. request = <<request[1]>>
    BY <2>2 DEF AInv, RequestRight
  <2>4. DOMAIN request = {1}
    BY <2>3
  <2> QED
    BY <2>1, <2>2, <2>4
<1>3. m = Message
  BY <1>2 DEF TalkInv, Talk
<1>4. reply = << >> /\ pc \notin Ended \cup {"start"} /\ (pc # "end" => server = "up")
  BY <1>2 DEF AInv, RequestRight, Stages, TalkInv, Talk
<1>5. reply' = <<r>> /\ reply'[1] = r /\ reply' # << >>
  BY DEF Reply
<1>6. InStep
  BY <1>2, <1>4 DEF InStep, Lost, Replied
<1>7. InStep' <=> ~ (pc \in Sending /\ r.t = "ERROR")
  BY <1>1, <1>4, <1>5 DEF InStep, Lost, Replied
<1> QED
  BY <1>1, <1>3, <1>4, <1>5, <1>6, <1>7

\* A datagram that a client which has given up has left behind.
LEMMA LateHandled ==
    ASSUME AInv, TalkInv, NEW m \in ToSet(request), NEW r, Reply(r), ~ waiting,
           UNCHANGED <<transfer, client, faults>>, HoldsDelivered'
    PROVE  TalkInv'
<1>1. UNCHANGED <<input, warm, frames, pc, seq, waiting, repairs, faults>>
  BY DEF transfer, client
<1>2. request # << >>
  BY DEF ToSet
<1>3. pc = "timedOut" /\ faults > 0
  BY <1>2 DEF AInv, RequestRight, TalkInv, Talk, Causes
<1>4. reply' = << >>
  BY DEF Reply
<1>5. FramesPlaced'
  BY <1>1 DEF TalkInv, FramesPlaced
<1> QED
  BY <1>1, <1>3, <1>4, <1>5, GivenUp

\* An answer leaves the talk in order.
LEMMA AnsweredTalk ==
    ASSUME AInv, TalkInv, NEW m \in ToSet(request), NEW r, Reply(r), waiting,
           request' = << >>, UNCHANGED <<transfer, client, faults>>,
           r.t \in Answers, server' = server \/ pc = "end"
    PROVE  Talk' /\ FramesPlaced'
<1>1. /\ reply' = <<r>> /\ reply'[1] = r /\ reply' # << >>
      /\ pc \notin Ended \cup {"start"} /\ (pc # "end" => server = "up")
      /\ UNCHANGED <<input, warm, frames, probes, pc, seq, waiting, repairs>>
  BY HandledFacts
<1>2. Answers' = Answers
  BY <1>1 DEF Answers
<1>3. Talk'
  BY <1>1, <1>2 DEF TalkInv, Talk
<1> QED
  BY <1>1, <1>3 DEF TalkInv, FramesPlaced

\* An honest frame is refused only when its nonce is below the window's floor
\* or the probe has used it.
LEMMA RefusalHasCause ==
    ASSUME AInv, TalkInv, InStep, reply = << >>, pc \in Sending, IsReplay(Message)
    PROVE  Pushed
<1>1. /\ Len(frames) \in Nat /\ seq \in Nat /\ seq < Len(frames) /\ repairs \in Nat
      /\ RepairNonce = Len(frames) + 1 + repairs /\ repairs <= seq
      /\ ProbeNonce \in Nat /\ ProbeNonce > Len(frames)
      /\ WindowSize \in Nat \ {0}
  BY AuthFacts DEF AInv, Stages, TalkInv, Talk
<1>2. PICK n : n = Message.nonce
  OBVIOUS
<1>3. \/ pc = "frame" /\ n = seq + 1
      \/ pc = "repair" /\ n = Len(frames) + 1 + repairs
  BY <1>1, <1>2, Messages DEF TalkInv, Sending
<1>4. \A x \in window.seen \cup {window.highest} :
        \/ x = 0 \/ x \in 1 .. seq
        \/ x \in Len(frames) + 1 .. Len(frames) + repairs
        \/ "replay" \in probes /\ x = ProbeNonce
        \/ pc = "repair" /\ x = seq + 1
  BY DEF TalkInv, WindowKnows, Used
<1>5. CASE n \in window.seen
  <2>1. "replay" \in probes /\ n = ProbeNonce /\ pc = "repair"
    BY <1>1, <1>3, <1>4, <1>5
  <2> QED
    BY <1>1, <1>3, <2>1 DEF Pushed
<1>6. CASE window.highest # 0 /\ n <= window.highest - WindowSize
  <2>1. PICK h : h = window.highest
    OBVIOUS
  <2>2. \/ h = 0 \/ h \in 1 .. seq \/ h \in Len(frames) + 1 .. Len(frames) + repairs
        \/ "replay" \in probes /\ h = ProbeNonce
        \/ pc = "repair" /\ h = seq + 1
    BY <1>4, <2>1
  <2>3. n <= h - WindowSize
    BY <1>6, <2>1
  <2>4. CASE "replay" \in probes /\ h = ProbeNonce
    <3>1. ProbeNonce > WindowSize
      BY <1>1, <1>3, <2>3, <2>4
    <3> QED
      BY <2>4, <3>1 DEF Pushed
  <2>5. CASE h \in Len(frames) + 1 .. Len(frames) + repairs
    <3>1. pc = "frame" /\ n = seq + 1 /\ repairs > 0
      BY <1>1, <1>3, <2>3, <2>5
    <3>2. Len(frames) > WindowSize
      BY <1>1, <2>3, <2>5, <3>1
    <3> QED
      BY <3>1, <3>2 DEF Pushed
  <2>6. h \notin {0} \cup 1 .. seq /\ (pc = "repair" => h # seq + 1)
    BY <1>1, <1>3, <2>3
  <2> QED
    BY <2>2, <2>4, <2>5, <2>6
<1> QED
  BY <1>2, <1>5, <1>6 DEF IsReplay, Replayed

\* A probe is refused as it should be, an honest frame for a cause.
LEMMA RefuseTalks ==
    ASSUME AInv, TalkInv, NEW m \in ToSet(request), Refuse(m), waiting
    PROVE  TalkInv'
<1>1. /\ m.t = "FRAME" /\ (~ Genuine(m) \/ IsReplay(m)) /\ request' = << >>
      /\ Count(IF Genuine(m) THEN "replay" ELSE "auth") /\ Reply([t |-> "ERROR"])
      /\ UNCHANGED <<transfer, client, faults, dictionary, delivered, window, server>>
  BY DEF Refuse, RefusedWindow, Handled
<1>2. /\ m = Message /\ reply = << >> /\ reply' # << >> /\ reply'[1].t = "ERROR"
      /\ InStep /\ (InStep' <=> pc \notin Sending)
      /\ pc \notin Ended \cup {"start"}
      /\ UNCHANGED <<input, warm, frames, probes, pc, seq, waiting, repairs, faults,
                     ProbeNonce, RepairNonce>>
  <2>1. PICK r : r = [t |-> "ERROR"]
    OBVIOUS
  <2>2. Reply(r) /\ r.t = "ERROR"
    BY <1>1, <2>1
  <2>3. /\ m = Message /\ reply = << >> /\ reply'[1] = r /\ reply' # << >>
        /\ InStep /\ (InStep' <=> ~ (pc \in Sending /\ r.t = "ERROR"))
        /\ pc \notin Ended \cup {"start"}
        /\ UNCHANGED <<input, warm, frames, probes, pc, seq, waiting, repairs, faults,
                       ProbeNonce, RepairNonce>>
    BY <1>1, <2>2, HandledFacts
  <2> QED
    BY <2>2, <2>3, Zenon
<1>3. pc \in {"tamper", "replay"} \cup Sending
  <2>1. pc # "end"
    BY <1>1, <1>2, Messages DEF TalkInv
  <2>2. pc # "probe"
    <3>1. ASSUME pc = "probe" PROVE FALSE
      <4>1. window = EmptyWindow
        BY <1>2, <3>1 DEF TalkInv, WindowKnows, ProbeDone
      <4>2. ~ IsReplay(m)
        BY <4>1 DEF IsReplay, Replayed, EmptyWindow
      <4>3. Genuine(m)
        BY <1>2, <3>1, Messages DEF TalkInv
      <4> QED
        BY <1>1, <4>2, <4>3
    <3> QED
      BY <3>1
  <2> QED
    BY <1>2, <2>1, <2>2 DEF AInv, AuthTypeOK, Sending
<1>4. Talk' /\ FramesPlaced' /\ HoldsDelivered'
  <2>1. PICK r : r = [t |-> "ERROR"]
    OBVIOUS
  <2>2. r.t \in Answers
    BY <1>3, <2>1 DEF Answers, Sending
  <2>3. Talk' /\ FramesPlaced'
    BY <1>1, <2>1, <2>2, AnsweredTalk
  <2> QED
    BY <1>1, <1>2, <2>3, HoldStays
<1>5. CASE pc \in Sending
  <2>1. Genuine(m)
    BY <1>2, <1>5, Messages DEF TalkInv
  <2>2. Pushed
    BY <1>1, <1>2, <1>5, <2>1, RefusalHasCause
  <2>3. Pushed'
    BY <1>2, <2>2 DEF Pushed
  <2>4. Causes'
    BY <1>2, <1>5, <2>3 DEF Causes, Replied, Lost, Sending
  <2> QED
    BY <1>2, <1>4, <1>5, <2>4 DEF TalkInv, Tally, WindowKnows
<1>6. CASE pc \in {"tamper", "replay"}
  <2>1. /\ pc = "tamper" => ~ Genuine(m)
        /\ pc = "replay" => Genuine(m)
    BY <1>2, Messages DEF TalkInv
  <2>2. /\ pc = "tamper" => "tamper" \in probes /\ counts' = [counts EXCEPT !["auth"] = @ + 1]
        /\ pc = "replay" => "replay" \in probes /\ counts' = [counts EXCEPT !["replay"] = @ + 1]
    BY <1>1, <2>1 DEF Count, TalkInv, Talk
  <2>3. DOMAIN counts = {"auth", "replay", "miss", "repair"}
    BY DEF AInv, AuthTypeOK, Counters
  <2>4. /\ counts["auth"] = IF "tamper" \in probes /\ TamperDone THEN 1 ELSE 0
        /\ counts["replay"] = IF "replay" \in probes /\ ReplayDone THEN 1 ELSE 0
        /\ counts["miss"] = repairs /\ counts["repair"] = repairs
    BY <1>2, <1>6 DEF TalkInv, Tally
  <2>5. /\ counts'["auth"] = IF "tamper" \in probes /\ TamperDone' THEN 1 ELSE 0
        /\ counts'["replay"] = IF "replay" \in probes /\ ReplayDone' THEN 1 ELSE 0
        /\ counts'["miss"] = repairs /\ counts'["repair"] = repairs
    <3>1. CASE pc = "tamper"
      BY <1>2, <2>2, <2>3, <2>4, <3>1 DEF TamperDone, ReplayDone
    <3>2. CASE pc = "replay"
      BY <1>2, <2>2, <2>3, <2>4, <3>2 DEF TamperDone, ReplayDone
    <3> QED
      BY <1>6, <3>1, <3>2
  <2>6. Tally'
    BY <1>2, <1>6, <2>5 DEF Tally
  <2>7. WindowKnows'
    <3>1. ProbeDone' = ProbeDone
      BY <1>2, <1>6 DEF ProbeDone
    <3>2. window' = window
      BY <1>1
    <3> QED
      BY <1>2, <1>6, <3>1, <3>2 DEF TalkInv, WindowKnows, Used
  <2>8. Causes'
    BY <1>2, <1>6 DEF Causes, Sending, Ended, Lost
  <2> QED
    BY <1>4, <2>6, <2>7, <2>8 DEF TalkInv
<1> QED
  BY <1>3, <1>5, <1>6

\* The probe that is accepted leaves its nonce in the window.
LEMMA AcceptProbeTalks ==
    ASSUME AInv, TalkInv, NEW m \in ToSet(request), AcceptProbe(m), waiting
    PROVE  TalkInv'
<1> DEFINE r == [t |-> "ACK"]
<1>1. /\ m.t = "FRAME" /\ Genuine(m) /\ ~ IsReplay(m) /\ m.seq < 0 /\ request' = << >>
      /\ window' = Remember(window, WindowSize, m.nonce) /\ Reply(r)
      /\ UNCHANGED <<transfer, client, faults, dictionary, delivered, counts, server>>
  BY DEF AcceptProbe, Verified, Handled
<1>2. r.t = "ACK"
  OBVIOUS
<1> HIDE DEF r
<1>3. /\ m = Message /\ reply = << >> /\ reply' # << >> /\ InStep
      /\ pc \notin Ended \cup {"start"}
      /\ UNCHANGED <<input, warm, frames, probes, pc, seq, waiting, repairs, faults,
                     ProbeNonce, RepairNonce>>
  BY <1>1, HandledFacts
<1>4. pc = "probe"
  <2>1. pc \notin {"end", "tamper"}
    BY <1>1, <1>3, Messages DEF TalkInv
  <2>2. pc \notin Sending
    <3>1. pc \in Sending => m.seq = seq
      BY <1>3, Messages DEF TalkInv
    <3> QED
      BY <1>1, <3>1, AuthFacts
  <2>3. ASSUME pc = "replay" PROVE FALSE
    <3>1. ProbeNonce \in window.seen
      BY <1>3, <2>3 DEF TalkInv, WindowKnows, Talk, ProbeDone, Probing
    <3>2. m.nonce = ProbeNonce
      BY <1>3, <2>3, Messages DEF TalkInv
    <3> QED
      BY <1>1, <3>1, <3>2 DEF IsReplay, Replayed
  <2> QED
    BY <1>3, <2>1, <2>2, <2>3 DEF AInv, AuthTypeOK, Sending
<1>5. m.nonce = ProbeNonce /\ "replay" \in probes
  BY <1>3, <1>4, Messages DEF TalkInv, Talk
<1>6. Talk' /\ FramesPlaced' /\ HoldsDelivered'
  <2>1. r.t \in Answers
    BY <1>2, <1>4 DEF Answers
  <2> QED
    BY <1>1, <1>3, <2>1, AnsweredTalk, HoldStays
<1>7. Tally'
  BY <1>1, <1>3, <1>4 DEF TalkInv, Tally, TamperDone, ReplayDone
<1>8. WindowKnows'
  <2>1. /\ ProbeNonce \in window'.seen
        /\ \A n \in window'.seen \cup {window'.highest} :
              n \in window.seen \cup {window.highest} \/ n = ProbeNonce
    BY <1>1, <1>5, AuthFacts, RememberAdds
  <2>2. ProbeDone'
    BY <1>3, <1>4 DEF ProbeDone
  <2>3. \A n : Used(n) \/ n = ProbeNonce => Used(n)'
    BY <1>3, <1>4, <1>5 DEF Used
  <2> QED
    BY <1>3, <2>1, <2>2, <2>3 DEF TalkInv, WindowKnows
<1>9. Causes'
  BY <1>3, <1>4 DEF Causes, Sending, Lost
<1> QED
  BY <1>6, <1>7, <1>8, <1>9 DEF TalkInv

\* What a verified frame of the transfer does to the window.
LEMMA VerifiedFrame ==
    ASSUME AInv, TalkInv, NEW m \in ToSet(request), Verified(m), m.seq >= 0,
           NEW r, Reply(r), r.t \in {"ACK", "MISS"}, waiting
    PROVE  /\ pc \in Sending /\ m = Message /\ reply = << >> /\ reply' # << >>
           /\ reply'[1].t = r.t /\ InStep /\ InStep'
           /\ UNCHANGED <<input, warm, frames, probes, pc, seq, waiting, repairs, faults,
                          ProbeNonce, RepairNonce>>
           /\ m.chunk = input[seq + 1] /\ seq + 1 \in 1 .. Len(input)
           /\ pc = "frame" => ~ m.repair /\ m.kind = frames[seq + 1].kind
           /\ pc = "repair" => m.repair /\ m.kind = "FULL"
           /\ ProbeDone' /\ \A n \in window'.seen \cup {window'.highest} : Used(n)'
<1>1. /\ m.t = "FRAME" /\ Genuine(m) /\ request' = << >>
      /\ window' = Remember(window, WindowSize, m.nonce)
      /\ UNCHANGED <<transfer, client, faults, server>>
  BY DEF Verified, Handled
<1>2. /\ m = Message /\ reply = << >> /\ reply' # << >> /\ reply'[1] = r /\ InStep
      /\ InStep'
      /\ pc \notin Ended \cup {"start"}
      /\ UNCHANGED <<input, warm, frames, probes, pc, seq, waiting, repairs, faults,
                     ProbeNonce, RepairNonce>>
  BY <1>1, HandledFacts
<1>3. pc \in Sending
  <2>1. pc \notin {"tamper", "end"}
    BY <1>1, <1>2, Messages DEF TalkInv
  <2>2. pc \notin {"probe", "replay"}
    <3>1. pc \in {"probe", "replay"} => m.seq = -99
      BY <1>2, Messages DEF TalkInv
    <3> QED
      BY <3>1
  <2> QED
    BY <1>2, <2>1, <2>2 DEF AInv, AuthTypeOK, Sending
<1>4. /\ m.chunk = input[seq + 1] /\ seq + 1 \in 1 .. Len(input)
      /\ pc = "frame" => ~ m.repair /\ m.kind = frames[seq + 1].kind /\ m.nonce = seq + 1
      /\ pc = "repair" => m.repair /\ m.kind = "FULL" /\ m.nonce = RepairNonce
  BY <1>2, <1>3, Messages DEF TalkInv
<1>5. ProbeDone' /\ ProbeDone
  BY <1>2, <1>3 DEF ProbeDone, Sending
<1>6. ASSUME NEW n \in window'.seen \cup {window'.highest} PROVE Used(n)'
  <2>1. m.nonce \in Nat
    BY <1>3, <1>4, AuthFacts DEF Sending
  <2>2. n \in window.seen \cup {window.highest} \/ n = m.nonce
    BY <1>1, <2>1, AuthFacts, RememberAdds
  <2>3. Used(n) \/ n = m.nonce
    BY <1>2, <2>2 DEF TalkInv, WindowKnows
  <2> QED
    BY <1>2, <1>3, <1>4, <2>3 DEF Used, Sending
<1> QED
  BY <1>2, <1>3, <1>4, <1>5, <1>6

\* What is left of the invariant after a frame that is not refused.
LEMMA FrameTalks ==
    ASSUME AInv, TalkInv, NEW m \in ToSet(request), Verified(m), m.seq >= 0,
           NEW r, Reply(r), r.t \in {"ACK", "MISS"}, waiting, HoldsDelivered',
           counts'["auth"] = counts["auth"], counts'["replay"] = counts["replay"],
           counts'["miss"] = IF r.t = "MISS" THEN counts["miss"] + 1 ELSE counts["miss"],
           counts'["repair"] = IF pc = "repair" THEN counts["repair"] + 1
                                                ELSE counts["repair"],
           r.t = "MISS" => /\ pc = "frame" /\ frames[seq + 1].kind = "REF"
                           /\ ~ Holds(dictionary', frames[seq + 1])
    PROVE  TalkInv'
<1>1. /\ pc \in {"frame", "repair"} /\ reply = << >> /\ reply' # << >>
      /\ reply'[1].t = r.t /\ InStep /\ InStep'
      /\ UNCHANGED <<input, warm, frames, probes, pc, seq, waiting, repairs, faults>>
      /\ ProbeDone' /\ \A n \in window'.seen \cup {window'.highest} : Used(n)'
  BY VerifiedFrame DEF Sending
<1>2. Talk' /\ FramesPlaced'
  <2>1. UNCHANGED <<transfer, client, faults, server>> /\ request' = << >>
    BY DEF Verified, Handled
  <2>2. r.t \in Answers
    BY <1>1 DEF Answers
  <2> QED
    BY <2>1, <2>2, AnsweredTalk
<1>3. Tally'
  <2>1. /\ counts["auth"] = IF "tamper" \in probes /\ TamperDone THEN 1 ELSE 0
        /\ counts["replay"] = IF "replay" \in probes /\ ReplayDone THEN 1 ELSE 0
        /\ counts["miss"] = IF pc = "repair" THEN repairs + 1 ELSE repairs
        /\ counts["repair"] = repairs
    BY <1>1 DEF TalkInv, Tally, Replied
  <2>2. TamperDone' = TamperDone /\ ReplayDone' = ReplayDone
    BY <1>1 DEF TamperDone, ReplayDone
  <2>3. counts'["auth"] = IF "tamper" \in probes' /\ TamperDone' THEN 1 ELSE 0
    BY <1>1, <2>1, <2>2
  <2>4. counts'["replay"] = IF "replay" \in probes' /\ ReplayDone' THEN 1 ELSE 0
    BY <1>1, <2>1, <2>2
  <2>5. Replied({"MISS"})' = (r.t = "MISS") /\ Replied({"ACK"})' = (r.t = "ACK")
    BY <1>1 DEF Replied
  <2>6. counts'["miss"] = IF pc' = "repair" \/ (pc' = "frame" /\ Replied({"MISS"})')
                          THEN repairs' + 1 ELSE repairs'
    BY <1>1, <2>1, <2>5
  <2>7. counts'["repair"] = IF pc' = "repair" /\ Replied({"ACK"})'
                            THEN repairs' + 1 ELSE repairs'
    BY <1>1, <2>1, <2>5
  <2> QED
    BY <2>3, <2>4, <2>6, <2>7 DEF Tally
<1>4. WindowKnows'
  BY <1>1 DEF WindowKnows, Probing
<1>5. Causes'
  BY <1>1 DEF Causes, Sending, Replied, Lost
<1> QED
  BY <1>2, <1>3, <1>4, <1>5 DEF TalkInv

\* The three ways a frame of the transfer is taken.
LEMMA FrameStepTalks ==
    ASSUME AInv, TalkInv, NEW m \in ToSet(request),
           AcceptFull(m) \/ AcceptRef(m) \/ MissRef(m), waiting
    PROVE  TalkInv'
<1>1. Verified(m) /\ m.seq >= 0
  BY DEF AcceptFull, AcceptRef, MissRef
<1>2. UNCHANGED <<input, warm, frames>>
  BY <1>1 DEF Verified, Handled, transfer
<1>3. DOMAIN counts = {"auth", "replay", "miss", "repair"}
  BY DEF AInv, AuthTypeOK, Counters
<1>4. CASE AcceptFull(m) \/ AcceptRef(m)
  <2>1. PICK r : Reply(r) /\ r.t = "ACK"
    <3>1. [t |-> "ACK"].t = "ACK"
      OBVIOUS
    <3> QED
      BY <1>4, <3>1 DEF AcceptFull, AcceptRef
  <2>2. /\ pc \in {"frame", "repair"}
        /\ pc = "frame" => ~ m.repair
        /\ pc = "repair" => m.repair /\ m.kind = "FULL"
    BY <1>1, <2>1, VerifiedFrame DEF Sending
  <2>3. counts' = IF pc = "repair" THEN [counts EXCEPT !["repair"] = @ + 1] ELSE counts
    BY <1>4, <2>2 DEF AcceptFull, AcceptRef, Count
  <2>4. /\ counts'["auth"] = counts["auth"] /\ counts'["replay"] = counts["replay"]
        /\ counts'["miss"] = counts["miss"]
        /\ counts'["repair"] = IF pc = "repair" THEN counts["repair"] + 1
                                                ELSE counts["repair"]
    BY <1>3, <2>3
  <2>5. HoldsDelivered'
    BY <1>4, AcceptHolds
  <2> QED
    BY <1>1, <2>1, <2>4, <2>5, FrameTalks
<1>5. CASE MissRef(m)
  <2>1. PICK r : Reply(r) /\ r.t = "MISS"
    <3>1. [t |-> "MISS"].t = "MISS"
      OBVIOUS
    <3> QED
      BY <1>5, <3>1 DEF MissRef
  <2>2. /\ m.kind = "REF" /\ ~ Holds(dictionary, m) /\ UNCHANGED <<dictionary, delivered>>
        /\ counts' = [counts EXCEPT !["miss"] = @ + 1]
    BY <1>5 DEF MissRef, Count
  <2>3. /\ pc = "frame" /\ frames[seq + 1].kind = "REF"
        /\ m.chunk = input[seq + 1] /\ seq + 1 \in 1 .. Len(input)
    BY <1>1, <2>1, <2>2, VerifiedFrame DEF Sending
  <2>4. frames[seq + 1].chunk = m.chunk
    <3>1. frames[seq + 1] = [kind |-> frames[seq + 1].kind, chunk |-> input[seq + 1],
                             nonce |-> seq + 1, offset |-> frames[seq + 1].offset,
                             genuine |-> TRUE]
      BY <2>3 DEF AInv, FramesCoverInput
    <3> QED
      BY <2>3, <3>1
  <2>5. ~ Holds(dictionary', frames[seq + 1])
    BY <2>2, <2>4 DEF Holds
  <2>6. /\ counts'["auth"] = counts["auth"] /\ counts'["replay"] = counts["replay"]
        /\ counts'["miss"] = counts["miss"] + 1 /\ counts'["repair"] = counts["repair"]
    BY <1>3, <2>2
  <2>7. HoldsDelivered'
    BY <1>2, <2>2, HoldStays
  <2> QED
    BY <1>1, <2>1, <2>3, <2>5, <2>6, <2>7, FrameTalks
<1> QED
  BY <1>4, <1>5

\* The server leaves with its counts as they are.
LEMMA ServeEndTalks ==
    ASSUME AInv, TalkInv, NEW m \in ToSet(request), ServeEnd(m), waiting
    PROVE  TalkInv'
<1> DEFINE r == [t |-> "STATS"]
<1>1. /\ m.t = "END" /\ Reply(r) /\ request' = << >>
      /\ UNCHANGED <<transfer, client, dictionary, window, delivered, counts, faults>>
  BY DEF ServeEnd
<1>2. r.t = "STATS"
  OBVIOUS
<1> HIDE DEF r
<1>3. /\ m = Message /\ reply = << >> /\ reply' # << >> /\ InStep
      /\ pc \notin Ended \cup {"start"}
      /\ UNCHANGED <<input, warm, frames, probes, pc, seq, waiting, repairs, faults,
                     ProbeNonce, RepairNonce>>
  BY <1>1, HandledFacts
<1>4. pc = "end"
  <2>1. pc \notin {"tamper", "probe", "replay"} \cup Sending
    BY <1>1, <1>3, Messages DEF TalkInv
  <2> QED
    BY <1>3, <2>1 DEF AInv, AuthTypeOK, Sending
<1>5. Talk' /\ FramesPlaced' /\ HoldsDelivered'
  <2>1. r.t \in Answers
    BY <1>2, <1>4 DEF Answers
  <2> QED
    BY <1>1, <1>3, <1>4, <2>1, AnsweredTalk, HoldStays
<1>6. Tally'
  BY <1>1, <1>3, <1>4 DEF TalkInv, Tally, TamperDone, ReplayDone
<1>7. WindowKnows'
  BY <1>1, <1>3, <1>4 DEF TalkInv, WindowKnows, ProbeDone, Probing, Used
<1>8. Causes'
  BY <1>3, <1>4 DEF Causes, Sending, Lost
<1> QED
  BY <1>5, <1>6, <1>7, <1>8 DEF TalkInv

\* A server step whose client has given up.
LEMMA LateTalks ==
    ASSUME AInv, TalkInv, NEW m \in ToSet(request), ~ waiting,
           \/ Refuse(m) \/ AcceptProbe(m)
           \/ AcceptFull(m) \/ AcceptRef(m) \/ MissRef(m)
           \/ ServeEnd(m)
    PROVE  TalkInv'
<1>1. UNCHANGED <<transfer, client, faults>>
  BY DEF Refuse, AcceptProbe, AcceptFull, AcceptRef, MissRef, ServeEnd, Verified, Handled
<1>2. PICK r : Reply(r)
  BY DEF Refuse, AcceptProbe, AcceptFull, AcceptRef, MissRef, ServeEnd
<1>3. HoldsDelivered'
  <2>1. CASE AcceptFull(m) \/ AcceptRef(m)
    BY <2>1, AcceptHolds
  <2>2. CASE Refuse(m) \/ AcceptProbe(m) \/ MissRef(m) \/ ServeEnd(m)
    <3>1. UNCHANGED <<input, warm, frames, dictionary, delivered>>
      BY <1>1, <2>2 DEF Refuse, AcceptProbe, MissRef, ServeEnd, transfer
    <3> QED
      BY <3>1, HoldStays
  <2> QED
    BY <2>1, <2>2
<1> QED
  BY <1>1, <1>2, <1>3, LateHandled

\* The two invariants together are inductive.
LEMMA TalkInvariant == AuthSpec => []TalkInv
<1>1. AuthInit => TalkInv
  BY TalkInitInvariant
<1>2. AInv /\ TalkInv /\ [AuthNext]_authVars => TalkInv'
  <2> SUFFICES ASSUME AInv, TalkInv, [AuthNext]_authVars PROVE TalkInv'
    OBVIOUS
  <2>1. CASE ClientStep
    BY <2>1, StartTalks, ExchangeTalks, ReceiveProbeReplyTalks, ReceiveAckTalks,
       ReceiveMissTalks, ReceiveEndTalks DEF ClientStep
  <2>2. CASE Timeout \/ LoseDatagram
    BY <2>2, FaultTalks
  <2>3. CASE ServerStep
    <3>1. PICK m \in ToSet(request) :
              \/ Refuse(m) \/ AcceptProbe(m)
              \/ AcceptFull(m) \/ AcceptRef(m) \/ MissRef(m)
              \/ ServeEnd(m)
      BY <2>3 DEF ServerStep
    <3> QED
      BY <3>1, RefuseTalks, AcceptProbeTalks, FrameStepTalks, ServeEndTalks, LateTalks
  <2>4. CASE ServerTimeout \/ UNCHANGED authVars
    BY <2>4, IdleTalks
  <2> QED
    BY <2>1, <2>2, <2>3, <2>4 DEF AuthNext
<1> QED
  BY <1>1, <1>2, AuthInvariant, PTL DEF AuthSpec

\* When the client has its STATS, the server has counted one miss and one
\* repair for each frame the client repaired, and refused each probe once.
THEOREM ProbesAreCounted == AuthSpec => []StatsAgree
<1>1. AInv /\ TalkInv => StatsAgree
  <2> SUFFICES ASSUME AInv, TalkInv, pc = "done" PROVE StatsAgree
    BY DEF StatsAgree
  <2>1. TamperDone /\ ReplayDone /\ InStep
    BY DEF TamperDone, ReplayDone, InStep, Sending, AInv, Stages, Ended
  <2>2. /\ counts["miss"] = repairs /\ counts["repair"] = repairs
        /\ counts["auth"] = IF "tamper" \in probes THEN 1 ELSE 0
        /\ counts["replay"] = IF "replay" \in probes THEN 1 ELSE 0
    BY <2>1 DEF TalkInv, Tally
  <2>3. ASSUME NEW x
        PROVE  Cardinality(probes \cap {x}) = IF x \in probes THEN 1 ELSE 0
    <3>1. CASE x \in probes
      <4>1. probes \cap {x} = {x}
        BY <3>1
      <4> QED
        BY <3>1, <4>1, FS_Singleton
    <3>2. CASE x \notin probes
      <4>1. probes \cap {x} = {}
        BY <3>2
      <4> QED
        BY <3>2, <4>1, FS_EmptySet
    <3> QED
      BY <3>1, <3>2
  <2> QED
    BY <2>2, <2>3 DEF StatsAgree
<1> QED
  BY <1>1, AuthInvariant, TalkInvariant, PTL

\* The client fails only for a reason: a refusal because of the window, a miss
\* because of an eviction, a timeout because of a fault.
THEOREM AuthFailuresAreCaused == AuthSpec => []FailureHasCause
<1>1. TalkInv => FailureHasCause
  BY DEF TalkInv, Causes, Pushed, FailureHasCause
<1> QED
  BY <1>1, TalkInvariant, PTL
=============================================================================
