------------------------------ MODULE AuthUdp ------------------------------
(***************************************************************************)
(* prototypes/redulink_authenticated_udp_experiment.py: a client that      *)
(* sends one authenticated frame at a time and waits for the reply, and    *)
(* the thread AuthUdpServer.  Nothing is sent twice: a reply that does not *)
(* come in time ends the client.  Before its frames the client may send    *)
(* two probes, which share the server's replay window with them.           *)
(*                                                                         *)
(* The client sends only what encode, make_full_repair and the probes      *)
(* build, so the server's checks of the payload and the kind of a frame    *)
(* that verify_frame accepts never fail and are left out.                  *)
(***************************************************************************)
EXTENDS Encoding, NonceWindow

CONSTANTS
    ChunkSize,     \* chunk_size of the fixed chunker
    ProbeChoices,  \* which of "tamper" and "replay" may be injected
    ProbeGap,      \* 1000: how far the probe's nonce is beyond the frames'
    WindowSize,    \* capacity of NonceWindow, 4096
    MaxFaults      \* bound: lost datagrams and replies that come too late

\* fixed_chunks: only the last chunk may be short.
ASSUME FixedChunksAssumption ==
    \A s \in Inputs : \A i \in 1 .. Len(s) - 1 : LengthOf[s[i]] = ChunkSize
ASSUME AuthAssumption ==
    /\ ProbeChoices \subseteq SUBSET {"tamper", "replay"}
    /\ {ChunkSize, ProbeGap, WindowSize} \subseteq Nat \ {0} /\ MaxFaults \in Nat

VARIABLES
    input, warm, frames,   \* the data, sender_dict and what encode made
    probes,     \* inject_tamper_probe, inject_replay_probe
    pc,         \* what the client is to send, or how it ended
    seq,        \* the frame the client is at
    waiting,    \* the client is in recvfrom
    repairs,    \* full frames sent and acknowledged
    dictionary, window, delivered,
    counts,     \* auth_failures, replay_rejections, semantic_misses, repair_full
    server,     \* "up", "served" after END, "timedOut"
    request, reply,  \* the datagram on its way, if any
    faults

transfer == <<input, warm, frames, probes>>
client == <<pc, seq, waiting, repairs>>
receiver == <<dictionary, window, delivered, counts, server>>
authVars == <<transfer, client, receiver, request, reply, faults>>

Ended == {"done", "refused", "noRepair", "timedOut", "noFrames"}

Counters == {"auth", "replay", "miss", "repair"}

\* The client's stages: tamper, probe, replay (the probe again), frame, end.
AfterTamper == IF "replay" \in probes THEN "probe" ELSE "frame"

FirstStage == IF "tamper" \in probes THEN "tamper" ELSE AfterTamper

AuthInit ==
    /\ input \in Inputs
    /\ warm \in WarmDictionaries(MaxDictChunks)
    /\ frames = SecurelyEncoded(input, warm)
    /\ probes \in ProbeChoices
    /\ pc = "start"
    /\ seq = 0 /\ waiting = FALSE /\ repairs = 0
    /\ dictionary \in RandomlyThinned(warm)
    /\ window = EmptyWindow
    /\ delivered = <<>>
    /\ counts = [x \in Counters |-> 0]
    /\ server = "up"
    /\ request = <<>> /\ reply = <<>>
    /\ faults = 0

-----------------------------------------------------------------------------
(* The client: run_experiment and exchange.                                *)

Framed(f, q, isRepair) ==
    [t |-> "FRAME", seq |-> q, repair |-> isRepair, kind |-> f.kind, chunk |-> f.chunk,
     nonce |-> f.nonce, offset |-> f.offset, genuine |-> f.genuine]

\* max() of no frames raises ValueError before anything is sent.
Start ==
    /\ pc = "start"
    /\ pc' = IF frames = <<>> THEN "noFrames" ELSE FirstStage
    /\ UNCHANGED <<transfer, seq, waiting, repairs, receiver, request, reply,
                   faults>>

\* next_nonce: one more for every repair that was acknowledged.
RepairNonce == Len(frames) + 1 + repairs

\* make_full_repair.
FullRepair == [frames[seq + 1] EXCEPT !.kind = "FULL", !.nonce = RepairNonce]

ProbeNonce == Len(frames) + ProbeGap

Message ==
    CASE pc = "tamper" -> Framed([frames[1] EXCEPT !.genuine = FALSE], -100, FALSE)
      [] pc \in {"probe", "replay"} ->
            Framed([frames[1] EXCEPT !.nonce = ProbeNonce], -99, FALSE)
      [] pc = "frame"  -> Framed(frames[seq + 1], seq, FALSE)
      [] pc = "repair" -> Framed(FullRepair, seq, TRUE)
      [] pc = "end"    -> [t |-> "END"]

\* sendto, then recvfrom.  A server that is gone hears nothing.
Exchange ==
    /\ pc \notin Ended \cup {"start"} /\ ~ waiting
    /\ waiting' = TRUE
    /\ request' = IF server = "up" THEN <<Message>> ELSE <<>>
    /\ UNCHANGED <<transfer, pc, seq, repairs, receiver, reply, faults>>

Replied(ts) == waiting /\ reply # <<>> /\ reply[1].t \in ts

Proceed(stage) ==
    /\ pc' = stage
    /\ waiting' = FALSE
    /\ reply' = <<>>
    /\ UNCHANGED <<transfer, receiver, request, faults>>

\* What a probe was answered is only counted.
ReceiveProbeReply ==
    /\ pc \in {"tamper", "probe", "replay"}
    /\ Replied({"ACK", "ERROR"})
    /\ Proceed(CASE pc = "tamper" -> AfterTamper
                 [] pc = "probe"  -> "replay"
                 [] pc = "replay" -> "frame")
    /\ UNCHANGED <<seq, repairs>>

ReceiveAck ==
    /\ pc \in {"frame", "repair"}
    /\ Replied({"ACK"})
    /\ Proceed(IF seq + 1 = Len(frames) THEN "end" ELSE "frame")
    /\ seq' = seq + 1
    /\ repairs' = IF pc = "repair" THEN repairs + 1 ELSE repairs

\* A repair is made of the warm dictionary, or RuntimeError.
ReceiveMiss ==
    /\ pc = "frame"
    /\ Replied({"MISS"})
    /\ Proceed(IF CidOf[frames[seq + 1].chunk] \in Keys(warm) THEN "repair"
                                                              ELSE "noRepair")
    /\ UNCHANGED <<seq, repairs>>

\* RuntimeError, "unexpected reply" or "repair rejected".
ReceiveError ==
    /\ pc \in {"frame", "repair"}
    /\ Replied({"ERROR"})
    /\ Proceed("refused")
    /\ UNCHANGED <<seq, repairs>>

ReceiveStats ==
    /\ pc = "end"
    /\ Replied({"STATS"})
    /\ Proceed("done")
    /\ UNCHANGED <<seq, repairs>>

Lost == request = <<>> /\ reply = <<>>

\* socket.timeout ends the client.  A reply that is still to come is a fault,
\* and the closed socket never hears it.
Timeout ==
    /\ waiting
    /\ Lost \/ faults < MaxFaults
    /\ faults' = IF Lost THEN faults ELSE faults + 1
    /\ pc' = "timedOut" /\ waiting' = FALSE /\ reply' = <<>>
    /\ UNCHANGED <<transfer, seq, repairs, receiver, request>>

ClientStep ==
    \/ Start \/ Exchange \/ ReceiveProbeReply \/ ReceiveAck
    \/ ReceiveMiss \/ ReceiveError \/ ReceiveStats

-----------------------------------------------------------------------------
(* AuthUdpServer.run, one datagram at a time.                              *)

Reply(r) == reply' = IF waiting THEN <<r>> ELSE <<>>

Count(x) == counts' = [counts EXCEPT ![x] = @ + 1]

\* The offset of a frame is bound to its sequence number, a probe's to nothing.
Genuine(m) == m.genuine /\ (m.seq >= 0 => m.offset = m.seq * ChunkSize)

\* Seeded defect: nothing is ever a replay.
IsReplayNever(m) == FALSE

IsReplay(m) == Replayed(window, WindowSize, m.nonce)

Handled ==
    /\ request' = <<>>
    /\ UNCHANGED <<transfer, client, server, faults>>

\* Seeded defect: a nonce is remembered before the frame is verified.
RefusedWindowEager(m) == Remember(window, WindowSize, m.nonce)

\* The window after a frame that verify_frame refuses.
RefusedWindow(m) == window

\* A ValueError of verify_frame.
Refuse(m) ==
    /\ m.t = "FRAME" /\ (~ Genuine(m) \/ IsReplay(m))
    /\ window' = RefusedWindow(m)
    /\ Count(IF Genuine(m) THEN "replay" ELSE "auth")
    /\ Reply([t |-> "ERROR"])
    /\ Handled
    /\ UNCHANGED <<dictionary, delivered>>

\* A frame that is verified, and its nonce remembered.
Verified(m) ==
    /\ m.t = "FRAME" /\ Genuine(m) /\ ~ IsReplay(m)
    /\ window' = Remember(window, WindowSize, m.nonce)
    /\ Handled

AcceptProbe(m) ==
    /\ Verified(m) /\ m.seq < 0
    /\ Reply([t |-> "ACK"])
    /\ UNCHANGED <<dictionary, delivered, counts>>

\* Seeded defect: the chunks are kept in the order of their nonces.
PlaceByNonce(m) == m.nonce - 1

Place(m) == m.seq

Deliver(m, c) ==
    delivered' = [q \in DOMAIN delivered \cup {Place(m)} |->
                     IF q = Place(m) THEN c ELSE delivered[q]]

Cache(m) == dictionary' = Touched(dictionary, m.chunk)

AcceptFull(m) ==
    /\ Verified(m) /\ m.seq >= 0 /\ m.kind = "FULL"
    /\ Cache(m)
    /\ Deliver(m, m.chunk)
    /\ IF m.repair THEN Count("repair") ELSE UNCHANGED counts
    /\ Reply([t |-> "ACK"])

AcceptRef(m) ==
    /\ Verified(m) /\ m.seq >= 0 /\ m.kind = "REF"
    /\ Holds(dictionary, m)
    /\ Deliver(m, Lookup(dictionary, CidOf[m.chunk]))
    /\ Reply([t |-> "ACK"])
    /\ UNCHANGED <<dictionary, counts>>

MissRef(m) ==
    /\ Verified(m) /\ m.seq >= 0 /\ m.kind = "REF"
    /\ ~ Holds(dictionary, m)
    /\ Count("miss")
    /\ Reply([t |-> "MISS"])
    /\ UNCHANGED <<dictionary, delivered>>

\* One STATS, and the socket is closed.
ServeEnd(m) ==
    /\ m.t = "END"
    /\ Reply([t |-> "STATS"])
    /\ server' = "served"
    /\ request' = <<>>
    /\ UNCHANGED <<transfer, client, dictionary, window, delivered, counts,
                   faults>>

ServerStep ==
    /\ server = "up"
    /\ \E m \in ToSet(request) :
          \/ Refuse(m) \/ AcceptProbe(m)
          \/ AcceptFull(m) \/ AcceptRef(m) \/ MissRef(m)
          \/ ServeEnd(m)

\* Seeded defect: the server waits for a client that sends no END forever.
ServerPatienceEndless == pc = "done"

\* Five seconds without a datagram: a client that is alive sends within two.
ServerPatience == pc \in Ended

ServerTimeout ==
    /\ server = "up" /\ request = <<>>
    /\ ServerPatience
    /\ server' = "timedOut"
    /\ UNCHANGED <<transfer, client, dictionary, window, delivered, counts,
                   request, reply, faults>>

-----------------------------------------------------------------------------
(* The network, and the whole.                                             *)

LoseDatagram ==
    /\ faults < MaxFaults /\ ~ Lost
    /\ faults' = faults + 1
    /\ request' = <<>> /\ reply' = <<>>
    /\ UNCHANGED <<transfer, client, receiver>>

AuthNext == ClientStep \/ Timeout \/ ServerStep \/ ServerTimeout \/ LoseDatagram

AuthSpec == AuthInit /\ [][AuthNext]_authVars

\* Both threads run, and a socket's timeout expires if nothing arrives.
\* Nothing makes a datagram get lost or a reply be late.
FairAuth ==
    /\ AuthSpec
    /\ WF_authVars(ClientStep)
    /\ WF_authVars(Timeout /\ Lost)
    /\ WF_authVars(ServerStep)
    /\ WF_authVars(ServerTimeout)

-----------------------------------------------------------------------------
(* Properties.                                                             *)

AuthTypeOK ==
    /\ input \in Inputs /\ warm \in Seq(Entries)
    /\ pc \in {"start", "tamper", "probe", "replay", "frame", "repair", "end"}
               \cup Ended
    /\ seq \in 0 .. Len(frames)
    /\ waiting \in BOOLEAN /\ repairs \in Nat
    /\ dictionary \in Seq(Entries) /\ Len(dictionary) <= MaxDictChunks
    /\ window \in Windows
    /\ delivered \in [DOMAIN delivered -> Chunks]
    /\ counts \in [Counters -> Nat]
    /\ server \in {"up", "served", "timedOut"}
    /\ Len(request) <= 1 /\ Len(reply) <= 1
    /\ faults \in 0 .. MaxFaults

\* The server refuses an honest frame only when a greater nonce has pushed the
\* window past it, the probe's or, in a transfer longer than the window, that of
\* an earlier repair, or when the probe has used the nonce of a repair.  What
\* cannot be repaired was evicted by the receiver.  Nobody times out but after a
\* fault.
FailureHasCause ==
    /\ pc = "refused" =>
          \/ /\ "replay" \in probes
             /\ ProbeNonce > WindowSize \/ RepairNonce = ProbeNonce
          \/ repairs > 0 /\ Len(frames) > WindowSize
    /\ pc = "noRepair" => Len(dictionary) = MaxDictChunks
    /\ pc = "timedOut" => faults > 0

\* The counts of the two ends agree at STATS, and each probe was refused once,
\* as test_authenticated_udp_experiment.py expects of the demonstration.
StatsAgree ==
    pc = "done" =>
        /\ counts["miss"] = repairs /\ counts["repair"] = repairs
        /\ counts["auth"] = Cardinality(probes \cap {"tamper"})
        /\ counts["replay"] = Cardinality(probes \cap {"replay"})

Got == [i \in {q + 1 : q \in DOMAIN delivered} |-> delivered[i - 1]]

Outcome == CASE pc = "done" -> "done"
             [] pc \in Ended \ {"done"} -> "failed"
             [] OTHER -> "running"

Transfer == INSTANCE ReliableTransfer WITH got <- Got, outcome <- Outcome

\* The authenticated exchange is a reliable transfer of the input, with probes
\* or without them: a probe delivers nothing.
ImplementsTransfer == Transfer!Spec

\* prototypes/README.md: "The receiver rejects a tampered tag and a replayed
\* nonce before accepting normal traffic".
NormalTrafficAccepted == pc # "refused"

\* Both ends come to an end, whatever is lost.
BothEnd == <>(pc \in Ended /\ server # "up")
=============================================================================
