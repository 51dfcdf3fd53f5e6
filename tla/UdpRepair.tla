----------------------------- MODULE UdpRepair -----------------------------
(***************************************************************************)
(* prototypes/redulink_udp_repair_experiment.py: a client that sends one   *)
(* frame at a time over UDP and waits for its ACK or MISS, and the thread  *)
(* UdpRepairServer.  A MISS is repaired at once, in the middle of the      *)
(* transfer, so the receiver's dictionary is touched by repairs that the   *)
(* sender's encoder knows nothing of.                                      *)
(*                                                                         *)
(* The datagrams of either direction can be lost or late.  Both ends use   *)
(* the loopback interface, which neither repeats nor reorders them; the    *)
(* retransmissions of the client are what duplicates a message.            *)
(*                                                                         *)
(* The client sends only what frame_to_message builds, so the checks of    *)
(* the server that answer ERROR never fail and are left out.               *)
(***************************************************************************)
EXTENDS Encoding

CONSTANTS
    MaxRetries,     \* max_retries
    DropEvery,      \* drop_every_nth_data, 0 for no drops
    MaxFaults       \* bound: losses, drops and late answers in one run

ASSUME UdpAssumption == {MaxRetries, DropEvery, MaxFaults} \subseteq Nat

VARIABLES
    input,       \* the chunks of data
    warm,        \* sender_dictionary
    frames,      \* what encode made of data; frame seq is frames[seq + 1]
    pc,          \* which reply the client is after, or how it ended
    seq,         \* the frame the client is at
    attempts,    \* of send_and_wait_ack, or of the END loop
    waiting,     \* the client is in recvfrom
    repairs,     \* repair_full_frames of the client
    dictionary, delivered, droppedOnce,
    counts,      \* the server's semantic_misses, repairs, FULL and REF frames
    server,      \* "up", "served" after END, "timedOut"
    toServer, toClient,  \* datagrams on their way, oldest first
    faults       \* history: losses, drops and timeouts that came too early

transfer == <<input, warm, frames>>
client == <<pc, seq, attempts, waiting, repairs>>
receiver == <<dictionary, delivered, droppedOnce, counts, server>>
udpVars == <<transfer, client, receiver, toServer, toClient, faults>>

Counters == {"miss", "repair", "full", "ref"}

UdpInit ==
    /\ input \in Inputs
    /\ warm \in WarmDictionaries(MaxDictChunks)
    /\ frames = Encoded(input, warm)
    /\ pc = IF input = <<>> THEN "end" ELSE "frame"
    /\ seq = 0
    /\ attempts = 0
    /\ waiting = FALSE
    /\ repairs = 0
    /\ dictionary \in RandomlyThinned(warm)
    /\ delivered = <<>>
    /\ droppedOnce = {}
    /\ counts = [x \in Counters |-> 0]
    /\ server = "up"
    /\ toServer = <<>>
    /\ toClient = <<>>
    /\ faults = 0

Ended == {"done", "gaveUp", "notAcked", "unrepairable"}

-----------------------------------------------------------------------------
(* The client: send_and_wait_ack, its caller, and the END loop.            *)

Message ==
    CASE pc = "frame"  -> [t |-> "FRAME", seq |-> seq, repair |-> FALSE,
                           kind |-> frames[seq + 1].kind,
                           chunk |-> frames[seq + 1].chunk]
      [] pc = "repair" -> [t |-> "FRAME", seq |-> seq, repair |-> TRUE,
                           kind |-> "FULL", chunk |-> frames[seq + 1].chunk]
      [] pc = "end"    -> [t |-> "END"]

\* Seeded defect: one attempt too many.
MayTransmitOnceMore == attempts <= MaxRetries + 1

MayTransmit == attempts <= MaxRetries

\* sendto: a server that is gone hears nothing.
Transmit ==
    /\ pc \notin Ended /\ ~ waiting
    /\ MayTransmit
    /\ toServer' = IF server = "up" THEN Append(toServer, Message) ELSE toServer
    /\ waiting' = TRUE
    /\ UNCHANGED <<transfer, pc, seq, attempts, repairs, receiver, toClient,
                   faults>>

\* The client ends and its socket is closed.
Close(how) == pc' = how /\ waiting' = FALSE /\ toClient' = <<>>

GiveUp ==
    /\ pc \notin Ended /\ ~ waiting
    /\ attempts > MaxRetries
    /\ Close("gaveUp")
    /\ UNCHANGED <<transfer, seq, attempts, repairs, receiver, toServer,
                   faults>>

NothingOnItsWay == toServer = <<>> /\ toClient = <<>>

\* Seeded defect: a timeout is not counted as an attempt.
RetryUncounted == UNCHANGED attempts /\ waiting' = FALSE

Retry == attempts' = attempts + 1 /\ waiting' = FALSE

\* socket.timeout.  It is late if nothing is on its way, and early, a fault,
\* if the answer is still to come.
Timeout ==
    /\ waiting
    /\ Retry
    /\ NothingOnItsWay \/ faults < MaxFaults
    /\ faults' = IF NothingOnItsWay THEN faults ELSE faults + 1
    /\ UNCHANGED <<transfer, pc, seq, repairs, receiver, toServer, toClient>>

Receive(t) == waiting /\ toClient # <<>> /\ Head(toClient).t = t

Answers(t) == Receive(t) /\ Head(toClient).seq = seq

\* Seeded defect: any ACK counts as the answer to the frame that was sent.
AcknowledgedByAny == Receive("ACK")

Acknowledged == Answers("ACK")

ReceiveAck ==
    /\ pc \in {"frame", "repair"}
    /\ Acknowledged
    /\ seq' = seq + 1
    /\ pc' = IF seq + 1 = Len(frames) THEN "end" ELSE "frame"
    /\ attempts' = 0 /\ waiting' = FALSE
    /\ toClient' = Tail(toClient)
    /\ UNCHANGED <<transfer, repairs, receiver, toServer, faults>>

\* A MISS for a frame: the repair comes from the warm dictionary, or the
\* client raises RuntimeError.
ReceiveMiss ==
    /\ pc = "frame"
    /\ Answers("MISS")
    /\ IF CidOf[frames[seq + 1].chunk] \in Keys(warm)
       THEN /\ pc' = "repair"
            /\ repairs' = repairs + 1
            /\ attempts' = 0 /\ waiting' = FALSE
            /\ toClient' = Tail(toClient)
       ELSE /\ Close("unrepairable")
            /\ UNCHANGED <<repairs, attempts>>
    /\ UNCHANGED <<transfer, seq, receiver, toServer, faults>>

\* A second MISS in answer to a frame that was sent twice is taken for the
\* answer to the repair: RuntimeError, "did not ACK".
ReceiveMissForRepair ==
    /\ pc = "repair"
    /\ Answers("MISS")
    /\ Close("notAcked")
    /\ UNCHANGED <<transfer, seq, attempts, repairs, receiver, toServer,
                   faults>>

ReceiveStats ==
    /\ pc = "end"
    /\ Receive("STATS")
    /\ Close("done")
    /\ UNCHANGED <<transfer, seq, attempts, repairs, receiver, toServer,
                   faults>>

\* Seeded defect: an answer to an earlier frame stays in the queue.
DiscardNothing == UNCHANGED toClient

Discard == toClient' = Tail(toClient)

\* Any other reply is an answer to an earlier frame; it costs an attempt.
ReceiveStale ==
    /\ waiting /\ toClient # <<>>
    /\ IF pc = "end" THEN ~ Receive("STATS")
                     ELSE ~ Answers("ACK") /\ ~ Answers("MISS")
    /\ Retry
    /\ Discard
    /\ UNCHANGED <<transfer, pc, seq, repairs, receiver, toServer, faults>>

ClientStep ==
    \/ Transmit \/ GiveUp \/ ReceiveAck \/ ReceiveMiss
    \/ ReceiveMissForRepair \/ ReceiveStats \/ ReceiveStale

-----------------------------------------------------------------------------
(* UdpRepairServer.run, one datagram at a time.                            *)

\* The datagram recvfrom returns, if there is one.
Oldest == IF server = "up" /\ toServer # <<>> THEN {Head(toServer)} ELSE {}

Reply(r) ==
    toClient' = IF pc \in Ended THEN toClient ELSE Append(toClient, r)

Count(xs) == counts' = [x \in Counters |->
                           IF x \in xs THEN counts[x] + 1 ELSE counts[x]]

\* The deterministic loss the experiment injects.
Dropped(m) ==
    /\ DropEvery > 0 /\ m.seq > 0 /\ m.seq % DropEvery = 0
    /\ m.seq \notin droppedOnce

DropDatagram(m) ==
    /\ m.t = "FRAME" /\ Dropped(m)
    /\ droppedOnce' = droppedOnce \cup {m.seq}
    /\ toServer' = Tail(toServer)
    /\ faults' = faults + 1
    /\ UNCHANGED <<transfer, client, dictionary, delivered, counts, server,
                   toClient>>

\* A frame that is not dropped is being handled.
Handling(m) == m.t = "FRAME" /\ ~ Dropped(m)

Handled == /\ toServer' = Tail(toServer)
           /\ UNCHANGED <<transfer, client, droppedOnce, server, faults>>

\* An ACK for what was delivered before.
AckAgain(m) ==
    /\ Handling(m) /\ m.seq \in DOMAIN delivered
    /\ Reply([t |-> "ACK", seq |-> m.seq])
    /\ Handled
    /\ UNCHANGED <<dictionary, delivered, counts>>

\* Seeded defect: a repair is not remembered as delivered.
DeliverForgetful(m, c) ==
    IF m.repair THEN UNCHANGED delivered ELSE delivered' = delivered @@ m.seq :> c

Deliver(m, c) ==
    delivered' = [q \in DOMAIN delivered \cup {m.seq} |->
                     IF q = m.seq THEN c ELSE delivered[q]]

\* Seeded defect: what was delivered before is accepted again.
NotDeliveredEver(m) == TRUE

NotDelivered(m) == m.seq \notin DOMAIN delivered

Cache(m) == dictionary' = Touched(dictionary, m.chunk)

AcceptFull(m) ==
    /\ Handling(m) /\ NotDelivered(m) /\ m.kind = "FULL"
    /\ Cache(m)
    /\ Deliver(m, m.chunk)
    /\ Count(IF m.repair THEN {"full", "repair"} ELSE {"full"})
    /\ Reply([t |-> "ACK", seq |-> m.seq])
    /\ Handled

AcceptRef(m) ==
    /\ Handling(m) /\ NotDelivered(m) /\ m.kind = "REF"
    /\ Holds(dictionary, m)
    /\ Deliver(m, Lookup(dictionary, CidOf[m.chunk]))
    /\ Count({"ref"})
    /\ Reply([t |-> "ACK", seq |-> m.seq])
    /\ Handled
    /\ UNCHANGED dictionary

ReplyMiss(m) == Reply([t |-> "MISS", seq |-> m.seq])

MissRef(m) ==
    /\ Handling(m) /\ NotDelivered(m) /\ m.kind = "REF"
    /\ ~ Holds(dictionary, m)
    /\ Count({"miss"})
    /\ ReplyMiss(m)
    /\ Handled
    /\ UNCHANGED <<dictionary, delivered>>

HandleFrame(m) == AckAgain(m) \/ AcceptFull(m) \/ AcceptRef(m) \/ MissRef(m)

\* The chunks delivered, joined in the order of their sequence numbers.
Output == Kept(delivered, DOMAIN delivered)

\* END: one STATS, and the server's socket is closed.
ServeEnd(m) ==
    /\ m.t = "END"
    /\ Reply([t |-> "STATS", ok |-> input \in Output])
    /\ server' = "served"
    /\ toServer' = <<>>
    /\ UNCHANGED <<transfer, client, dictionary, delivered, droppedOnce,
                   counts, faults>>

ServerStep ==
    \E m \in Oldest : DropDatagram(m) \/ HandleFrame(m) \/ ServeEnd(m)

\* recvfrom gives up after five seconds.  All the attempts of one exchange
\* take less, so it does only when the client has ended.
ServerTimeout ==
    /\ server = "up"
    /\ pc \in Ended /\ toServer = <<>>
    /\ server' = "timedOut"
    /\ UNCHANGED <<transfer, client, dictionary, delivered, droppedOnce,
                   counts, toServer, toClient, faults>>

-----------------------------------------------------------------------------
(* The network, and the whole.                                             *)

LoseDatagram ==
    /\ faults < MaxFaults
    /\ faults' = faults + 1
    /\ \/ /\ \E i \in DOMAIN toServer : toServer' = RemoveAt(toServer, i)
          /\ UNCHANGED toClient
       \/ /\ \E i \in DOMAIN toClient : toClient' = RemoveAt(toClient, i)
          /\ UNCHANGED toServer
    /\ UNCHANGED <<transfer, client, receiver>>

UdpNext ==
    ClientStep \/ Timeout \/ ServerStep \/ ServerTimeout \/ LoseDatagram

UdpSpec == UdpInit /\ [][UdpNext]_udpVars

\* Both threads run, and a socket's timeout expires if nothing arrives.
\* Nothing makes a datagram get lost or an answer be late.
FairUdp ==
    /\ UdpSpec
    /\ WF_udpVars(ClientStep)
    /\ WF_udpVars(Timeout /\ NothingOnItsWay)
    /\ WF_udpVars(ServerStep)
    /\ WF_udpVars(ServerTimeout)

-----------------------------------------------------------------------------
(* Properties.                                                             *)

Datagrams ==
    [t : {"FRAME"}, seq : Nat, repair : BOOLEAN, kind : {"FULL", "REF"},
     chunk : Chunks] \cup [t : {"END"}]

Answer == [t : {"ACK", "MISS"}, seq : Nat] \cup [t : {"STATS"}, ok : BOOLEAN]

UdpTypeOK ==
    /\ input \in Inputs
    /\ warm \in Seq(Entries) /\ dictionary \in Seq(Entries)
    /\ frames \in Seq(ModelFrames)
    /\ pc \in {"frame", "repair", "end"} \cup Ended
    /\ seq \in 0 .. Len(frames)
    /\ pc \in {"frame", "repair"} => seq < Len(frames)
    /\ attempts \in 0 .. MaxRetries + 1
    /\ waiting \in BOOLEAN
    /\ repairs \in Nat
    /\ delivered \in [DOMAIN delivered -> Chunks]
    /\ DOMAIN delivered \cup droppedOnce \subseteq 0 .. Len(frames) - 1
    /\ counts \in [Counters -> Nat]
    /\ server \in {"up", "served", "timedOut"}
    /\ toServer \in Seq(Datagrams) /\ toClient \in Seq(Answer)
    /\ faults \in Nat

\* Stop and wait: whatever is lost, late or sent twice, the receiver has all
\* frames before the client's and at most that one besides, so a stale ACK
\* never moves the client past a frame that was not delivered.
StopAndWait == DOMAIN delivered \in {0 .. seq - 1, 0 .. seq}

\* A client that gives up met more than max_retries losses, drops or late
\* answers in the whole run, however these are spread over its frames and
\* although a stale answer costs an attempt, or what was lost is the one
\* STATS the server sends.  It takes a MISS for the answer to its repair only
\* after a fault.  What it cannot repair was evicted by the receiver: as long
\* as that dictionary has room, every miss can be repaired.
FailureHasCause ==
    /\ pc = "gaveUp" => faults > MaxRetries \/ server = "served"
    /\ pc = "notAcked" => faults > 0
    /\ pc = "unrepairable" => Len(dictionary) = MaxDictChunks

\* The counts of the two ends agree at STATS, although misses, repairs and
\* acknowledged frames may each have been sent several times.
CountsMatch ==
    pc = "done" =>
        /\ counts["repair"] = repairs
        /\ counts["miss"] >= repairs
        /\ counts["full"] + counts["ref"] = Len(frames)

Got == [i \in {q + 1 : q \in DOMAIN delivered} |-> delivered[i - 1]]

Outcome == CASE pc = "done" -> "done"
             [] pc \in Ended \ {"done"} -> "failed"
             [] OTHER -> "running"

Transfer == INSTANCE ReliableTransfer WITH got <- Got, outcome <- Outcome

\* The UDP exchange is a reliable transfer of the input.
ImplementsTransfer == Transfer!Spec

\* docs/protocol_summary.md A.7: "A duplicate MISS is idempotent."
DuplicateMissIdempotent == pc # "notAcked"

\* docs/protocol_summary.md A.10: "Dictionary divergence: receiver emits MISS
\* and sender falls back to FULL."
DivergenceIsRepaired == pc # "unrepairable"

\* Both ends come to an end, whatever is lost.  A run without faults succeeds,
\* unless the receiver has evicted a chunk that only the transfer contained.
BothEnd ==
    /\ <>(pc \in Ended /\ server # "up")
    /\ [](faults = 0) => <>(pc \in {"done", "unrepairable"})
=============================================================================
