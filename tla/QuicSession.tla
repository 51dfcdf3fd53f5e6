---------------------------- MODULE QuicSession ----------------------------
(***************************************************************************)
(* One run of the aioquic experiment: the client half of run_async, the    *)
(* encoder of redulink_secure.py it calls, the server of QuicServer, and   *)
(* the QUIC stream between them.  The stream loses, repeats and reorders   *)
(* nothing while the connection lives, but the connection may be lost at   *)
(* any time, with whatever the server has not read yet.                    *)
(***************************************************************************)
EXTENDS QuicServer

CONSTANT Stream   \* the one stream the client opens

ASSUME StreamAssumption == Streams = {Stream}

VARIABLES
    warm,        \* sender_dict: the dictionary of the warm bytes
    encoders,    \* the dictionary of encode now, and history: before each frame
    frames,      \* the frames encode has emitted; frame seq is frames[seq + 1]
    pc,          \* where the client is in run_async
    sent,        \* how many of the frames it has sent
    toRepair,    \* the items of MISSING it has still to repair
    nextNonce,   \* next_nonce
    repaired,    \* how many repairs it has sent
    stats,       \* the STATS it was told, if any
    toServer,    \* the bytes of the stream the server has not read
    link         \* the connection: up, failed, or closed for being idle

client == <<warm, encoders, frames, pc, sent, toRepair, nextNonce, repaired,
            stats>>
server == vars
sessionVars == <<server, client, toServer, link>>

NoStats == [t |-> "none"]

SessionInit ==
    /\ warm \in WarmDictionaries(MaxDictChunks)
    /\ Init
    /\ dictionary \in Thinned(warm, MissingEvery)
    /\ encoders = <<warm>>
    /\ frames = <<>>
    /\ pc = "encode"
    /\ sent = 0
    /\ toRepair = {}
    /\ nextNonce = 0
    /\ repaired = 0
    /\ stats = NoStats
    /\ toServer = <<>>
    /\ link = "up"

-----------------------------------------------------------------------------
(* secure.encode, one chunk at a time.                                     *)

\* The dictionary encode updates as it emits frames.
encoder == encoders[Len(frames) + 1]

\* offset of the next frame: the sum of the lengths emitted so far.
NextOffset ==
    IF frames = <<>> THEN 0 ELSE Last(frames).offset + Last(frames).length

\* Seeded defect: the encoder refers to any chunk it has sent before.
CanReferForever(c) ==
    \/ CidOf[c] \in Keys(encoder)
    \/ \E i \in DOMAIN frames : frames[i].cid = CidOf[c]

CanRefer(c) == CidOf[c] \in Keys(encoder)

\* The nonces of the initial frames count from 1.
SecureFrame(kind, c, payload) ==
    [kind |-> kind, cid |-> CidOf[c], length |-> LengthOf[c],
     offset |-> NextOffset, nonce |-> Len(frames) + 1,
     tagged |-> TRUE, inContext |-> TRUE, payload |-> payload]

\* A chunk in the dictionary is sent as REF, which does not touch the LRU
\* order; any other as FULL, which does.
Encode ==
    /\ pc = "encode"
    /\ Len(frames) < Len(target)
    /\ LET c == target[Len(frames) + 1]
       IN  IF CanRefer(c)
           THEN /\ frames' = Append(frames, SecureFrame("REF", c, NoPayload))
                /\ encoders' = Append(encoders, encoder)
           ELSE /\ frames' = Append(frames, SecureFrame("FULL", c, c))
                /\ encoders' = Append(encoders, Touched(encoder, c))
    /\ UNCHANGED <<server, warm, pc, sent, toRepair, nextNonce, repaired,
                   stats, toServer, link>>

-----------------------------------------------------------------------------
(* The client's side of the stream.                                        *)

\* Writes are not awaited beyond the local buffer: after the connection is
\* lost they go nowhere.  A message of the client fits MAX_MESSAGE_BYTES, as
\* one does unless chunk_size is of that order.
Transmit(m) ==
    toServer' = IF link = "up" THEN Append(toServer, m) ELSE toServer

FrameMessage(seq, f, isRepair) ==
    [t |-> "FRAME", seq |-> seq, repair |-> isRepair, frame |-> f]

SendHello ==
    /\ pc = "encode"
    /\ Len(frames) = Len(target)
    /\ Transmit([t |-> "HELLO", valid |-> TRUE, count |-> Len(frames)])
    /\ pc' = "frames"
    /\ UNCHANGED <<server, warm, encoders, frames, sent, toRepair, nextNonce,
                   repaired, stats, link>>

\* Seeded defect: END_ROUND is noticed one frame too late.
SendFramePastEnd ==
    /\ pc = "frames"
    /\ sent <= Len(frames)
    /\ Transmit([t |-> "UNKNOWN"])
    /\ sent' = sent + 1
    /\ UNCHANGED <<server, warm, encoders, frames, pc, toRepair, nextNonce,
                   repaired, stats, link>>

SendFrame ==
    /\ pc = "frames"
    /\ sent < Len(frames)
    /\ Transmit(FrameMessage(sent, frames[sent + 1], FALSE))
    /\ sent' = sent + 1
    /\ UNCHANGED <<server, warm, encoders, frames, pc, toRepair, nextNonce,
                   repaired, stats, link>>

SendEndRound ==
    /\ pc = "frames"
    /\ sent = Len(frames)
    /\ Transmit([t |-> "END_ROUND"])
    /\ pc' = "missing"
    /\ UNCHANGED <<server, warm, encoders, frames, sent, toRepair, nextNonce,
                   repaired, stats, link>>

\* The n-th reply of the server has reached the client.
Answered(n) == link = "up" /\ Len(replies[Stream]) >= n

\* next_nonce follows the greatest nonce of the initial frames.  max() of no
\* frames raises ValueError, and a reply other than MISSING AssertionError.
ReadMissing ==
    /\ pc = "missing"
    /\ Answered(1)
    /\ LET reply == replies[Stream][1]
       IN  IF reply.t = "MISSING" /\ frames # <<>>
           THEN /\ pc' = "repair"
                /\ toRepair' = reply.items
                /\ nextNonce' = Last(frames).nonce + 1
           ELSE /\ pc' = "aborted"
                /\ UNCHANGED <<toRepair, nextNonce>>
    /\ UNCHANGED <<server, warm, encoders, frames, sent, repaired, stats,
                   toServer, link>>

\* Seeded defect: repairs start again from the nonce of the reference.
FullRepairOldNonce(ref, c) ==
    [ref EXCEPT !.kind = "FULL", !.length = LengthOf[c], !.payload = c]

\* make_full_repair: the reference's metadata, the payload, a new nonce.
FullRepair(ref, c) ==
    [ref EXCEPT !.kind = "FULL", !.length = LengthOf[c], !.nonce = nextNonce,
                !.payload = c]

RepairPayload(seq) == Lookup(warm, frames[seq + 1].cid)

SendRepair ==
    /\ pc = "repair"
    /\ toRepair # {}
    /\ LET seq == Min(toRepair)
           ref == frames[seq + 1]
       IN  IF ref.cid \in Keys(warm)
           THEN /\ Transmit(FrameMessage(seq,
                        FullRepair(ref, RepairPayload(seq)), TRUE))
                /\ toRepair' = toRepair \ {seq}
                /\ nextNonce' = nextNonce + 1
                /\ repaired' = repaired + 1
                /\ UNCHANGED pc
           ELSE \* RuntimeError: sender has no repair payload
                /\ pc' = "aborted"
                /\ UNCHANGED <<toRepair, nextNonce, repaired, toServer>>
    /\ UNCHANGED <<server, warm, encoders, frames, sent, stats, link>>

SendFinish ==
    /\ pc = "repair"
    /\ toRepair = {}
    /\ Transmit([t |-> "FINISH"])
    /\ pc' = "stats"
    /\ UNCHANGED <<server, warm, encoders, frames, sent, toRepair, nextNonce,
                   repaired, stats, link>>

ReadStats ==
    /\ pc = "stats"
    /\ Answered(2)
    /\ IF replies[Stream][2].t = "STATS"
       THEN pc' = "closing" /\ stats' = replies[Stream][2]
       ELSE pc' = "aborted" /\ UNCHANGED stats
    /\ UNCHANGED <<server, warm, encoders, frames, sent, toRepair, nextNonce,
                   repaired, toServer, link>>

Gone == link # "up"

\* write_eof and drain may fail unnoticed, the ping that follows may not: it
\* raises ConnectionError on a connection that is gone, and what STATS said is
\* lost with the exception.
Close ==
    /\ pc = "closing"
    /\ pc' = IF Gone THEN "aborted" ELSE "done"
    /\ UNCHANGED <<server, warm, encoders, frames, sent, toRepair, nextNonce,
                   repaired, stats, toServer, link>>

\* Seeded defect: only the first read notices that the connection is gone.
ReadFailsOnce ==
    /\ pc = "missing"
    /\ Gone
    /\ pc' = "aborted"
    /\ UNCHANGED <<server, warm, encoders, frames, sent, toRepair, nextNonce,
                   repaired, stats, toServer, link>>

\* A read on a connection that is gone raises IncompleteReadError.
ReadFails ==
    /\ pc \in {"missing", "stats"}
    /\ Gone
    /\ pc' = "aborted"
    /\ UNCHANGED <<server, warm, encoders, frames, sent, toRepair, nextNonce,
                   repaired, stats, toServer, link>>

-----------------------------------------------------------------------------
(* The server's side, and the connection.                                  *)

\* The server task reads the next message and handles it.
ServerStep ==
    /\ phase[Stream] # "closed"
    /\ toServer # <<>>
    /\ Handle(Stream, Head(toServer))
    /\ toServer' = Tail(toServer)
    /\ UNCHANGED <<client, link>>

\* It has read all that reached it of a connection that is gone.
ServerEnd ==
    /\ Gone
    /\ toServer = <<>>
    /\ Abandon(Stream)
    /\ UNCHANGED <<client, toServer, link>>

\* Any connection error: the server keeps what had already arrived.
ConnectionLost ==
    /\ link = "up"
    /\ pc \notin {"encode", "done", "aborted"}
    /\ link' = "failed"
    /\ \E n \in 0 .. Len(toServer) : toServer' = SubSeq(toServer, 1, n)
    /\ UNCHANGED <<server, client>>

\* Both ends wait for the other, or the server's task has ended: QUIC's idle
\* timeout closes the connection.
IdleTimeout ==
    /\ link = "up"
    /\ toServer = <<>> \/ phase[Stream] = "closed"
    /\ \/ pc = "missing" /\ ~ Answered(1)
       \/ pc = "stats" /\ ~ Answered(2)
    /\ link' = "idle"
    /\ UNCHANGED <<server, client, toServer>>

ClientStep ==
    \/ Encode \/ SendHello \/ SendFrame \/ SendEndRound \/ ReadMissing
    \/ SendRepair \/ SendFinish \/ ReadStats \/ ReadFails \/ Close

SessionNext ==
    ClientStep \/ ServerStep \/ ServerEnd \/ ConnectionLost \/ IdleTimeout

SessionSpec == SessionInit /\ [][SessionNext]_sessionVars

\* The event loop runs every task that is ready, and a QUIC endpoint closes an
\* idle connection.  Nothing makes a connection fail.
FairSession ==
    /\ SessionSpec
    /\ WF_sessionVars(ClientStep)
    /\ WF_sessionVars(ServerStep \/ ServerEnd)
    /\ WF_sessionVars(IdleTimeout)

-----------------------------------------------------------------------------
(* Properties.                                                             *)

SessionTypeOK ==
    /\ TypeOK
    /\ warm \in Seq(Entries)
    /\ frames \in Seq(Frames) /\ Len(frames) <= Len(target)
    /\ encoders \in Seq(Seq(Entries)) /\ Len(encoders) = Len(frames) + 1
    /\ pc \in {"encode", "frames", "missing", "repair", "stats", "closing", "done",
               "aborted"}
    /\ sent \in 0 .. Len(frames)
    /\ toRepair \subseteq 0 .. Len(frames) - 1
    /\ nextNonce \in Nat /\ repaired \in Nat
    /\ toServer \in Seq(MessageType)
    /\ link \in {"up", "failed", "idle"}

\* Every reference the receiver misses names a chunk of the sender's warm
\* dictionary, so the client always has the payload of a repair: the chunks
\* it sent FULL are never evicted by the receiver while it refers to them,
\* although the two dictionaries hold different chunks once thinned.
EveryMissRepairable ==
    /\ \A q \in DOMAIN pendingRepairs : pendingRepairs[q].cid \in Keys(warm)
    /\ \A q \in toRepair : frames[q + 1].cid \in Keys(warm)

\* The server never answers the client of run_async with an ERROR, whatever
\* has been evicted, missed or repaired: sequence numbers, offsets and nonces
\* of initial frames and repairs always pass accept_frame.  Only an input of
\* more chunks than accept_hello agrees to is refused.
NeverRejected ==
    Len(target) <= MaxFrameCount =>
        \A i \in DOMAIN replies[Stream] : replies[Stream][i].t # "ERROR"

FramesOfKind(k) == Cardinality({i \in DOMAIN frames : frames[i].kind = k})

\* What test_aioquic_experiment asserts of a run: a client that has read STATS was
\* told that the digest matches, and the server counted what the client sent.
VerdictAgrees ==
    pc \in {"closing", "done"} =>
        /\ stats.ok
        /\ stats.counts["miss"] = repaired
        /\ stats.counts["repair"] = repaired
        /\ stats.counts["full"] = FramesOfKind("FULL")
        /\ stats.counts["ref"] + repaired = FramesOfKind("REF")

\* What the receiver has, place by place, and what the sender knows.
Got == [i \in {q + 1 : q \in DOMAIN delivered} |-> delivered[i - 1]]

Outcome == CASE pc = "done" -> "done"
             [] pc = "aborted" -> "failed"
             [] OTHER -> "running"

Transfer == INSTANCE ReliableTransfer WITH
    input <- target, got <- Got, outcome <- Outcome

\* The session is a reliable transfer of the input: the receiver never holds
\* a wrong chunk, not even half way, and success means all of them.
ImplementsTransfer == Transfer!Spec

\* What keeps a run from success: an empty input (the client takes max() of its
\* frames) or too long a one, a connection that fails, or more misses than fit
\* one message.
Obstacle ==
    \/ Len(target) \notin 1 .. MaxFrameCount
    \/ link = "failed"
    \/ Cardinality(DOMAIN pendingRepairs) > MaxMissing

\* run_async ends, with success or with an exception, even if the connection
\* is lost at the worst moment, the last ping included; without an obstacle it
\* succeeds.
SessionEnds ==
    /\ <>(pc \in {"done", "aborted"})
    /\ <>(pc = "done" \/ Obstacle)
=============================================================================
