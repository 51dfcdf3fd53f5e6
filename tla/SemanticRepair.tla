--------------------------- MODULE SemanticRepair ---------------------------
(***************************************************************************)
(* semantic_repair_run of prototypes/redulink_semantic_repair_demo.py: the *)
(* frames of encode meet a receiver whose dictionary lacks entries, and a  *)
(* sender that follows its own FULL frames repairs each miss at once.      *)
(***************************************************************************)
EXTENDS Encoding

VARIABLES
    input, warm, thinned,  \* what the run starts with
    frames,              \* of encode
    encoders,            \* history: encode's dictionary before each frame, and now
    pc,                  \* "encode", "run", "done", "failed" by a ValueError
    sender, receiver,    \* the two dictionaries
    output,              \* repaired_output
    misses

given == <<input, warm, thinned>>
encoding == <<frames, encoders>>
repairVars == <<given, encoding, pc, sender, receiver, output, misses>>

RepairInit ==
    /\ input \in Inputs
    /\ warm \in WarmDictionaries(MaxDictChunks)
    /\ thinned \in RandomlyThinned(warm)
    /\ frames = <<>>
    /\ encoders = <<warm>>
    /\ pc = "encode"
    /\ sender = warm
    /\ receiver = thinned
    /\ output = <<>>
    /\ misses = 0

\* encode, chunk by chunk.
EncodeChunk ==
    /\ pc = "encode"
    /\ Len(frames) < Len(input)
    /\ LET c == input[Len(frames) + 1]
           d == encoders[Len(frames) + 1]
       IN  /\ frames' = Append(frames, FrameOf(c, d))
           /\ encoders' = Append(encoders, Remembered(d, c))
    /\ UNCHANGED <<given, pc, sender, receiver, output, misses>>

StartTransfer ==
    /\ pc = "encode"
    /\ Len(frames) = Len(input)
    /\ pc' = "run"
    /\ UNCHANGED <<given, encoding, sender, receiver, output, misses>>

\* The frame the loop is at.
At == frames[Len(output) + 1]

Processing(kind) == pc = "run" /\ Len(output) < Len(frames) /\ At.kind = kind

\* Seeded defect: the sender does not follow its own FULL frames.
SenderAfterFullUntouched == sender

SenderAfterFull == Touched(sender, At.chunk)

ProcessFull ==
    /\ Processing("FULL")
    /\ receiver' = Touched(receiver, At.chunk)
    /\ sender' = SenderAfterFull
    /\ output' = Append(output, At.chunk)
    /\ UNCHANGED <<given, encoding, pc, misses>>

ProcessRef ==
    /\ Processing("REF")
    /\ Holds(receiver, At)
    /\ output' = Append(output, Lookup(receiver, CidOf[At.chunk]))
    /\ UNCHANGED <<given, encoding, pc, sender, receiver, misses>>

ReceiverAfterRepair == Touched(receiver, At.chunk)

SenderAfterRepair == sender

RepairPayload == Lookup(sender, CidOf[At.chunk])

\* A miss is repaired at once, or ValueError: "sender cannot repair missing REF".
ProcessMiss ==
    /\ Processing("REF")
    /\ ~ Holds(receiver, At)
    /\ misses' = misses + 1
    /\ IF Holds(sender, At)
       THEN /\ receiver' = ReceiverAfterRepair
            /\ sender' = SenderAfterRepair
            /\ output' = Append(output, RepairPayload)
            /\ UNCHANGED pc
       ELSE /\ pc' = "failed"
            /\ UNCHANGED <<sender, receiver, output>>
    /\ UNCHANGED <<given, encoding>>

\* reconstruction_ok compares the output with the data.
Return ==
    /\ pc = "run"
    /\ Len(output) = Len(frames)
    /\ pc' = IF output = input THEN "done" ELSE "failed"
    /\ UNCHANGED <<given, encoding, sender, receiver, output, misses>>

RepairNext ==
    \/ EncodeChunk \/ StartTransfer
    \/ ProcessFull \/ ProcessRef \/ ProcessMiss \/ Return

RepairSpec == RepairInit /\ [][RepairNext]_repairVars

-----------------------------------------------------------------------------
(* Properties.                                                             *)

RepairTypeOK ==
    /\ input \in Inputs
    /\ warm \in Seq(Entries) /\ thinned \in Seq(Entries)
    /\ frames \in Seq(ModelFrames) /\ Len(frames) <= Len(input)
    /\ encoders \in Seq(Seq(Entries)) /\ Len(encoders) = Len(frames) + 1
    /\ pc \in {"encode", "run", "done", "failed"}
    /\ sender \in Seq(Entries) /\ receiver \in Seq(Entries)
    /\ Len(sender) <= MaxDictChunks /\ Len(receiver) <= MaxDictChunks
    /\ output \in Seq(Chunks) /\ Len(output) <= Len(frames)
    /\ misses \in Nat

\* A sender that touches its FULL frames and nothing else follows its encoder
\* entry by entry, although the encoder ran to its end before.
SenderFollowsEncoder == sender = encoders[Len(output) + 1]

\* Seen from the transfer, a miss at any place can be repaired: the sender
\* still has what it refers to, however small the dictionaries and whatever
\* the receiver evicted.  (UdpRepair, whose sender repairs from its warm
\* dictionary, cannot promise this.)
EveryMissRepaired == pc # "failed"

Known(d) == {d[i].chunk : i \in DOMAIN d}

\* As long as nothing need be evicted, a repair costs a missing entry once: the
\* receiver keeps what it brings.
MissedOnce ==
    Cardinality(Known(warm) \cup ToSet(input)) <= MaxDictChunks =>
        misses <= Cardinality(Known(warm) \ Known(thinned))

Transfer == INSTANCE ReliableTransfer WITH
    got <- output, outcome <- IF pc \in {"encode", "run"} THEN "running" ELSE pc

\* The run is a reliable transfer of the input.
ImplementsTransfer == Transfer!Spec
=============================================================================
