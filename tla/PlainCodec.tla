---------------------------- MODULE PlainCodec ----------------------------
(***************************************************************************)
(* redulink_model.encode and decode.  The encoder may be told of a chance  *)
(* that its dictionary misses a chunk it has (miss_rate); the decoder      *)
(* starts from a warm dictionary of its own, which only run_bytes makes    *)
(* the same.                                                               *)
(*                                                                         *)
(* The frames come from encode, so the checks of decode that compare a     *)
(* payload with its length and its cid never fail and are left out.        *)
(***************************************************************************)
EXTENDS Encoding

VARIABLES
    input,       \* the chunks of data
    senderWarm, receiverWarm,  \* what warm_dictionary makes of each end
    pc,          \* "encode", "decode", "done", "rejected" by a ValueError
    frames,      \* what encode has made so far
    encoders,    \* history: the encoder's dictionary before each frame, and now
    dictionary,  \* of the decoder
    output       \* out

source == <<input, senderWarm, receiverWarm>>
codecVars == <<source, pc, frames, encoders, dictionary, output>>

CodecInit ==
    /\ input \in Inputs
    /\ senderWarm \in WarmDictionaries(MaxDictChunks)
    /\ receiverWarm \in WarmDictionaries(MaxDictChunks)
    /\ pc = "encode"
    /\ frames = <<>>
    /\ encoders = <<senderWarm>>
    /\ dictionary = receiverWarm
    /\ output = <<>>

\* The encoder's dictionary before frame i, counted from 1.
Before(i) == encoders[i]

\* Seeded defect: what was sent is referred to, evicted or not.
MayReferEvicted(d, c) == \E i \in DOMAIN frames : frames[i].chunk = c

\* can_ref, whatever the random number.
MayRefer(d, c) == CidOf[c] \in Keys(d)

\* One turn of the loop of encode.
EncodeChunk ==
    /\ pc = "encode"
    /\ Len(frames) < Len(input)
    /\ LET c == input[Len(frames) + 1]
           d == Before(Len(frames) + 1)
       IN  \/ /\ MayRefer(d, c)
              /\ frames' = Append(frames, [kind |-> "REF", chunk |-> c])
              /\ encoders' = Append(encoders, d)
           \/ /\ frames' = Append(frames, [kind |-> "FULL", chunk |-> c])
              /\ encoders' = Append(encoders, Touched(d, c))
    /\ UNCHANGED <<source, pc, dictionary, output>>

StartDecoding ==
    /\ pc = "encode"
    /\ Len(frames) = Len(input)
    /\ pc' = "decode"
    /\ UNCHANGED <<source, frames, encoders, dictionary, output>>

\* The frame the loop of decode is at.
At == frames[Len(output) + 1]

Decoding(kind) ==
    /\ pc = "decode"
    /\ Len(output) < Len(frames)
    /\ At.kind = kind

DecodeFull ==
    /\ Decoding("FULL")
    /\ dictionary' = Touched(dictionary, At.chunk)
    /\ output' = Append(output, At.chunk)
    /\ UNCHANGED <<source, pc, frames, encoders>>

\* Seeded defect: a referenced chunk becomes the newest entry.
AfterRefTouched == Touched(dictionary, At.chunk)

\* What decode remembers of a REF: nothing.
AfterRef == dictionary

DecodeRef ==
    /\ Decoding("REF")
    /\ Holds(dictionary, At)
    /\ output' = Append(output, Lookup(dictionary, CidOf[At.chunk]))
    /\ dictionary' = AfterRef
    /\ UNCHANGED <<source, pc, frames, encoders>>

\* Seeded defect: what was built before the miss is returned.
AfterMissReturned == "done"

\* decode raises ValueError, "REF miss" or "REF frame length mismatch".
AfterMiss == "rejected"

RejectMiss ==
    /\ Decoding("REF")
    /\ ~ Holds(dictionary, At)
    /\ pc' = AfterMiss
    /\ UNCHANGED <<source, frames, encoders, dictionary, output>>

Return ==
    /\ pc = "decode"
    /\ Len(output) = Len(frames)
    /\ pc' = "done"
    /\ UNCHANGED <<source, frames, encoders, dictionary, output>>

CodecNext ==
    \/ EncodeChunk \/ StartDecoding
    \/ DecodeFull \/ DecodeRef \/ RejectMiss \/ Return

CodecSpec == CodecInit /\ [][CodecNext]_codecVars

-----------------------------------------------------------------------------
(* Properties.                                                             *)

CodecTypeOK ==
    /\ input \in Inputs
    /\ senderWarm \in Seq(Entries) /\ receiverWarm \in Seq(Entries)
    /\ pc \in {"encode", "decode", "done", "rejected"}
    /\ frames \in Seq(ModelFrames) /\ Len(frames) <= Len(input)
    /\ encoders \in Seq(Seq(Entries)) /\ Len(encoders) = Len(frames) + 1
    /\ dictionary \in Seq(Entries) /\ Len(dictionary) <= MaxDictChunks
    /\ output \in Seq(Chunks) /\ Len(output) <= Len(frames)

\* From the same warm bytes the decoder's dictionary is, at every frame, the
\* one the encoder had, order of eviction included: neither end touches what
\* it refers to, and a FULL of a known chunk moves it to the end on both.
LockStep ==
    senderWarm = receiverWarm => dictionary = Before(Len(output) + 1)

\* From the same warm bytes no frame is ever refused, however small the
\* dictionary and whatever the encoder pretends to miss.
RoundTrips == senderWarm = receiverWarm => pc # "rejected"

Transfer == INSTANCE ReliableTransfer WITH
    got <- output,
    outcome <- CASE pc = "done" -> "done"
                 [] pc = "rejected" -> "failed"
                 [] OTHER -> "running"

\* Whatever the decoder knows, it builds the input from its beginning, never
\* a wrong chunk, and returns only when all of it is there.
ImplementsTransfer == Transfer!Spec
=============================================================================
