---------------------------- MODULE MCQuicServer ----------------------------
(***************************************************************************)
(* QuicServer against every peer that sends at most MaxFrames sequence     *)
(* numbers with nonces up to MaxNonce, on two chunks of different lengths. *)
(* The frames are all the well formed ones and one of each malformed kind. *)
(***************************************************************************)
EXTENDS QuicServer

CONSTANTS chunkA, chunkB,  \* two chunks of different lengths
          idA, idB,        \* their ids
          s1, s2,          \* two streams
          MaxFrames,       \* bound on sequence numbers and frame counts
          MaxNonce         \* bound on nonces

MCChunks == {chunkA, chunkB}
MCCids == {idA, idB}
MCCidOf == [c \in MCChunks |-> IF c = chunkA THEN idA ELSE idB]
MCLengthOf == [c \in MCChunks |-> IF c = chunkA THEN 1 ELSE 2]
MCTargets == {<<chunkA, chunkB>>, <<chunkA>>}

Frame(kind, cid, length, offset, nonce, payload) ==
    [kind |-> kind, cid |-> cid, length |-> length, offset |-> offset,
     nonce |-> nonce, tagged |-> TRUE, inContext |-> TRUE, payload |-> payload]

Nonces == 1 .. MaxNonce
Offsets == 0 .. 2

FullFrames ==
    {Frame("FULL", CidOf[c], LengthOf[c], o, n, c) :
        c \in Chunks, o \in Offsets, n \in Nonces}
RefFrames ==
    {Frame("REF", CidOf[c], LengthOf[c], o, n, NoPayload) :
        c \in Chunks, o \in Offsets, n \in Nonces}

\* Authentic frames that accept_frame must refuse or not act on.
OddFrames ==
    UNION {{Frame("FULL", idA, 2, 0, n, chunkB),         \* filed under another id
            Frame("FULL", idA, 2, 0, n, chunkA),         \* wrong length
            Frame("REF", idA, 2, 0, n, NoPayload),  \* wrong length
            Frame("OTHER", idA, 1, 0, n, NoPayload)} : n \in Nonces}

\* Frames that verify_frame refuses.
BadFrames ==
    {[Frame("FULL", idA, 1, 0, 1, chunkA) EXCEPT !.tagged = FALSE],
     [Frame("FULL", idA, 1, 0, 1, chunkA) EXCEPT !.inContext = FALSE]}

MCMessages ==
    [t : {"HELLO"}, valid : {TRUE}, count : 0 .. MaxFrames]
    \cup [t : {"HELLO"}, valid : BOOLEAN, count : {-1}]
    \cup [t : {"FRAME"}, seq : 0 .. MaxFrames - 1, repair : BOOLEAN,
          frame : FullFrames \cup RefFrames \cup OddFrames \cup BadFrames]
    \cup [t : {"END_ROUND", "FINISH", "UNKNOWN", "MALFORMED"}]

MCStreams == {s1, s2}

\* The streams are interchangeable, and no liveness property is checked here.
Symmetry == Permutations(MCStreams)
=============================================================================
