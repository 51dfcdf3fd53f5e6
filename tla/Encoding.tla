------------------------------ MODULE Encoding ------------------------------
(***************************************************************************)
(* What the two encoders make of some data (redulink_model.encode with     *)
(* miss_rate 0, and redulink_secure.encode): a REF for every chunk the     *)
(* sender's dictionary has, a FULL, which enters that dictionary, for any  *)
(* other.                                                                  *)
(***************************************************************************)
EXTENDS ChunkDictionary

CONSTANTS MaxDictChunks,  \* MAX_DICT_CHUNKS
          Inputs          \* the sequences of chunks that may be encoded

ASSUME CapacityAssumption == MaxDictChunks \in Nat \ {0}
ASSUME InputsAssumption == Inputs \subseteq Seq(Chunks)

ModelFrames == [kind : {"FULL", "REF"}, chunk : Chunks]

\* A Frame without the payload: a FULL carries the chunk its cid is of.
FrameOf(c, dict) ==
    [kind |-> IF CidOf[c] \in Keys(dict) THEN "REF" ELSE "FULL", chunk |-> c]

\* What encode remembers of a chunk: one it refers to is not touched.
Remembered(dict, c) ==
    IF CidOf[c] \in Keys(dict) THEN dict
                               ELSE TouchLru(dict, CidOf[c], c, MaxDictChunks)

EncoderBefore(i, data, dict) ==
    FoldLeft(Remembered, dict, SubSeq(data, 1, i - 1))

Encoded(data, dict) ==
    [i \in DOMAIN data |-> FrameOf(data[i], EncoderBefore(i, data, dict))]

\* redulink_secure.encode: frame i has nonce i and the offset its chunk starts
\* at; `genuine' is whether tag, epoch, scope and stream are the receiver's.
SecurelyEncoded(data, dict) ==
    LET frames == Encoded(data, dict)
    IN  [i \in DOMAIN data |->
            [kind |-> frames[i].kind, chunk |-> data[i], nonce |-> i,
             offset |-> FoldLeft(Advanced, 0, SubSeq(data, 1, i - 1)),
             genuine |-> TRUE]]

\* thin_dictionary keeps what its random numbers spare, but never all of it.
RandomlyThinned(d) ==
    UNION {Kept(d, P) : P \in {Q \in SUBSET DOMAIN d : Q = DOMAIN d => d = <<>>}}

\* The entry under the id of the chunk f stands for has the length f claims.
Holds(d, f) ==
    /\ CidOf[f.chunk] \in Keys(d)
    /\ LengthOf[Lookup(d, CidOf[f.chunk])] = LengthOf[f.chunk]

\* touch_lru with the payload of a FULL.
Touched(d, c) == TouchLru(d, CidOf[c], c, MaxDictChunks)

\* One turn of the loop of redulink_model.decode, which raises ValueError at a
\* miss.
DecodedFrame(st, f) ==
    CASE ~ st.ok -> st
      [] st.ok /\ f.kind = "FULL" ->
            [st EXCEPT !.dictionary = Touched(@, f.chunk),
                       !.output = Append(@, f.chunk)]
      [] st.ok /\ f.kind = "REF" /\ Holds(st.dictionary, f) ->
            [st EXCEPT !.output = Append(@, Lookup(st.dictionary, CidOf[f.chunk]))]
      [] OTHER -> [st EXCEPT !.ok = FALSE]

\* redulink_model.decode.
Decoded(frames, dict) ==
    FoldLeft(DecodedFrame, [dictionary |-> dict, output |-> <<>>, ok |-> TRUE],
             frames)
=============================================================================
