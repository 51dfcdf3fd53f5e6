------------------------------ MODULE Chunker ------------------------------
(***************************************************************************)
(* fixed_chunks and cdc_chunks of redulink_model.py.  The loop of          *)
(* cdc_chunks takes its data byte by byte.  The target is a power of two,  *)
(* as it is wherever the repository sets one, so of the 32 bits of the     *)
(* hash only those under the mask matter, and no others flow into them.    *)
(***************************************************************************)
EXTENDS Integers, Sequences, FiniteSets, SequencesExt

CONSTANTS Bytes,    \* the values a byte has
          Bits,     \* the target is the power 2^Bits
          MinSize, MaxSize,
          FixedSize,  \* of fixed_chunks
          MaxData   \* bound: the length of the data

ASSUME ChunkerAssumption ==
    /\ Bytes \subseteq Nat /\ Bits \in 1 .. 16
    /\ MinSize \in Nat /\ MinSize >= Bits
    /\ MaxSize \in Nat /\ MaxSize >= MinSize
    /\ FixedSize \in Nat \ {0} /\ MaxData \in Nat

\* 0x9E3779B1 modulo 2^16.
Golden == 31153

VARIABLES data,    \* the bytes so far
          start, h, chunks,
          ended    \* there are no more

chunkerVars == <<data, start, h, chunks, ended>>

ChunkerInit ==
    /\ data = <<>> /\ start = 0 /\ h = 0 /\ chunks = <<>>
    /\ ended = FALSE

TwoTo[k \in 0 .. Bits] == IF k = 0 THEN 1 ELSE 2 * TwoTo[k - 1]

Target == TwoTo[Bits]

Hashed(b) == (2 * h + b + Golden) % Target

\* Seeded defect: a chunk of just the least size is not cut.
CutsLate(size, hash) == size > MinSize /\ (hash = 0 \/ size >= MaxSize)

Cuts(size, hash) == size >= MinSize /\ (hash = 0 \/ size >= MaxSize)

TakeByte(b) ==
    /\ ~ ended /\ Len(data) < MaxData
    /\ data' = Append(data, b)
    /\ IF Cuts(Len(data) + 1 - start, Hashed(b))
       THEN /\ chunks' = Append(chunks, SubSeq(data', start + 1, Len(data')))
            /\ start' = Len(data')
            /\ h' = 0
       ELSE /\ h' = Hashed(b)
            /\ UNCHANGED <<chunks, start>>
    /\ UNCHANGED ended

Remains == start < Len(data)

End ==
    /\ ~ ended
    /\ ended' = TRUE
    /\ chunks' = IF Remains THEN Append(chunks, SubSeq(data, start + 1, Len(data)))
                            ELSE chunks
    /\ UNCHANGED <<data, start, h>>

ChunkerNext == (\E b \in Bytes : TakeByte(b)) \/ End

ChunkerSpec == ChunkerInit /\ [][ChunkerNext]_chunkerVars

\* range(0, len(data), size).
Starts(s) == {n \in 0 .. Len(s) - 1 : n % FixedSize = 0}

FixedChunks(s) ==
    [i \in 1 .. Cardinality(Starts(s)) |->
        SubSeq(s, FixedSize * (i - 1) + 1,
                  IF FixedSize * i < Len(s) THEN FixedSize * i ELSE Len(s))]

-----------------------------------------------------------------------------
(* Properties.                                                             *)

\* The chunks put together are the data: nothing is left out, repeated or
\* empty, a single byte at the end included.
Tiles ==
    /\ FlattenSeq(chunks) = IF ended THEN data ELSE SubSeq(data, 1, start)
    /\ <<>> \notin ToSet(chunks)

Whole == {i \in DOMAIN chunks : ended => i < Len(chunks)}

\* All chunks but the last have a size between the two bounds, and the last is
\* not above them.
SizesInBounds ==
    /\ \A i \in Whole : Len(chunks[i]) \in MinSize .. MaxSize
    /\ \A i \in DOMAIN chunks : Len(chunks[i]) <= MaxSize

\* What the rolling hash is to be of the first n bytes of s: the last Bits of
\* them, each weighted by its age.
WindowHash(s, n) ==
    LET sum[k \in 0 .. Bits] ==
            IF k = 0 THEN 0
            ELSE sum[k - 1] + (s[n - k + 1] + Golden) * TwoTo[k - 1]
    IN  sum[Bits] % Target

\* A boundary depends on the bytes before it and not on where the data began: a
\* chunk ends at its first place past the least size where those bytes hash to
\* 0, or at the greatest size.
CutsByContent ==
    \A i \in Whole :
        LET s == chunks[i]
        IN  /\ WindowHash(s, Len(s)) = 0 \/ Len(s) = MaxSize
            /\ \A n \in MinSize .. Len(s) - 1 : WindowHash(s, n) # 0

\* What AuthUdp and the offset check of the receivers rest on: fixed chunks put
\* together are the data, and all but the last have the same size.
FixedChunksTile ==
    /\ FlattenSeq(FixedChunks(data)) = data
    /\ \A i \in DOMAIN FixedChunks(data) :
          IF i < Len(FixedChunks(data)) THEN Len(FixedChunks(data)[i]) = FixedSize
                                        ELSE Len(FixedChunks(data)[i]) \in 1 .. FixedSize

\* Both chunkers cut data into chunks that tile it, with sizes within their
\* bounds, and the content-defined one cuts where the bytes before say so.
ChunksTile == Tiles /\ SizesInBounds /\ CutsByContent /\ FixedChunksTile
=============================================================================
