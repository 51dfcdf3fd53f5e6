----------------------------- MODULE MCCodecs -----------------------------
(***************************************************************************)
(* The codecs on every input of at most MaxInput chunks out of three, one  *)
(* longer than the others, and every pair of dictionaries to start from.   *)
(***************************************************************************)
EXTENDS Codecs, ThreeChunks

CONSTANTS nameX, nameY  \* of objects

MCNames == {nameX, nameY}

\* One object after another, of the chunks A and B.
MCObjectLists ==
    {<<>>} \cup {<<[name |-> nameX, data |-> d], [name |-> nameY, data |-> e]>> :
                    d \in BoundedSeq({chunkA, chunkB}, 2),
                    e \in BoundedSeq({chunkA, chunkB}, 1)}
MCWarms == SUBSET {chunkA, chunkB}
=============================================================================
