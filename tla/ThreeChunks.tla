---------------------------- MODULE ThreeChunks ----------------------------
(***************************************************************************)
(* What the modules that model-check transfers give the constants of the   *)
(* transfers: three chunks, and inputs of at most MaxInput of them.        *)
(***************************************************************************)
EXTENDS Naturals, SequencesExt

CONSTANTS chunkA, chunkB, chunkC,  \* three chunks
          idA, idB, idC,           \* their ids
          MaxInput                 \* bound on the length of the input

MCChunks == {chunkA, chunkB, chunkC}
MCCids == {idA, idB, idC}
MCCidOf == [x \in MCChunks |-> CASE x = chunkA -> idA
                                [] x = chunkB -> idB
                                [] x = chunkC -> idC]

\* Chunk y does not come before the first x.
After(x, y, s) ==
    \A i \in DOMAIN s : s[i] = y => \E j \in 1 .. i - 1 : s[j] = x

\* One chunk is longer than the others, which are alike.
MCSizes == [x \in MCChunks |-> IF x = chunkA THEN 2 ELSE 1]
MCSizedInputs == {s \in BoundedSeq(MCChunks, MaxInput) : After(chunkB, chunkC, s)}

\* Chunks of one length: which of them comes first, and which next, is a matter
\* of names, as all warm dictionaries are tried.
MCLengthOf == [x \in MCChunks |-> 1]
MCInputs == {s \in MCSizedInputs : After(chunkA, chunkB, s)}
=============================================================================
