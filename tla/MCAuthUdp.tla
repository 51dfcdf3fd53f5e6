----------------------------- MODULE MCAuthUdp -----------------------------
(***************************************************************************)
(* AuthUdp for every input of at most MaxInput chunks out of three, after  *)
(* every warm dictionary and every thinning of it.                         *)
(***************************************************************************)
EXTENDS AuthUdp, ThreeChunks

MCBlocks == [x \in MCChunks |-> ChunkSize]
=============================================================================
