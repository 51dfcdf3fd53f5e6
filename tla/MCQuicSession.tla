--------------------------- MODULE MCQuicSession ---------------------------
(***************************************************************************)
(* QuicSession for every input of at most MaxInput chunks out of three,    *)
(* after every warm dictionary that fits max_dict_chunks.                  *)
(***************************************************************************)
EXTENDS QuicSession, ThreeChunks

MCStreams == {Stream}
MCMessages == {}   \* the client's messages replace the peer's
=============================================================================
