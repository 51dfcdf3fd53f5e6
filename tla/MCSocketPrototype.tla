-------------------------- MODULE MCSocketPrototype -------------------------
(***************************************************************************)
(* SocketPrototype for every input of at most MaxInput chunks out of       *)
(* three and every pair of warm dictionaries.                              *)
(***************************************************************************)
EXTENDS SocketPrototype, ThreeChunks
=============================================================================
