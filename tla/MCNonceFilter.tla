--------------------------- MODULE MCNonceFilter ---------------------------
(* NonceFilter on nonces 0..MaxNonce, in every order of arrival, with gaps,  *)
(* late arrivals, replays and more than one prune.                           *)
EXTENDS NonceFilter

CONSTANT MaxNonce   \* bound on the nonces a frame carries

MCNonces == 0 .. MaxNonce
=============================================================================
