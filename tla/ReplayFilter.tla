---------------------------- MODULE ReplayFilter ----------------------------
(***************************************************************************)
(* What replay protection promises, with unbounded memory: a nonce is      *)
(* fresh exactly when it was never accepted and lies within `Size' of the  *)
(* greatest accepted one.  NonceFilter implements this with the bounded    *)
(* memory of NonceWindow.                                                  *)
(***************************************************************************)
EXTENDS Integers

CONSTANTS Nonces,   \* the nonces a frame can carry
          Size      \* how far behind the newest accepted nonce one may lag

VARIABLES accepted, \* every nonce ever accepted
          answer    \* the last nonce asked about and whether it was fresh

TooOld(n) == \E m \in accepted : n <= m - Size

Init == /\ accepted = {}
        /\ answer \in [nonce : Nonces, fresh : {FALSE}]

Accept(n) ==
    /\ n \notin accepted
    /\ ~ TooOld(n)
    /\ accepted' = accepted \cup {n}
    /\ answer' = [nonce |-> n, fresh |-> TRUE]

Reject(n) ==
    /\ n \in accepted \/ TooOld(n)
    /\ answer' = [nonce |-> n, fresh |-> FALSE]
    /\ UNCHANGED accepted

Next == \E n \in Nonces : Accept(n) \/ Reject(n)

Spec == Init /\ [][Next]_<<accepted, answer>>
=============================================================================
