-------------------------- MODULE ReliableTransfer --------------------------
(***************************************************************************)
(* What a ReduLink transfer promises, whatever the transport and the       *)
(* dictionaries do: the receiver obtains chunks of the input, each at its  *)
(* own place and never a wrong one, and the sender is told of success only *)
(* when all of them are there.  A transfer may fail at any time before     *)
(* that.                                                                   *)
(***************************************************************************)
EXTENDS Naturals, Sequences

VARIABLES input,    \* the chunks to transfer
          got,      \* the places, counted from 1, the receiver has filled
          outcome   \* what the sender knows: "running", "done", "failed"

Filled == DOMAIN got

Init == /\ got = <<>>
        /\ outcome = "running"

Deliver == \E i \in DOMAIN input \ Filled :
    /\ got' = [j \in Filled \cup {i} |-> input[j]]
    /\ UNCHANGED <<input, outcome>>

Complete ==
    /\ outcome = "running"
    /\ got = input
    /\ outcome' = "done"
    /\ UNCHANGED <<input, got>>

Abort ==
    /\ outcome = "running"
    /\ outcome' = "failed"
    /\ UNCHANGED <<input, got>>

Next == Deliver \/ Complete \/ Abort

Spec == Init /\ [][Next]_<<input, got, outcome>>
=============================================================================
