---------------------------- MODULE NonceFilter ----------------------------
(***************************************************************************)
(* The replay check every receiver of the repository makes: the last test  *)
(* of verify_frame and the seen_nonces.add that follows it, on a           *)
(* NonceWindow.  `accepted' and `answer' are history variables: they       *)
(* record what the filter said, and no action reads them.                  *)
(***************************************************************************)
EXTENDS NonceWindow

CONSTANTS Nonces,   \* the nonces a frame can carry
          Size      \* capacity of the window, 4096 in the code

ASSUME NoncesAssumption == Nonces \subseteq Nat
ASSUME SizeAssumption == Size \in Nat \ {0}

VARIABLES window, accepted, answer

vars == <<window, accepted, answer>>

Init == /\ window = EmptyWindow
        /\ accepted = {}
        /\ answer \in [nonce : Nonces, fresh : {FALSE}]

\* verify_frame finds the nonce fresh and its caller adds it, with no await
\* between the two.
Accept(n) ==
    /\ ~ Replayed(window, Size, n)
    /\ window' = Remember(window, Size, n)
    /\ accepted' = accepted \cup {n}
    /\ answer' = [nonce |-> n, fresh |-> TRUE]

\* verify_frame raises "replayed nonce".
Reject(n) ==
    /\ Replayed(window, Size, n)
    /\ answer' = [nonce |-> n, fresh |-> FALSE]
    /\ UNCHANGED <<window, accepted>>

Next == \E n \in Nonces : Accept(n) \/ Reject(n)

Spec == Init /\ [][Next]_vars

-----------------------------------------------------------------------------
\* The window is a pair of the fields of the class with their types.
TypeOK ==
    /\ window \in Windows
    /\ accepted \subseteq Nonces
    /\ answer \in [nonce : Nonces, fresh : BOOLEAN]

\* The nonces still in memory that Replayed rejects for their age alone.
Stale == {n \in window.seen : n <= window.highest - Size}

\* However long the run and whatever nonces arrive, add leaves at most twice
\* the capacity in memory: at most Size stale nonces wait for the next prune
\* and at most Size lie above the floor.
MemoryBound == Cardinality(window.seen) <= 2 * Size

\* NonceWindow's docstring: "Keeps at most ``size`` recent nonces".
KeepsAtMostSize == Cardinality(window.seen) <= Size

\* Nothing the window forgets can matter: what was accepted above the floor is
\* remembered, what is remembered was accepted, and highest is the greatest.
RemembersWindow ==
    /\ window.seen \subseteq accepted
    /\ \A n \in accepted : n <= window.highest
    /\ \A n \in accepted : n > window.highest - Size => n \in window.seen
    /\ window.highest # 0 => window.highest \in accepted

Unbounded == INSTANCE ReplayFilter

\* The bounded memory answers every nonce as the filter that remembers every
\* nonce forever does: no replay is accepted and no fresh nonce is refused.
ImplementsReplayFilter == Unbounded!Spec
=============================================================================
