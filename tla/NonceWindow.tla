---------------------------- MODULE NonceWindow ----------------------------
(***************************************************************************)
(* The receiver's replay memory: class NonceWindow of redulink_secure.py.  *)
(* A window is a record of the two fields the class keeps, the greatest    *)
(* nonce ever added and the set of nonces it still remembers.  The         *)
(* operators take the capacity `size' as an argument, as the constructor   *)
(* does.  Nonces are naturals; 0 is the "nothing added yet" value of       *)
(* highest, as in the code, although a peer may also send the nonce 0.     *)
(***************************************************************************)
EXTENDS Integers, FiniteSets

Windows == [highest : Nat, seen : SUBSET Nat]

\* Seeded defect: -1 marks a window to which nothing was added.
EmptyWindowUnset == [highest |-> -1, seen |-> {}]

EmptyWindow == [highest |-> 0, seen |-> {}]

Later(a, b) == IF a > b THEN a ELSE b

\* Seeded defect: the floor itself is still answered from memory.
ReplayedBelowFloor(w, size, n) ==
    \/ w.highest # 0 /\ n < w.highest - size
    \/ n \in w.seen

\* __contains__: a nonce is a replay when it is at or below the floor of an
\* opened window, and otherwise when it is remembered.
Replayed(w, size, n) ==
    \/ w.highest # 0 /\ n <= w.highest - size
    \/ n \in w.seen

\* Seeded defect: nothing is ever pruned.
RememberAll(w, size, n) ==
    [highest |-> Later(w.highest, n), seen |-> w.seen \cup {n}]

\* add prunes only when the highest nonce moves, the floor is positive and more
\* than `size' nonces are remembered.
Prunes(w, size, n) ==
    /\ n > w.highest
    /\ n - size > 0
    /\ Cardinality(w.seen \cup {n}) > size

Remember(w, size, n) ==
    [highest |-> Later(w.highest, n),
     seen    |-> IF Prunes(w, size, n)
                 THEN {m \in w.seen \cup {n} : m > n - size}
                 ELSE w.seen \cup {n}]
=============================================================================
