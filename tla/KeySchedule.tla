---------------------------- MODULE KeySchedule ----------------------------
(***************************************************************************)
(* redulink_key_schedule.py: derive_redulink_secret, from the context to   *)
(* the last byte of the secret.                                            *)
(*                                                                         *)
(* HMAC-SHA256 is taken to be free of collisions: a digest is the record   *)
(* of what went into it, a byte of it the digest and its place.  A field   *)
(* is given as context_info prints it (str and hex lose nothing), as a     *)
(* sequence of characters.  A label counts as one character, in a field    *)
(* too.  Nothing checks alpn and scope, which may hold any text: the       *)
(* separator "|" and labels as well.                                       *)
(***************************************************************************)
EXTENDS Integers, Sequences, SequencesExt

CONSTANTS Masters,   \* master secrets, "empty" may be one
          Characters, \* of the fields, "|" and the labels may be among them
          Contexts,  \* of ReduLinkKeyContext
          Lengths,   \* the lengths that may be asked for
          HashLen,   \* HASH_LEN
          MaxCounter \* 255

\* What str and hex print of a number and of bytes: never the separator.
Printed == Seq(Characters \ {"|"})

ASSUME KeyAssumption ==
    /\ Contexts \subseteq [alpn : Seq(Characters), epoch : Printed,
                            scope : Seq(Characters), connection : Printed,
                            stream : Printed]
    /\ Lengths \subseteq Int
    /\ HashLen \in Nat \ {0} /\ MaxCounter \in Nat \ {0}

VARIABLES
    master, ctx, wanted,  \* the arguments
    pc,                   \* "check", "expand", "done", "rejected" by a ValueError
    blocks,               \* of hkdf_expand; previous is the last, counter the next
    secret                \* what is returned

arguments == <<master, ctx, wanted>>
keyVars == <<arguments, pc, blocks, secret>>

\* Seeded defect: the two binary contexts are written one after the other.
ContextInfoJoined(c) ==
    <<"alpn=">> \o c.alpn \o <<"|", "epoch=">> \o c.epoch
        \o <<"|", "scope=">> \o c.scope \o <<"|", "conn=">> \o c.connection \o c.stream

ContextInfo(c) ==
    <<"alpn=">> \o c.alpn \o <<"|", "epoch=">> \o c.epoch \o <<"|", "scope=">> \o c.scope
        \o <<"|", "conn=">> \o c.connection \o <<"|", "stream=">> \o c.stream

\* hmac.new, under the key hkdf_extract makes of a master secret.
Hmac(m, before, info, n) == [key |-> m, before |-> before, info |-> info, counter |-> n]

\* The bytes of some blocks.
Joined(s) == FlattenSeq([i \in DOMAIN s |-> [j \in 1 .. HashLen |-> <<s[i], j>>]])

KeyInit ==
    /\ master \in Masters /\ ctx \in Contexts /\ wanted \in Lengths
    /\ pc = "check" /\ blocks = <<>> /\ secret = <<>>

Acceptable == master # "empty" /\ ctx.epoch[1] # "-" /\ wanted > 0

Check ==
    /\ pc = "check"
    /\ pc' = IF Acceptable THEN "expand" ELSE "rejected"
    /\ UNCHANGED <<arguments, blocks, secret>>

Previous == IF blocks = <<>> THEN <<>> ELSE Last(blocks)

\* One turn of the loop; the counter is checked after the block is made, even
\* when that is the last one needed.
Expand ==
    /\ pc = "expand"
    /\ Len(Joined(blocks)) < wanted
    /\ blocks' = Append(blocks, Hmac(master, Previous, ContextInfo(ctx), Len(blocks) + 1))
    /\ pc' = IF Len(blocks') + 1 > MaxCounter THEN "rejected" ELSE "expand"
    /\ UNCHANGED <<arguments, secret>>

Return ==
    /\ pc = "expand"
    /\ Len(Joined(blocks)) >= wanted
    /\ secret' = SubSeq(Joined(blocks), 1, wanted)
    /\ pc' = "done"
    /\ UNCHANGED <<arguments, blocks>>

KeyNext == Check \/ Expand \/ Return

KeySpec == KeyInit /\ [][KeyNext]_keyVars

-----------------------------------------------------------------------------
(* Properties.                                                             *)

\* RFC 5869: T(0) is empty, T(n) = HMAC(PRK, T(n - 1) | info | n).
T(m, c) ==
    LET t[n \in 0 .. MaxCounter] ==
            IF n = 0 THEN <<>> ELSE Hmac(m, t[n - 1], ContextInfo(c), n)
    IN  [n \in 1 .. MaxCounter |-> t[n]]

Hkdf(m, c, n) == SubSeq(Joined(T(m, c)), 1, n)

\* The secret is HKDF's output of exactly the length asked for, across the
\* boundaries of its blocks.  No length is refused but one that needs the last
\* block, whose counter RFC 5869 still allows.
SecretIsHkdf ==
    /\ pc = "done" => secret = Hkdf(master, ctx, wanted)
    /\ pc = "rejected" /\ Acceptable => wanted > HashLen * (MaxCounter - 1)

\* The caller's two texts are free of the separator.
Separable(c) == c.alpn \in Printed /\ c.scope \in Printed

\* A secret tells its master secret, and its context if that is separable, from
\* every other, although the fields are only joined: two contexts that share a
\* secret both have a separator in their ALPN or scope.  The shorter of two
\* lengths gives the beginning of the longer.
KeysSeparate ==
    pc = "done" =>
        \A m \in Masters, c \in Contexts, n \in wanted .. HashLen * MaxCounter :
            /\ m = master /\ c = ctx => IsPrefix(secret, Hkdf(m, c, n))
            /\ IsPrefix(secret, Hkdf(m, c, n)) =>
                   m = master /\ (c = ctx \/ ~ (Separable(c) \/ Separable(ctx)))

\* What the key schedule promises: HKDF's secret, which a separable context
\* shares with no other.
SecretsSeparate == SecretIsHkdf /\ KeysSeparate

\* The module's docstring: "This lets tests verify that ReduLink frame keys
\* change when ALPN, connection context, epoch, or dictionary scope changes."
KeysChangeWithContext ==
    pc = "done" =>
        \A c \in Contexts : Hkdf(master, c, wanted) = secret => c = ctx
=============================================================================
