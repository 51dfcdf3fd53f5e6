---------------------------- MODULE SecureCodec ----------------------------
(***************************************************************************)
(* redulink_secure.decode, on frames that come from redulink_secure.encode *)
(* but need not be handed over as they were made: frames may be left out,  *)
(* repeated, put in another order, altered or made for another context,    *)
(* and the list may stop at any frame.                                     *)
(*                                                                         *)
(* A frame that passes verify_frame is one encode made, so the checks of   *)
(* decode on its payload and on its kind never fail and are left out.      *)
(***************************************************************************)
EXTENDS Encoding, NonceWindow

CONSTANT WindowSize  \* capacity of NonceWindow, 4096

VARIABLES
    input,       \* the chunks of data
    senderWarm, receiverWarm,  \* what warm_dictionary makes of each end
    pc,          \* "decode", "done", "rejected" by a ValueError
    made,        \* the frames encode made of data
    handed,      \* history: the frames decode has been handed
    seenNonces,
    dictionary,  \* of the decoder
    expected,    \* expected_offset
    output

source == <<input, senderWarm, receiverWarm, made>>
secureVars == <<source, pc, handed, seenNonces, dictionary, expected, output>>

\* What decode can be handed.
Offered == {[f EXCEPT !.genuine = g] : f \in ToSet(made), g \in BOOLEAN}

SecureInit ==
    /\ input \in Inputs
    /\ senderWarm \in WarmDictionaries(MaxDictChunks)
    /\ receiverWarm \in WarmDictionaries(MaxDictChunks)
    /\ made = SecurelyEncoded(input, senderWarm)
    /\ pc = "decode"
    /\ handed = <<>>
    /\ seenNonces = EmptyWindow
    /\ dictionary = receiverWarm
    /\ expected = 0
    /\ output = <<>>

\* Seeded defect: the offset of a frame is not compared.
InPlaceAnywhere(f) == TRUE

InPlace(f) == f.offset = expected

\* verify_frame.
Accepted(f) ==
    f.genuine /\ InPlace(f) /\ ~ Replayed(seenNonces, WindowSize, f.nonce)

Advance(f) == expected' = expected + LengthOf[f.chunk]

\* What follows verify_frame for a frame of either kind.
Take(f, c, d) ==
    /\ pc = "decode"
    /\ Accepted(f)
    /\ handed' = Append(handed, f)
    /\ seenNonces' = Remember(seenNonces, WindowSize, f.nonce)
    /\ dictionary' = d
    /\ output' = Append(output, c)
    /\ Advance(f)
    /\ UNCHANGED <<source, pc>>

TakeFull(f) ==
    /\ f.kind = "FULL"
    /\ Take(f, f.chunk, Touched(dictionary, f.chunk))

\* What decode remembers of a REF: nothing.
AfterRef(f) == dictionary

TakeRef(f) ==
    /\ f.kind = "REF"
    /\ Holds(dictionary, f)
    /\ Take(f, Lookup(dictionary, CidOf[f.chunk]), AfterRef(f))

\* A ValueError of verify_frame, or "REF miss".
Refuse(f) ==
    /\ pc = "decode"
    /\ ~ Accepted(f) \/ (f.kind = "REF" /\ ~ Holds(dictionary, f))
    /\ handed' = Append(handed, f)
    /\ pc' = "rejected"
    /\ UNCHANGED <<source, seenNonces, dictionary, expected, output>>

\* The frames are used up.
Return ==
    /\ pc = "decode"
    /\ pc' = "done"
    /\ UNCHANGED <<source, handed, seenNonces, dictionary, expected, output>>

SecureNext ==
    \/ \E f \in Offered : TakeFull(f) \/ TakeRef(f) \/ Refuse(f)
    \/ Return

SecureSpec == SecureInit /\ [][SecureNext]_secureVars

-----------------------------------------------------------------------------
(* Properties.                                                             *)

SecureTypeOK ==
    /\ pc \in {"decode", "done", "rejected"}
    /\ handed \in Seq(Offered)
    /\ seenNonces \in Windows
    /\ dictionary \in Seq(Entries) /\ Len(dictionary) <= MaxDictChunks
    /\ expected \in Nat
    /\ output \in Seq(Chunks)

\* Whatever is done to the list, decode returns only for an untouched
\* beginning of it, and what it has built is the same beginning of the input.
FailsClosed ==
    /\ IsPrefix(output, input)
    /\ pc # "rejected" => IsPrefix(handed, made)

\* From the same warm bytes no untouched list is refused, although the window
\* forgets nonces in the middle of it and the dictionary evicts chunks.
CleanListAccepted ==
    pc = "rejected" =>
        senderWarm # receiverWarm \/ ~ IsPrefix(handed, made)

\* From the same warm bytes the dictionary is the one the encoder had before
\* the frame decode waits for, order of eviction included.
DictionariesAgree ==
    senderWarm = receiverWarm =>
        dictionary = EncoderBefore(Len(output) + 1, input, senderWarm)
=============================================================================
