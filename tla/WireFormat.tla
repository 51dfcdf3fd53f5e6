----------------------------- MODULE WireFormat -----------------------------
(***************************************************************************)
(* redulink_wire.py: encode_message and decode_payload.  A body is a       *)
(* sequence of units: its type, its fixed fields, one unit each (epoch to  *)
(* tag of a FRAME together), and one unit for each byte of the text and of *)
(* the payload that follow.  STATS and ERROR carry text up to the end of   *)
(* the body and are left out, and so are texts that are not UTF-8.         *)
(***************************************************************************)
EXTENDS Integers, Sequences, FiniteSets, SequencesExt

CONSTANTS MaxField,    \* bound: the greatest value of a field
          MaxMessage   \* MAX_MESSAGE_BYTES, in units

ASSUME WireAssumption == MaxField \in Nat /\ MaxMessage \in Nat \ {0}

HELLO == 1
END_ROUND == 2
MISSING == 3
FINISH == 4
FRAME == 16
KindByName == [FULL |-> 1, REF |-> 2]
FrameFields == 6      \* _FRAME_FIXED
ItemFields == 2       \* _MISSING_ITEM: seq, and cid with length

Fields == 0 .. MaxField

\* What encode_message is given.
Messages ==
         [t : {HELLO}, version : Fields, chunkSize : Fields, frameCount : Fields]
    \cup [t : {END_ROUND, FINISH}]
    \cup [t : {FRAME}, seq : Fields, repair : BOOLEAN, kind : {"FULL", "REF"},
          bound : Fields, scope : BoundedSeq(Fields, MaxField),
          payload : BoundedSeq(Fields, MaxField)]
    \cup [t : {MISSING}, items : BoundedSeq(Fields \X Fields, MaxField)]

\* encode_message without the length in front.
Body(m) ==
    CASE m.t = HELLO -> <<HELLO, m.version, m.chunkSize, m.frameCount>>
      [] m.t \in {END_ROUND, FINISH} -> <<m.t>>
      [] m.t = FRAME ->
            <<FRAME, m.seq, IF m.repair THEN 1 ELSE 0, KindByName[m.kind],
              Len(m.scope), m.bound, Len(m.payload)>> \o m.scope \o m.payload
      [] m.t = MISSING -> <<MISSING, Len(m.items)>> \o FlattenSeq(m.items)

\* encode_message raises ValueError otherwise.
Encodable(m) == Len(Body(m)) <= MaxMessage

\* A ValueError of decode_payload.
Malformed == [t |-> 0]

\* Where the payload of a FRAME starts, after the scope.
PayloadStart(data) == FrameFields + data[4]

\* Seeded defect: what follows the payload is passed over.
FrameFitsLoosely(data) == PayloadStart(data) + data[6] <= Len(data)

\* Neither truncated nor followed by anything.
FrameFits(data) == PayloadStart(data) + data[6] = Len(data)

DecodeFrame(data) ==
    IF /\ Len(data) >= FrameFields
       /\ data[2] \in {0, 1}
       /\ \E name \in DOMAIN KindByName : KindByName[name] = data[3]
       /\ FrameFits(data)
    THEN [t |-> FRAME, seq |-> data[1], repair |-> data[2] = 1,
          kind |-> CHOOSE name \in DOMAIN KindByName : KindByName[name] = data[3],
          bound |-> data[5],
          scope |-> SubSeq(data, FrameFields + 1, PayloadStart(data)),
          payload |-> SubSeq(data, PayloadStart(data) + 1,
                             PayloadStart(data) + data[6])]
    ELSE Malformed

ItemAt(data, i) ==
    <<data[2 + ItemFields * (i - 1)], data[3 + ItemFields * (i - 1)]>>

DecodeMissing(data) ==
    IF Len(data) >= 1 /\ Len(data) = 1 + data[1] * ItemFields
    THEN [t |-> MISSING, items |-> [i \in 1 .. data[1] |-> ItemAt(data, i)]]
    ELSE Malformed

\* decode_payload.
Decode(body) ==
    LET data == Tail(body)
    IN  CASE body = <<>> -> Malformed
          [] body # <<>> /\ body[1] = HELLO /\ Len(data) = 3 ->
                [t |-> HELLO, version |-> data[1], chunkSize |-> data[2],
                 frameCount |-> data[3]]
          [] body # <<>> /\ body[1] \in {END_ROUND, FINISH} /\ data = <<>> ->
                [t |-> body[1]]
          [] body # <<>> /\ body[1] = FRAME -> DecodeFrame(data)
          [] body # <<>> /\ body[1] = MISSING -> DecodeMissing(data)
          [] OTHER -> Malformed

\* A message has one encoding: decode_payload accepts no body but the one
\* encode_message makes of what it returns.
Canonical(body) == Decode(body) # Malformed => Body(Decode(body)) = body
=============================================================================
