----------------------------- MODULE WireStream -----------------------------
(***************************************************************************)
(* send_message and read_message of redulink_wire.py at the two ends of    *)
(* one direction of a QUIC stream.  The stream delivers what is written in *)
(* order, in pieces of any size, and may be cut at any unit; the reader    *)
(* also meets bodies that encode_message never makes.                      *)
(***************************************************************************)
EXTENDS WireFormat

CONSTANTS Sendable,     \* the messages that may be sent
          OddBodies,    \* bodies that are none
          MaxSent,      \* bound: messages in one stream
          Types, Units, \* what a body on its own may start and go on with
          MaxBody       \* bound: its length

ASSUME StreamAssumption ==
    /\ Sendable \subseteq Messages /\ OddBodies \subseteq Seq(Nat) /\ MaxSent \in Nat
    /\ Types \subseteq Nat /\ Units \subseteq Nat /\ MaxBody \in Nat

VARIABLES
    sent,       \* history: the bodies of the messages written
    stream,     \* units written: of a message its length and its body
    delivered,  \* how many of them the reader's buffer was fed
    cut,        \* feed_eof: no more will be
    position,   \* how many of them the reader has consumed
    length,     \* the header read_message has read, 0 if it is after one
    read,       \* the messages read_message has returned
    reader,     \* "reading", "ended" by IncompleteReadError, "refused" by ValueError
    body        \* what decode_payload is given where there is no stream

streamVars == <<sent, stream, delivered, cut, position, length, read, reader>>
wireVars == <<streamVars, body>>

\* A body as the stream carries it.
Framed(b) == <<Len(b)>> \o b

StreamInit ==
    /\ sent = <<>> /\ stream = <<>>
    /\ delivered = 0 /\ cut = FALSE
    /\ position = 0 /\ length = 0
    /\ read = <<>> /\ reader = "reading"
    /\ body = <<>>

Write(b) ==
    /\ ~ cut /\ Len(sent) < MaxSent
    /\ sent' = Append(sent, b)
    /\ stream' = stream \o Framed(b)
    /\ UNCHANGED <<delivered, cut, position, length, read, reader>>

\* A message that is too long is not sent: ValueError.
Send(m) == Encodable(m) /\ Write(Body(m))

Feed ==
    /\ ~ cut /\ delivered < Len(stream)
    /\ delivered' = delivered + 1
    /\ UNCHANGED <<sent, stream, cut, position, length, read, reader>>

Cut ==
    /\ ~ cut
    /\ cut' = TRUE
    /\ UNCHANGED <<sent, stream, delivered, position, length, read, reader>>

\* readexactly(n) returns once n units are there.
Exactly(n) == reader = "reading" /\ delivered - position >= n

AfterHeader == stream[position + 1]

ReadHeader ==
    /\ length = 0 /\ Exactly(1)
    /\ position' = position + 1
    /\ IF AfterHeader \in 1 .. MaxMessage
       THEN length' = AfterHeader /\ UNCHANGED reader
       ELSE reader' = "refused" /\ UNCHANGED length
    /\ UNCHANGED <<sent, stream, delivered, cut, read>>

ReadBody ==
    /\ length # 0 /\ Exactly(length)
    /\ LET m == Decode(SubSeq(stream, position + 1, position + length))
       IN  IF m = Malformed
           THEN reader' = "refused" /\ UNCHANGED read
           ELSE read' = Append(read, m) /\ UNCHANGED reader
    /\ position' = position + length
    /\ length' = 0
    /\ UNCHANGED <<sent, stream, delivered, cut>>

\* What the reader waits for is not there.
Starved == ~ Exactly(IF length = 0 THEN 1 ELSE length)

\* IncompleteReadError.
ReadEnds ==
    /\ reader = "reading" /\ cut
    /\ Starved
    /\ reader' = "ended"
    /\ UNCHANGED <<sent, stream, delivered, cut, position, length, read>>

StreamNext ==
    \/ \E m \in Sendable : Send(m)
    \/ \E b \in OddBodies : Write(b)
    \/ Feed \/ Cut
    \/ ReadHeader \/ ReadBody \/ ReadEnds

\* Any body at all, unit by unit.
Grow ==
    /\ Len(body) < MaxBody
    /\ \E unit \in IF body = <<>> THEN Types ELSE Units : body' = Append(body, unit)

WireNext ==
    \/ StreamNext /\ UNCHANGED body
    \/ Grow /\ UNCHANGED streamVars

WireSpec == StreamInit /\ [][WireNext]_wireVars

-----------------------------------------------------------------------------
(* Properties.                                                             *)

\* What carries the first n messages, and where the last of them ends.
Written(n) == FlattenSeq([i \in 1 .. n |-> Framed(sent[i])])
Limits(n) == Len(Written(n))

StreamTypeOK ==
    /\ stream = Written(Len(sent))
    /\ position <= delivered /\ delivered <= Len(stream)
    /\ length \in 0 .. MaxMessage
    /\ reader \in {"reading", "ended", "refused"}

\* However the stream is cut into pieces, the reader stays in step: what it has
\* returned are the first messages, re-encoded to what was written.
InStep ==
    /\ Len(read) <= Len(sent)
    /\ \A i \in DOMAIN read : Body(read[i]) = sent[i]

\* At the end of the stream every message that arrived whole has been read.
NothingWholeIsLost ==
    reader = "ended" =>
        \A n \in 1 .. Len(sent) : Limits(n) <= delivered => n <= Len(read)

\* A reader refuses only a body encode_message did not make: no message that
\* can be sent is out of the bounds the reader sets.
RefusesOnlyOdd ==
    reader = "refused" =>
        Len(read) < Len(sent) /\ sent[Len(read) + 1] \in OddBodies

\* The reader of a stream in pieces stays in step with its writer, loses nothing
\* that arrived whole, refuses nothing that was sent, and takes no body but the
\* encoding of what it returns.
WireInStep ==
    /\ StreamTypeOK /\ InStep /\ NothingWholeIsLost /\ RefusesOnlyOdd
    /\ Canonical(body)
=============================================================================
