-------------------------- MODULE SocketPrototype --------------------------
(***************************************************************************)
(* prototypes/redulink_socket_prototype.py: a client that writes its       *)
(* frames to a TCP connection, and a server that reads frames up to the    *)
(* end of the stream, decodes them, writes the output file and reports its *)
(* length.  Either process may die at any moment, and the ten seconds the  *)
(* client waits may be over before the server answers.                     *)
(*                                                                         *)
(* The stream is counted in units: a frame is a prefix, a header and, if   *)
(* it is a FULL, a payload.  TCP delivers what was written in order, up to *)
(* where it is closed or reset, and a recv brings any part of what came:   *)
(* the server reads on to the end of a frame, the client reads once.       *)
(***************************************************************************)
EXTENDS Encoding

CONSTANT OldFile  \* what the output file is before the run

VARIABLES
    data, clientWarm, serverWarm, outgoing,  \* what the run starts with
    client,     \* "start", "sending", "waiting", "done", "failed"
    written,    \* units the client has written
    stream,     \* "open", "ended" by the client, "reset"
    reported,   \* server_reconstructed_bytes, in chunks; 0 without an ack
    cutShort,   \* history: the client's recv brought only part of the report
    server,     \* "accept", "reading", "decode", "write", "writing", "ack",
                \* "returned", "failed"
    received,   \* frames
    partial,    \* units read of the frame after those
    file,       \* the output file
    ack,        \* the report on its way, -1 if there is none
    disturbed   \* history: a process died, or the client stopped waiting

given == <<data, clientWarm, serverWarm, outgoing>>
clientVars == <<client, written, stream, reported, cutShort>>
serverVars == <<server, received, partial, file, ack>>
socketVars == <<given, clientVars, serverVars, disturbed>>

SocketInit ==
    /\ data \in Inputs
    /\ clientWarm \in WarmDictionaries(MaxDictChunks)
    /\ serverWarm \in WarmDictionaries(MaxDictChunks)
    /\ outgoing = Encoded(data, clientWarm)
    /\ client = "start" /\ written = 0 /\ stream = "open" /\ reported = 0
    /\ cutShort = FALSE
    /\ server = "accept" /\ received = <<>> /\ partial = 0
    /\ file = OldFile /\ ack = -1
    /\ disturbed = FALSE

ClientOver == client \in {"done", "failed"}
ServerOver == server \in {"returned", "failed"}

Units(f) == IF f.kind = "FULL" THEN 3 ELSE 2

Added(n, f) == n + Units(f)

UnitsOf(fs) == FoldLeft(Added, 0, fs)

-----------------------------------------------------------------------------
(* run_client.                                                             *)

Connect ==
    /\ client = "start" /\ server = "accept"
    /\ client' = "sending" /\ server' = "reading"
    /\ UNCHANGED <<given, written, stream, reported, cutShort, received, partial,
                   file, ack, disturbed>>

\* send_frame, as far as the connection takes it; a dead server may reset it.
Write ==
    /\ client = "sending" /\ written < UnitsOf(outgoing)
    /\ \/ written' = written + 1 /\ UNCHANGED client
       \/ ServerOver /\ client' = "failed" /\ UNCHANGED written
    /\ UNCHANGED <<given, stream, reported, cutShort, serverVars, disturbed>>

\* Seeded defect: the writing side is left open.
ShutNothing == UNCHANGED stream

\* shutdown(SHUT_WR).
Shut == stream' = "ended"

FinishWriting ==
    /\ client = "sending" /\ written = UnitsOf(outgoing)
    /\ Shut
    /\ client' = "waiting"
    /\ UNCHANGED <<given, written, reported, cutShort, serverVars, disturbed>>

\* server_stats.get with its default.
Report == IF ack = -1 THEN 0 ELSE ack

\* One recv: the report, or nothing if the server closed without one, when the
\* client returns all the same, with 0 bytes, unless the connection was reset.
Answered ==
    /\ client' = "done" /\ reported' = Report
    /\ UNCHANGED cutShort

ResetOnClient ==
    /\ ack = -1
    /\ client' = "failed"
    /\ UNCHANGED <<reported, cutShort>>

\* recv may bring less than the report, and no proper part of a JSON object is
\* one: json.loads raises.
PartOfReport ==
    /\ ack # -1
    /\ client' = "failed" /\ cutShort' = TRUE
    /\ UNCHANGED reported

ReceiveAck ==
    /\ client = "waiting" /\ (ack # -1 \/ ServerOver)
    /\ Answered \/ ResetOnClient \/ PartOfReport
    /\ UNCHANGED <<given, written, stream, serverVars, disturbed>>

\* The client is killed, or its ten seconds are over.
ClientFails ==
    /\ ~ ClientOver
    /\ client' = "failed"
    /\ IF client = "start" THEN UNCHANGED stream
                           ELSE stream' \in {stream, "ended", "reset"} \ {"open"}
    /\ disturbed' = TRUE
    /\ UNCHANGED <<given, written, reported, cutShort, serverVars>>

-----------------------------------------------------------------------------
(* run_server, read_exact and recv_frame.                                  *)

Read == UnitsOf(received) + partial

\* recv returns some of the units there are, at most those of one frame.
Receive ==
    /\ server = "reading" /\ Read < written
    /\ LET f == outgoing[Len(received) + 1]
       IN  \E n \in 1 .. written - Read :
              \/ /\ partial + n < Units(f)
                 /\ partial' = partial + n
                 /\ UNCHANGED received
              \/ /\ partial + n = Units(f)
                 /\ partial' = 0
                 /\ received' = Append(received, f)
    /\ UNCHANGED <<given, clientVars, server, file, ack, disturbed>>

\* recv_frame takes an end before the first byte of a frame for the last one.
AtFrameBoundary == partial = 0

EndOfStream ==
    /\ server = "reading" /\ Read = written /\ stream = "ended"
    /\ server' = IF AtFrameBoundary THEN "decode" ELSE "failed"
    /\ UNCHANGED <<given, clientVars, received, partial, file, ack, disturbed>>

ConnectionReset ==
    /\ server = "reading" /\ stream = "reset"
    /\ server' = "failed"
    /\ UNCHANGED <<given, clientVars, received, partial, file, ack, disturbed>>

Decode ==
    /\ server = "decode"
    /\ server' = IF Decoded(received, serverWarm).ok THEN "write" ELSE "failed"
    /\ UNCHANGED <<given, clientVars, received, partial, file, ack, disturbed>>

\* write_bytes empties the file before it writes.
OpenFile ==
    /\ server = "write"
    /\ file' = <<>>
    /\ server' = "writing"
    /\ UNCHANGED <<given, clientVars, received, partial, ack, disturbed>>

\* The file grows by a chunk, one for each frame, or it is whole and closed.
WriteFile ==
    /\ server = "writing"
    /\ \/ /\ Len(file) < Len(received)
          /\ file' = Append(file, Decoded(received, serverWarm).output[Len(file) + 1])
          /\ UNCHANGED server
       \/ /\ Len(file) = Len(received)
          /\ server' = "ack"
          /\ UNCHANGED file
    /\ UNCHANGED <<given, clientVars, received, partial, ack, disturbed>>

\* Seeded defect: the report is sent while the file is written.
WrittenSoon == server \in {"writing", "ack"}

Written == server = "ack"

\* sendall to a client that is gone may still fail.
SendAck ==
    /\ Written
    /\ \/ server' = "returned" /\ ack' = Len(received)
       \/ ClientOver /\ server' = "failed" /\ UNCHANGED ack
    /\ UNCHANGED <<given, clientVars, received, partial, file, disturbed>>

ServerDies ==
    /\ ~ ServerOver
    /\ server' = "failed"
    /\ disturbed' = TRUE
    /\ UNCHANGED <<given, clientVars, received, partial, file, ack>>

-----------------------------------------------------------------------------
ClientStep == Write \/ FinishWriting \/ ReceiveAck

ServerStep ==
    \/ Receive \/ EndOfStream \/ ConnectionReset
    \/ Decode \/ OpenFile \/ WriteFile \/ SendAck

SocketNext ==
    Connect \/ ClientStep \/ ClientFails \/ ServerStep \/ ServerDies

SocketSpec == SocketInit /\ [][SocketNext]_socketVars

\* Processes that live go on.  Nothing need fail, and the client need not lose
\* its patience.
FairSocket ==
    /\ SocketSpec
    /\ WF_socketVars(Connect)
    /\ WF_socketVars(ClientStep)
    /\ WF_socketVars(ServerStep)

-----------------------------------------------------------------------------
(* Properties.                                                             *)

\* A client that is told of bytes is told the truth: the file is the whole
\* input, whatever else the two processes meet and whatever the server knows.
\* However the stream is cut into pieces, the server has read the first frames,
\* and the file never holds a wrong chunk, only fewer of them.
AckTellsTruth ==
    /\ reported > 0 => reported = Len(data) /\ file = data
    /\ IsPrefix(received, outgoing)
    /\ file # OldFile => IsPrefix(file, data)

\* A server that has accepted a connection does not wait for ever.  If no process
\* dies or loses its patience and both ends start from the same warm bytes, the
\* server writes the whole input and returns, and the client learns of it, unless
\* its one recv brings only part of the report: then it fails, though the file is
\* there.
ServerEnds ==
    /\ server # "accept" ~> ServerOver
    /\ [](~ disturbed /\ clientWarm = serverWarm) =>
          <>(/\ server = "returned" /\ file = data
             /\ IF cutShort THEN client = "failed"
                            ELSE client = "done" /\ reported = Len(data))
=============================================================================
