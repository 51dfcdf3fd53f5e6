----------------------------- MODULE QuicServer -----------------------------
(***************************************************************************)
(* The receiver of the QUIC stream mapping: class QuicReduLinkServer of    *)
(* prototypes/redulink_aioquic_experiment.py.  One object holds the        *)
(* reconstruction state; every stream a peer opens gets a handle_stream    *)
(* task, and all tasks share that object.  A task runs without an await    *)
(* from the read of a message to the reply, so one action is one message.  *)
(*                                                                         *)
(* The peer is arbitrary: it may send any message in any order on any      *)
(* stream.  QuicSession replaces it by the client of the prototype.        *)
(***************************************************************************)
EXTENDS Encoding, NonceWindow, FiniteSetsExt

CONSTANTS
    Streams,        \* the streams a peer may open
    Messages,       \* the messages a peer may send
    MissingEvery,   \* missing_every, the thinning of the warm dictionary
    WindowSize,     \* capacity of seen_nonces, 4096
    MaxFrameCount,  \* the most frames accept_hello agrees to, 10 000 000
    MaxMissing,     \* the most items of a MISSING that MAX_MESSAGE_BYTES holds
    NoPayload       \* the payload of a frame that carries none

ASSUME StreamsAssumption == IsFiniteSet(Streams)
ASSUME ThinningAssumption == MissingEvery \in Int
ASSUME WindowAssumption == WindowSize \in Nat \ {0}
ASSUME LimitAssumption == MaxFrameCount \in Nat /\ MaxMissing \in Nat
ASSUME PayloadAssumption == NoPayload \notin Chunks

\* A frame on the wire.  tagged: its tag verifies under the session secret;
\* inContext: its epoch, scope and stream id are those of the session.
Frames == [kind : {"FULL", "REF", "OTHER"}, cid : Cids, length : Nat,
           offset : Nat, nonce : Nat, tagged : BOOLEAN, inContext : BOOLEAN,
           payload : Chunks \cup {NoPayload}]

\* UNKNOWN decodes but has no handler; MALFORMED does not decode.  valid: the
\* HELLO names the version, chunk size and digest the server expects.
MessageType ==
    [t : {"HELLO"}, valid : BOOLEAN, count : Int]
    \cup [t : {"FRAME"}, seq : Nat, repair : BOOLEAN, frame : Frames]
    \cup [t : {"END_ROUND", "FINISH", "UNKNOWN", "MALFORMED"}]

ASSUME MessagesAssumption == Messages \subseteq MessageType

VARIABLES
    target,              \* expected_sha256, as the input it is the digest of
    dictionary, delivered, seenNonces, expectedFrameCount,
    nextInitialSeq, nextInitialOffset, pendingRepairs, roundEnded,
    phase,               \* per stream: before HELLO, in the loop, returned
    counts,              \* per stream: frames accepted, by outcome
    replies,             \* per stream: what the task has sent, in order
    promised             \* history: the reference each initial frame made

reconstruction == <<dictionary, delivered, nextInitialSeq,
                    nextInitialOffset, pendingRepairs, roundEnded>>
session == <<target, expectedFrameCount>>
vars == <<reconstruction, session, seenNonces, phase, counts, replies,
          promised>>

\* expected_frame_count is None; accept_hello refuses negative counts.
NoFrameCount == -1

\* d[k] = v and del d[k] of a Python dict.
Put(f, k, v) == [x \in DOMAIN f \cup {k} |-> IF x = k THEN v ELSE f[x]]
Drop(f, k) == Restrict(f, DOMAIN f \ {k})

Outcomes == {"full", "ref", "miss", "repair"}

Init ==
    /\ target \in Inputs
    /\ \E warm \in WarmDictionaries(MaxDictChunks) :
          dictionary \in Thinned(warm, MissingEvery)
    /\ delivered = <<>>
    /\ seenNonces = EmptyWindow
    /\ expectedFrameCount = NoFrameCount
    /\ nextInitialSeq = 0
    /\ nextInitialOffset = 0
    /\ pendingRepairs = <<>>
    /\ roundEnded = FALSE
    /\ phase = [s \in Streams |-> "hello"]
    /\ counts = [s \in Streams |-> [o \in Outcomes |-> 0]]
    /\ replies = [s \in Streams |-> <<>>]
    /\ promised = <<>>

-----------------------------------------------------------------------------
(* Replies.  Every ERROR is followed by a return.                          *)

Stay(s) == UNCHANGED phase
Return(s) == phase' = [phase EXCEPT ![s] = "closed"]
Silent == UNCHANGED replies
Send(s, reply) == replies' = [replies EXCEPT ![s] = Append(@, reply)]
Fail(s) == Send(s, [t |-> "ERROR"]) /\ Return(s)

-----------------------------------------------------------------------------
(* accept_frame, split by its outcome.                                     *)

\* Seeded defect: a repair may name another chunk of the same length.
ExpectedAnyCid(m) ==
    IF m.repair
    THEN /\ m.seq \in DOMAIN pendingRepairs
         /\ m.frame.kind = "FULL"
         /\ m.frame.length = pendingRepairs[m.seq].length
    ELSE /\ ~ roundEnded
         /\ m.seq = nextInitialSeq
         /\ m.seq < expectedFrameCount

\* Seeded defect: an initial frame may be sent again.
ExpectedAgain(m) ==
    IF m.repair
    THEN /\ m.seq \in DOMAIN pendingRepairs
         /\ m.frame.kind = "FULL"
         /\ m.frame.cid = pendingRepairs[m.seq].cid
         /\ m.frame.length = pendingRepairs[m.seq].length
    ELSE /\ ~ roundEnded
         /\ m.seq <= nextInitialSeq
         /\ m.seq < expectedFrameCount

\* The checks on sequence and state, before any cryptography.
Expected(m) ==
    IF m.repair
    THEN /\ m.seq \in DOMAIN pendingRepairs
         /\ m.frame.kind = "FULL"
         /\ m.frame.cid = pendingRepairs[m.seq].cid
         /\ m.frame.length = pendingRepairs[m.seq].length
    ELSE /\ ~ roundEnded
         /\ m.seq = nextInitialSeq
         /\ m.seq < expectedFrameCount

ExpectedOffset(m) ==
    IF m.repair THEN pendingRepairs[m.seq].offset ELSE nextInitialOffset

\* verify_frame accepts the frame.
Verified(m) ==
    /\ m.frame.tagged
    /\ m.frame.inContext
    /\ m.frame.offset = ExpectedOffset(m)
    /\ ~ Replayed(seenNonces, WindowSize, m.frame.nonce)

\* Seeded defect: the receiver trusts the id a FULL frame claims.
WellFormedFullTrusting(f) ==
    f.kind = "FULL" /\ f.payload # NoPayload /\ LengthOf[f.payload] = f.length

WellFormedFull(f) ==
    /\ f.kind = "FULL"
    /\ f.payload # NoPayload
    /\ LengthOf[f.payload] = f.length
    /\ CidOf[f.payload] = f.cid

RefHit(f) ==
    /\ f.kind = "REF"
    /\ f.cid \in Keys(dictionary)
    /\ LengthOf[Lookup(dictionary, f.cid)] = f.length
    /\ CidOf[Lookup(dictionary, f.cid)] = f.cid

RefMiss(f) == f.kind = "REF" /\ f.cid \notin Keys(dictionary)

Usable(f) == WellFormedFull(f) \/ RefHit(f) \/ RefMiss(f)

Reference(f) == [cid |-> f.cid, length |-> f.length, offset |-> f.offset]

\* Seeded defect: repairs move the cursors too.
AdvanceAlways(m) ==
    /\ nextInitialSeq' = nextInitialSeq + 1
    /\ nextInitialOffset' = nextInitialOffset + m.frame.length
    /\ promised' = Put(promised, m.seq, Reference(m.frame))

\* The last lines of accept_frame: only initial frames move the cursors.
Advance(m) ==
    IF m.repair
    THEN UNCHANGED <<nextInitialSeq, nextInitialOffset, promised>>
    ELSE /\ nextInitialSeq' = nextInitialSeq + 1
         /\ nextInitialOffset' = nextInitialOffset + m.frame.length
         /\ promised' = Put(promised, m.seq, Reference(m.frame))

\* Seeded defect: chunks are kept in order of arrival.
SlotByArrival(m) == Cardinality(DOMAIN delivered)

Slot(m) == m.seq

BurnNonce(m) ==
    seenNonces' = Remember(seenNonces, WindowSize, m.frame.nonce)

\* Seeded defect: a repair is counted as an initial FULL.
FullOutcomeAlways(m) == "full"

FullOutcome(m) == IF m.repair THEN "repair" ELSE "full"

Count(s, o) == counts' = [counts EXCEPT ![s][o] = @ + 1]

\* A FRAME is being handled on stream s and passes the checks of accept_frame
\* up to and including verify_frame.
Admitted(s, m) ==
    /\ phase[s] = "open"
    /\ m.t = "FRAME"
    /\ Expected(m)
    /\ Verified(m)

\* FULL, as an initial frame or as the repair of a miss.
AcceptFull(s, m) ==
    /\ Admitted(s, m)
    /\ WellFormedFull(m.frame)
    /\ BurnNonce(m)
    /\ dictionary' = TouchLru(dictionary, m.frame.cid, m.frame.payload,
                              MaxDictChunks)
    /\ delivered' = Put(delivered, Slot(m), m.frame.payload)
    /\ pendingRepairs' = IF m.repair THEN Drop(pendingRepairs, m.seq)
                                     ELSE pendingRepairs
    /\ Count(s, FullOutcome(m))
    /\ Advance(m)
    /\ Stay(s) /\ Silent
    /\ UNCHANGED <<session, roundEnded>>

\* REF whose chunk the receiver has: delivered, the LRU order unchanged.
AcceptRef(s, m) ==
    /\ Admitted(s, m)
    /\ RefHit(m.frame)
    /\ BurnNonce(m)
    /\ delivered' = Put(delivered, Slot(m),
                         Lookup(dictionary, m.frame.cid))
    /\ Count(s, "ref")
    /\ Advance(m)
    /\ Stay(s) /\ Silent
    /\ UNCHANGED <<session, dictionary, pendingRepairs, roundEnded>>

\* REF whose chunk the receiver lacks: the reference waits for its repair.
AcceptMiss(s, m) ==
    /\ Admitted(s, m)
    /\ RefMiss(m.frame)
    /\ BurnNonce(m)
    /\ pendingRepairs' = Put(pendingRepairs, m.seq, Reference(m.frame))
    /\ Count(s, "miss")
    /\ Advance(m)
    /\ Stay(s) /\ Silent
    /\ UNCHANGED <<session, dictionary, delivered, roundEnded>>

\* Seeded defect: the dictionary is updated before the frame is checked.
UnusableFrameEager(s, m) ==
    /\ Admitted(s, m)
    /\ ~ Usable(m.frame)
    /\ BurnNonce(m)
    /\ dictionary' = IF m.frame.kind = "FULL" /\ m.frame.payload # NoPayload
                     THEN TouchLru(dictionary, m.frame.cid, m.frame.payload,
                                   MaxDictChunks)
                     ELSE dictionary
    /\ Fail(s)
    /\ UNCHANGED <<session, delivered, nextInitialSeq, nextInitialOffset,
                   pendingRepairs, roundEnded, counts, promised>>

\* An authentic frame that accept_frame refuses after its nonce was added.
UnusableFrame(s, m) ==
    /\ Admitted(s, m)
    /\ ~ Usable(m.frame)
    /\ BurnNonce(m)
    /\ Fail(s)
    /\ UNCHANGED <<session, reconstruction, counts, promised>>

\* A frame refused before its nonce was added.
RefuseFrame(s, m) ==
    /\ phase[s] = "open"
    /\ m.t = "FRAME"
    /\ ~ (Expected(m) /\ Verified(m))
    /\ Fail(s)
    /\ UNCHANGED <<session, reconstruction, seenNonces, counts, promised>>

-----------------------------------------------------------------------------
(* The rest of handle_stream.                                              *)

\* Seeded defect: a HELLO starts a new round.
HelloReopens(s, m) ==
    /\ phase[s] = "hello"
    /\ m.t = "HELLO" /\ m.valid /\ m.count \in 0 .. MaxFrameCount
    /\ expectedFrameCount' = m.count
    /\ roundEnded' = FALSE
    /\ phase' = [phase EXCEPT ![s] = "open"]
    /\ Silent
    /\ UNCHANGED <<target, dictionary, delivered, nextInitialSeq,
                   nextInitialOffset, pendingRepairs, seenNonces, counts,
                   promised>>

\* Seeded defect: the frame count of a HELLO is not checked.
HelloAnyCount(s, m) ==
    /\ phase[s] = "hello"
    /\ m.t = "HELLO" /\ m.valid
    /\ expectedFrameCount' = m.count
    /\ phase' = [phase EXCEPT ![s] = "open"]
    /\ Silent
    /\ UNCHANGED <<target, reconstruction, seenNonces, counts, promised>>

\* accept_hello: nothing stops a second stream from saying HELLO again.
Hello(s, m) ==
    /\ phase[s] = "hello"
    /\ m.t = "HELLO" /\ m.valid /\ m.count \in 0 .. MaxFrameCount
    /\ expectedFrameCount' = m.count
    /\ phase' = [phase EXCEPT ![s] = "open"]
    /\ Silent
    /\ UNCHANGED <<target, reconstruction, seenNonces, counts, promised>>

BadHello(s, m) ==
    /\ phase[s] = "hello"
    /\ m.t # "MALFORMED"
    /\ ~ (m.t = "HELLO" /\ m.valid /\ m.count \in 0 .. MaxFrameCount)
    /\ Fail(s)
    /\ UNCHANGED <<session, reconstruction, seenNonces, counts, promised>>

RoundComplete == ~ roundEnded /\ nextInitialSeq = expectedFrameCount

\* END_ROUND in time.  The client walks the items in ascending order, so their
\* set stands for the sorted list.  A list too long for one message makes
\* send_msg raise: the task dies with round_ended set and no reply.
EndRound(s, m) ==
    /\ phase[s] = "open" /\ m.t = "END_ROUND"
    /\ RoundComplete
    /\ roundEnded' = TRUE
    /\ IF Cardinality(DOMAIN pendingRepairs) <= MaxMissing
       THEN /\ Send(s, [t |-> "MISSING", items |-> DOMAIN pendingRepairs])
            /\ Stay(s)
       ELSE Silent /\ Return(s)
    /\ UNCHANGED <<session, dictionary, delivered, nextInitialSeq,
                   nextInitialOffset, pendingRepairs, seenNonces, counts,
                   promised>>

BadEndRound(s, m) ==
    /\ phase[s] = "open" /\ m.t = "END_ROUND"
    /\ ~ RoundComplete
    /\ Fail(s)
    /\ UNCHANGED <<session, reconstruction, seenNonces, counts, promised>>

Output == [i \in 1 .. expectedFrameCount |-> delivered[i - 1]]

\* Seeded defect: FINISH does not notice frames beyond the count of the HELLO.
FinishableUnchecked ==
    /\ roundEnded
    /\ DOMAIN pendingRepairs = {}
    /\ 0 .. expectedFrameCount - 1 \subseteq DOMAIN delivered

\* What FINISH requires: the round over, nothing pending, and exactly the
\* sequence numbers of the HELLO delivered.
Finishable ==
    /\ roundEnded
    /\ DOMAIN pendingRepairs = {}
    /\ DOMAIN delivered = 0 .. expectedFrameCount - 1

Finish(s, m) ==
    /\ phase[s] = "open" /\ m.t = "FINISH"
    /\ Finishable
    /\ Send(s, [t |-> "STATS", ok |-> Output = target, counts |-> counts[s]])
    /\ Return(s)
    /\ UNCHANGED <<session, reconstruction, seenNonces, counts, promised>>

BadFinish(s, m) ==
    /\ phase[s] = "open" /\ m.t = "FINISH"
    /\ ~ Finishable
    /\ Fail(s)
    /\ UNCHANGED <<session, reconstruction, seenNonces, counts, promised>>

\* A second HELLO, or any other message the loop has no branch for.
Unknown(s, m) ==
    /\ phase[s] = "open" /\ m.t \in {"HELLO", "UNKNOWN"}
    /\ Fail(s)
    /\ UNCHANGED <<session, reconstruction, seenNonces, counts, promised>>

\* read_msg raises ValueError, which handle_stream does not catch, or
\* IncompleteReadError at the end of the stream, which it does: either way the
\* task ends without a reply and the shared object stays as it is.
Abandon(s) ==
    /\ phase[s] # "closed"
    /\ Return(s) /\ Silent
    /\ UNCHANGED <<session, reconstruction, seenNonces, counts, promised>>

Undecodable(s, m) == m.t = "MALFORMED" /\ Abandon(s)

HandleFrame(s, m) ==
    \/ AcceptFull(s, m) \/ AcceptRef(s, m) \/ AcceptMiss(s, m)
    \/ UnusableFrame(s, m) \/ RefuseFrame(s, m)

\* One message on stream s.
Handle(s, m) ==
    \/ HandleFrame(s, m)
    \/ Hello(s, m) \/ BadHello(s, m)
    \/ EndRound(s, m) \/ BadEndRound(s, m)
    \/ Finish(s, m) \/ BadFinish(s, m)
    \/ Unknown(s, m) \/ Undecodable(s, m)

Next == \E s \in Streams :
    \/ \E m \in Messages : Handle(s, m)
    \/ Abandon(s)

Spec == Init /\ [][Next]_vars

-----------------------------------------------------------------------------
(* Properties.                                                             *)

References == [cid : Cids, length : Nat, offset : Nat]

Replies ==
    [t : {"ERROR"}] \cup [t : {"MISSING"}, items : SUBSET Nat]
    \cup [t : {"STATS"}, ok : BOOLEAN, counts : [Outcomes -> Nat]]

\* The fields of QuicReduLinkServer and of its tasks have their types, and a
\* task in the message loop has a frame count.
TypeOK ==
    /\ target \in Inputs
    /\ dictionary \in Seq(Entries)
    /\ seenNonces \in Windows
    /\ expectedFrameCount \in Nat \cup {NoFrameCount}
    /\ nextInitialSeq \in Nat /\ nextInitialOffset \in Nat
    /\ delivered \in [DOMAIN delivered -> Chunks]
    /\ DOMAIN delivered \subseteq Nat
    /\ pendingRepairs \in [DOMAIN pendingRepairs -> References]
    /\ DOMAIN pendingRepairs \subseteq Nat
    /\ promised \in [0 .. nextInitialSeq - 1 -> References]
    /\ roundEnded \in BOOLEAN
    /\ phase \in [Streams -> {"hello", "open", "closed"}]
    /\ \A s \in Streams : phase[s] = "open" => expectedFrameCount \in Nat
    /\ counts \in [Streams -> [Outcomes -> Nat]]
    /\ replies \in [Streams -> Seq(Replies)]

\* Whatever authentic frames arrive, on however many streams, the dictionary
\* files every chunk under its own id, has no duplicate keys and respects
\* max_dict_chunks (accept_frame, touch_lru).
DictionarySound ==
    /\ Authentic(dictionary)
    /\ Len(dictionary) <= MaxDictChunks

\* Each sequence number below the cursor is either delivered or waiting for
\* its repair, never both and never neither; nothing lies above the cursor.
CursorPartition ==
    /\ DOMAIN delivered \cap DOMAIN pendingRepairs = {}
    /\ DOMAIN delivered \cup DOMAIN pendingRepairs = 0 .. nextInitialSeq - 1

\* What is delivered at a sequence number is the chunk its initial frame
\* promised, however late it came and by whichever stream: a repair cannot
\* put another chunk in its place.
PromisesKept ==
    /\ \A q \in DOMAIN delivered :
          /\ promised[q].cid = CidOf[delivered[q]]
          /\ promised[q].length = LengthOf[delivered[q]]
    /\ \A q \in DOMAIN pendingRepairs : pendingRepairs[q] = promised[q]

\* The authenticated offsets of consecutive frames leave no gap and no
\* overlap, so joining delivered in order puts every chunk at its offset.
OffsetsContiguous ==
    \A q \in DOMAIN promised :
        promised[q].offset + promised[q].length
            = IF q + 1 = nextInitialSeq THEN nextInitialOffset
                                        ELSE promised[q + 1].offset

\* A chunk once delivered is never overwritten or dropped.
DeliveredOnce ==
    [][\A q \in DOMAIN delivered :
          q \in DOMAIN delivered' /\ delivered'[q] = delivered[q]]_vars

\* accept_frame's docstring, "Validate authenticated state before mutating
\* reconstruction state": a message that ends a task, for whatever reason,
\* leaves what other tasks reconstruct from untouched.
\* (An END_ROUND whose MISSING is too long still ends the round.)
ReturnIsHarmless ==
    [][(\E s \in Streams : phase[s] # phase'[s] /\ phase'[s] = "closed")
          => UNCHANGED <<dictionary, delivered, pendingRepairs,
                         nextInitialSeq, nextInitialOffset>>]_vars

Reported(s) == \E i \in DOMAIN replies[s] : replies[s][i].t = "STATS"

\* Once some stream was told STATS, no stream can change what was delivered:
\* the verdict on the digest stays true of the object.
ReportIsFinal ==
    [][(\E s \in Streams : Reported(s))
          => UNCHANGED <<delivered, pendingRepairs, dictionary, roundEnded>>]_vars

\* A STATS tells the truth about everything delivered, not about a prefix: it
\* says ok exactly when the chunks delivered, in order, are the whole input.
\* This must survive a HELLO on another stream that changes the frame count.
ReportIsTrue ==
    \A s \in Streams : \A i \in DOMAIN replies[s] :
        replies[s][i].t = "STATS" =>
            (replies[s][i].ok
                <=> target = [n \in 1 .. nextInitialSeq |-> delivered[n - 1]])

CountOf(o) == MapThenSumSet(LAMBDA s : counts[s][o], Streams)

\* test_aioquic_experiment expects as many repairs as misses.  Over all
\* streams: every initial frame is counted once, and the misses not yet
\* repaired are those pending, so at STATS misses and repairs agree.
CountsAgree ==
    /\ CountOf("full") + CountOf("ref") + CountOf("miss") = nextInitialSeq
    /\ CountOf("miss") - CountOf("repair") = Cardinality(DOMAIN pendingRepairs)
=============================================================================
