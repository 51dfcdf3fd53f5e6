# A verification development for ReduLink

ReduLink sends a byte stream as *frames*: a `FULL` frame carries a chunk, a
`REF` frame only the id of a chunk that sender and receiver are expected to
share. A receiver that lacks the chunk of a `REF` says so, and the sender
*repairs* the miss with a `FULL`. The repository (`src/`) implements the codec,
a secured variant of it, and several transports. This directory holds TLA+
modules of its stateful parts, TLC configurations that check them on small
instances, and TLAPS proofs of what matters most for every instance.

In what follows `src/src/...` and `src/prototypes/...` are paths from the
directory above this one. `PROJECT.json` lists, for each definition, the lines
of the source it stands for.

## 1. Inventory

| Component | Source | State it keeps | Operations |
|---|---|---|---|
| Replay window | `src/src/redulink_secure.py`, `NonceWindow` | recent nonces, the highest one, a capacity | `in`, `add` |
| Chunk dictionary | `redulink_model.touch_lru`; `_dictionary_from_bytes`; `build_secure_dictionary`, `thin_dictionary` of the prototypes | an LRU `OrderedDict` from chunk id to chunk, bounded by `max_dict_chunks` | lookup, touch and evict, build, thin |
| Codecs | `redulink_model.py`, `redulink_secure.py` (`encode`, `decode`, `verify_frame`) | the encoder's and the decoder's dictionary, offset, nonce, replay window | encode, verify, decode |
| Chunkers | `redulink_model.py` (`fixed_chunks`, `cdc_chunks`) | start of the chunk, rolling hash | one byte at a time |
| QUIC receiver | `redulink_aioquic_experiment.py`, `QuicReduLinkServer` | dictionary, delivered chunks, pending repairs, cursors, frame count, replay window, `round_ended`; per stream: the task, its counters | `accept_hello`, `accept_frame`, END_ROUND, FINISH |
| QUIC sender and session | `run_async` of the same file | frames, warm dictionary, next nonce, items to repair; the connection | HELLO, frames, END_ROUND, repairs, FINISH, STATS |
| UDP repair experiment | `redulink_udp_repair_experiment.py` | client: frame, attempts, repairs; server thread: dictionary, delivered, dropped once, counters | send and wait, retry, repair, END; ACK, MISS, STATS |
| Authenticated UDP experiment | `redulink_authenticated_udp_experiment.py` | as above plus a replay window, and two probes | lock-step exchange, tamper and replay probes |
| TCP socket prototype | `redulink_socket_prototype.py` | a byte stream in pieces | `send_frame`, `read_exact`, `recv_frame` |
| Wire format | `redulink_wire.py` | none besides the bytes read so far | encode, decode, bounded length prefix |
| Semantic repair demo | `redulink_semantic_repair_demo.py` | two mirrored dictionaries | encode, miss, repair |
| Object workload codec | `run_external_object_workload_suite.py` | a dictionary and replay window for all objects | per-object encode and decode |
| Key schedule | `redulink_key_schedule.py` | none | HKDF over a context |
| Path shaper, loss proxy | `run_quic_emulated_path.py`, `LossyUdpProxy` | per-direction FIFO, link time, random loss | delay, queue, drop |
| Benchmarks, scripts, paper | `benchmarks/`, `scripts/`, `paper/`, `data/`, `results/` | files | orchestration, aggregation |

**How they interact.** A sender calls an encoder, which consults and updates
*its* dictionary; the frames cross a transport; a receiver looks references up
in *another* dictionary, which it updates by rules of its own. Nothing keeps
the two dictionaries equal except that both started from the same warm bytes,
and the experiments break even that on purpose by thinning the receiver's.
Every transport therefore has a repair path. In the QUIC prototype one server
object is shared by the tasks of all streams; in the UDP experiment a client
and a server thread share nothing but datagrams and retransmit on a timeout.

**What is hard here.** Eviction at capacity on two dictionaries that differ;
repairs that arrive after later frames; several tasks advancing one set of
cursors; a replay window with bounded memory and arbitrary nonce order; answers
that come after their timeout; retransmissions that a receiver sees twice; a
last answer that is sent once and lost; a connection that fails between any two
messages. `PROJECT.json` lists each of these as a hazard, with the line where
it bites and the properties that cover it.

**What makes each part correct.** A replay window must answer like unbounded
memory. A dictionary must file every chunk under its own id. A receiver must
put every chunk at the place its reference reserved, exactly once, and its
verdict must be about the whole input. A session or exchange must be a reliable
transfer: nothing wrong is ever delivered, success means all of it, and it
comes to an end. Two codecs that start from the same bytes must stay in lock
step, evictions included, and a decoder of authenticated frames must accept
nothing but an untouched beginning of what was made. A framing must stay in
step with its stream however the stream is cut into pieces, a proxy must keep
the order of a path and account for every datagram, chunks must tile the data,
and a derived key must differ whenever its context does, as far as joined text can
tell contexts apart.

## 2. Modules

```
NonceWindow     NonceFilter implements ReplayFilter ........ LayersProofs
ChunkDictionary
  |-- ObjectCodec .......................................... SecureProofs
  `-- Encoding ............................................. EncodingProofs
        |-- QuicServer ..................................... QuicSessionProofs
        |     `-- QuicSession implements ReliableTransfer .. QuicSessionProofs
        |-- PlainCodec       implements ReliableTransfer ... CodecProofs
        |-- SocketPrototype ................................ CodecProofs
        |-- SecureCodec .................................... SecureProofs
        |-- SemanticRepair   implements ReliableTransfer ... SemanticRepairProofs
        |-- UdpRepair        implements ReliableTransfer ... UdpRepairProofs
        `-- AuthUdp          implements ReliableTransfer ... AuthUdpProofs
Codecs          the four codecs, one in a behaviour ........ CodecProofs
WireFormat --- WireStream .................................. LayersProofs
LossyProxy ................................................. LayersProofs
Chunker      KeySchedule ................................... LayersProofs
```

A branch is an `EXTENDS`. `NonceWindow` is also extended by `NonceFilter`,
`QuicServer`, `SecureCodec`, `AuthUdp` and `ObjectCodec`. Each of the receiver, the
session and the transports has an `MC` module of its own that gives
its constants values for TLC, as has the filter for finding 1. Two more take several modules together, with a
variable that says which of them the behaviour is about: `Codecs` runs
`PlainCodec`, `SecureCodec`, `SemanticRepair` and `ObjectCodec`, and `MCCodecs` gives
them the same chunks, inputs and warm dictionaries; `MCLayers` runs what lies below,
`NonceFilter`, `Chunker`, `KeySchedule`, `WireStream` and `LossyProxy`. `Codecs` instantiates `SecureProofs` and
`SemanticRepairProofs`, so that their theorems, with its variables for theirs, are
there for `CodecProofs` to cite; to TLC they are the modules they extend.
`ThreeChunks` holds the
chunks and inputs the `MC` modules share.

**Conventions.** Python names are kept in TLA+ spelling (`next_initial_seq` is
`nextInitialSeq`). Variables marked *history* are read by no action. An
operator under the comment "Seeded defect" belongs to no specification: it is a
plausible bug (a dropped guard, a wrong counter), kept beside the definition it
would replace, and for every checked property there is one that breaks it.

### NonceWindow, NonceFilter, ReplayFilter

`NonceWindow` has the class's fields and its two methods: `Replayed` is
`__contains__`, `Remember` is `add`, with the prune that happens only when the
highest nonce moves while the set is over its capacity. `NonceFilter` is the
check-then-add every receiver makes. `ReplayFilter` is the same promise with
unbounded memory: a nonce is fresh if it was never accepted and is not `Size`
or more behind the newest accepted one. The refinement mapping is the identity
on `accepted` and `answer`; the window is what the implementation adds.

### ChunkDictionary

Chunks are atoms with an id (`CidOf`, injective: truncated HMAC-SHA256 is taken
to be free of collisions, as the design takes it) and a length. An
`OrderedDict` is a sequence of entries, oldest first. `TouchLru`,
`WarmDictionaries`, `Thinned` are the functions of those names.

### QuicServer

One action is one message handled by one `handle_stream` task: between the read
of a message and its reply there is no `await` that yields, so this is the
granularity at which tasks interleave. `accept_frame` is split by its outcome:

| Action | Code |
|---|---|
| `AcceptFull`, `AcceptRef`, `AcceptMiss` | the three ways a verified frame changes the state |
| `UnusableFrame` | a verified frame that fails a later check, after its nonce was added |
| `RefuseFrame` | a frame refused before `verify_frame` has accepted it |
| `Hello`, `BadHello` | `accept_hello`; a second stream may say HELLO again and overwrite the frame count |
| `EndRound`, `BadEndRound` | END_ROUND; a MISSING too long for one message makes `send_msg` raise after `round_ended` was set |
| `Finish`, `BadFinish` | FINISH; STATS with the verdict on the digest |
| `Unknown`, `Undecodable`, `Abandon` | other messages, bytes that do not decode, the end of the stream |

The peer is arbitrary. `tagged` and `inContext` say whether a frame's tag
verifies and whether its epoch, scope and stream id are the session's; how the
key and tag are computed is abstracted. The digest the server expects is
modelled by the input it is the digest of.

### QuicSession

Replaces the arbitrary peer by the client of `run_async`: the encoder of
`redulink_secure.encode` one chunk at a time, then HELLO, frames, END_ROUND,
the repairs MISSING asks for (their payload taken from the *warm* dictionary,
their nonces continuing after the initial ones), FINISH, STATS. The history
`encoders` holds the encoder's dictionary before every frame. The QUIC stream
is a FIFO that loses nothing while the connection lives; `ConnectionLost` may
end it at any time and keeps any prefix of what was sent, `IdleTimeout` ends it
when both sides wait. `ReadStats` has the verdict, `Close` is what follows it:
`write_eof` and `drain`, whose errors are swallowed, and a `ping`, which raises
ConnectionError on a connection that is gone and takes the verdict with it. A
ping is taken to be answered as long as the connection lives.
`send_msg` also raises on a FRAME longer than `MAX_MESSAGE_BYTES` (16 MiB), which
takes a chunk of that order; chunks are taken to be smaller (`Transmit`). An empty input aborts the client, as `max()` of no nonces
does in the code.

### UdpRepair

The stop-and-wait client (`send_and_wait_ack`, its caller, the END loop) and
`UdpRepairServer.run`. `Transmit`, `Timeout`, `ReceiveAck`, `ReceiveMiss`,
`ReceiveMissForRepair`, `ReceiveStats`, `ReceiveStale` and `GiveUp` are the
branches of the client's loops; `DropDatagram`, `AckAgain`, `AcceptFull`,
`AcceptRef`, `MissRef`, `ServeEnd` and `ServerTimeout` those of the server's.
Each queue of datagrams is the loopback interface: it keeps order and does not
repeat, but a datagram may be lost (`LoseDatagram`) and an answer may come after
its timeout (a `Timeout` while something is still on its way). `faults` counts
both and the drops the experiment injects. The encoder and the random thinning are operators of the initial
state, the former from `Encoding`.

Left out: the `ERROR` replies, which answer messages this client never builds,
and the server's five-second timeout while the client is still at work, which
`max_retries` + 1 = 7 attempts of 0.05 s never reach with the default
parameters.

### Encoding

`redulink_model.encode` with `miss_rate` 0 and `redulink_secure.encode` as
operators: the frames made of some data, the dictionary the encoder has before
each frame (`EncoderBefore`), nonces and offsets. Used wherever frames are made
at once and sent later. A FULL and a REF carry the chunk their id is of; an
altered frame is one with `genuine` FALSE.

### PlainCodec

`encode` and `decode` of `redulink_model.py` chunk by chunk: `EncodeChunk`
(which may refer or, with a miss rate, send in full what it has),
`StartDecoding`, `DecodeFull`, `DecodeRef`, `RejectMiss`, `Return`. The history
`encoders` holds the encoder's dictionary before every frame.

### SecureCodec

`redulink_secure.decode` handed frames of `encode` in any order, repeated, left
out or altered: `TakeFull` and `TakeRef` for a frame `verify_frame` accepts,
`Refuse` for one it refuses or a reference that is not found, `Return` wherever
the list stops.

### SemanticRepair

`semantic_repair_run`: `EncodeChunk` and `StartTransfer` for the call of
`encode`, then `ProcessFull`, `ProcessRef` and `ProcessMiss` for the branches of
the loop and `Return`. The sender's dictionary follows its FULL frames only, the
receiver's also its repairs, exactly as in the code.

### AuthUdp

The client of the authenticated experiment and `AuthUdpServer.run`. `Start`
makes the frames and the choice of probes, `Exchange` is one `sendto` with the
wait that follows, `ReceiveProbeReply`, `ReceiveAck`, `ReceiveMiss`,
`ReceiveError` and `ReceiveStats` are what the client does with a reply,
`Timeout` its `socket.timeout`; `Refuse` (tag, context or replay),
`AcceptProbe`, `AcceptFull`, `AcceptRef`, `MissRef`, `ServeEnd` and
`ServerTimeout` are the server's branches. The probes use the greatest honest
nonce plus `ProbeGap` (1000 in the code) and the server's only replay window. At
most one datagram is on its way, as each end sends only after it has received.

### SocketPrototype

`run_client` and `run_server` over one TCP connection: `Write` is any part of
what `sendall` still has to write, `Receive` one piece of what `read_exact`
waits for, so the server meets every way to cut the stream into pieces. The client
reads the report with one `recv`: it has all of it (`Answered`) or a part of it
(`PartOfReport`), which is not JSON and makes it fail; the history `cutShort` says
so. `EndOfStream` is `recv_frame` at the end of the stream, in the middle of a frame
or between two. `OpenFile` empties the file and `WriteFile` writes it chunk by
chunk, as a process may die anywhere in between. `ClientFails`, `ServerDies` and
`ConnectionReset` may happen at any moment.

### WireFormat, WireStream

`Body` is `encode_message` and `Decode` is `decode_payload`, over bodies counted in units
rather than bytes; `Canonical` relates the two. `WireStream` is `send_message`
and `read_message` at the two ends of a stream that is fed in pieces and may be
cut anywhere, with bodies among the messages that `encode_message` never makes, too
long ones included. The four bytes of a length are one unit: `readexactly` keeps
what it has until all four are there, so a cut among them is a cut before them.
`Grow` makes, next to the stream, any body unit by unit, for `decode_payload` alone.

### LossyProxy

`LossyUdpProxy` of every connection and the `PathShaper` they share:
`DatagramReceived` with the loss of every n-th datagram of a path, the time a
datagram needs on the link and the timer it waits for, `Fire` the oldest timer
that is due, `Close` the transport, `Tick` the clock. The shaper may be absent. How
late the event loop may be is bounded by the guard of `Tick`, which only keeps time
finite for TLC; no property needs it.

### Chunker, ObjectCodec, KeySchedule

`Chunker` runs the loop of `cdc_chunks` byte by byte, with the part of the hash
that reaches the mask, and states `fixed_chunks` as a function. `ChunkerAssumption`
is about what the callers use: a target that is a power of two, up to 2^16, and a
least size of at least the mask's bits. The code takes any target; what it does with
others is not covered here. `ObjectCodec` is
the decoder of records of the object workload: headers and frames of several
objects, in both modes, handed over untouched or moved, repeated, left out and
(when authenticated) altered. `objects` are the objects encoded, `items` the history
of what was handed over; `phase` is the place in the loop, `known` the dictionary,
`rebuilt` and `expectedOffset` are the open record's. `KeySchedule` is `derive_redulink_secret` with
the loop of `hkdf_expand`, one block per step; ALPN and scope may be any text, the
separator `|` and labels included, as nothing checks them.

### ReliableTransfer

What every transport and the plain codec promise: chunks of the input appear at
their own places, success is reported only when all are there, failure is
possible before that. The keys of `delivered`, shifted by one, or the output
so far are the abstract `got`; the program counter gives the abstract `outcome`.

## 3. What the runs check

| Run | Properties | What it shows |
|---|---|---|
| `nonce_window_doc` | `KeepsAtMostSize` (violated) | finding 1 |
| `quic_server` | `TypeOK`, `DictionarySound`, `CursorPartition`, `PromisesKept`, `ReportIsTrue`, `CountsAgree`, `DeliveredOnce`, `ReturnIsHarmless`, `ReportIsFinal` | the receiver stays sound against any peer on two streams |
| `quic_session` | `SessionTypeOK`, `EveryMissRepairable`, `NeverRejected`, `VerdictAgrees`, `ImplementsTransfer`, `SessionEnds` | client and server together are a reliable transfer, which ends, and with success unless something named by `Obstacle` is in the way |
| `udp_repair` | `UdpTypeOK`, `StopAndWait`, `FailureHasCause`, `CountsMatch`, `ImplementsTransfer`, `BothEnd` | stop and wait over a lossy, slow network is a reliable transfer and ends |
| `udp_duplicate_miss` | `DuplicateMissIdempotent` (violated) | finding 2 |
| `udp_divergence` | `DivergenceIsRepaired` (violated) | finding 3 |
| `auth_udp` | `AuthTypeOK`, `FailureHasCause`, `StatsAgree`, `ImplementsTransfer`, `BothEnd` | likewise with every choice of probes and a lost datagram |
| `auth_udp_normal` | `NormalTrafficAccepted` (violated) | finding 4 |
| `socket_prototype` | `AckTellsTruth`, `ServerEnds` | a report means the whole file, whatever dies, is cut or differs; nobody waits for ever, and an undisturbed run leaves the whole file and a client that knows, or got part of the report |
| `codecs` | `LockStep`, `RoundTrips`, `ImplementsTransfer`, `DecodesWhatWasMade`, `MissesRepaired` | what the plain codec, the secure codec, the semantic repair and the object records promise |
| `layers` | `TypeOK`, `MemoryBound`, `ImplementsReplayFilter`, `ChunksTile`, `SecretsSeparate`, `WireInStep`, `ProxiesForward` | bounded memory of nonces answers as unbounded memory would; what the chunkers, the key schedule, the wire format and the proxies promise |
| `key_contexts_doc` | `KeysChangeWithContext` (violated) | finding 5 |

Of `codecs`, the first three are `PlainCodec`'s own: the decoder's dictionary is
the encoder's at every frame, order of eviction included; from the same warm
bytes nothing is refused; decoding is a reliable transfer. Of `layers`, the first three
are the replay window's. The other properties of both are conjunctions of what the modules they run state:

* `DecodesWhatWasMade`: only an untouched beginning of a list of frames
  (`SecureCodec`) or of records (`ObjectCodec`) is decoded, no object with another
  length than its header's, and what is untouched is always decoded, with the
  decoder's dictionary in step with the encoder's.
* `MissesRepaired` (`SemanticRepair`): the sender that repairs follows its encoder
  entry by entry, every miss is repaired, and none twice below capacity.
* `ChunksTile`: the chunks are the data cut up, their sizes are within bounds, and a
  boundary depends only on the bytes before it.
* `SecretsSeparate`: the secret is HKDF's, tells the master secret, and is shared by two
  contexts only if both have the separator in their ALPN or scope.
* `WireInStep`: the reader follows the writer through every way of cutting the stream
  into pieces or off, loses nothing that arrived whole, refuses only what
  `encode_message` never makes, and every body that decodes is the encoding of
  what it decodes to.
* `ProxiesForward`: datagrams of a path keep their order, each is forwarded, lost by
  rule, closed with its proxy or still waiting, and the link they share is neither
  used twice at a time nor idle while one waits.

**Bounds, and why they are enough.**

* *Replay window*: nonces 0..7, capacity 3. A prune needs more nonces than the
  capacity; eight nonces allow two prunes with stale nonces in between, the
  pattern on which the memory bound rests. The theorems lift the bound.
* *Receiver*: two streams, two chunks of different lengths, one dictionary
  entry (so every FULL evicts), a replay window of two, two sequence numbers,
  three nonces, one item per MISSING. Two sequence numbers let a repair come
  after a later frame, two streams let a HELLO come between another stream's
  END_ROUND and FINISH; an oversized MISSING takes two misses. Well-formed frames
  with all offsets and nonces, and one frame of each malformed kind, are
  offered in every state. The two streams are interchangeable, and only safety
  is checked, so symmetry is sound.
* *Session, UDP, authenticated UDP, socket*: the three chunks have the same length
  and all warm dictionaries are tried, so which chunk comes first in the input,
  and which next, is a matter of names: of inputs that differ only in the names
  of their chunks one is tried (`MCInputs`). This takes the place of a symmetry set,
  which liveness does not allow.
* *Session*: inputs of up to four of three chunks, all warm dictionaries of at most
  two, every second warm chunk withheld, replay window of three, two items per
  MISSING. The third chunk is what it takes to evict; the fourth position refers
  to what was evicted.
* *UDP*: as the session, with all thinnings, two retries, an injected drop of
  every second frame, and at most three faults, one more than the retries, so
  a client can fail at its last attempt and after recovering once.
* *Authenticated UDP*: inputs of up to five, dictionary of two, a gap of two and
  a window of four. With five frames the probe's nonce is seven and the lowest
  honest nonces fall out of the window; the second repair gets the probe's nonce;
  and without a probe, the repair of the first frame pushes the window past the
  second, which takes a transfer longer than the window. One fault, since any fault
  ends the client. All four choices of the two probes are tried.
* *Socket*: inputs of up to three, units of a prefix, a header and a payload, all
  pairs of warm dictionaries: every place to cut a frame, a first, a middle and
  a last frame to cut.
* *Codecs*: inputs of up to four of three chunks, one longer than the others,
  dictionaries of two, all pairs of warm dictionaries, all thinnings and simulated
  misses. Four chunks take a chunk through FULL, eviction by the other two, and
  FULL again. The replay window holds two nonces, so it forgets in the
  middle of a list. A refusal ends `decode`, so one wrong frame after every right
  beginning covers every list that is out of order, incomplete or altered.
  Objects: up to two, of up to two and one of two chunks, so a nonce is forgotten
  between objects.
* *Wire*: three messages per stream, so a refusal or a cut has a message before
  and after it; all bodies of up to nine units, the length of a FRAME with a unit
  of scope and one of payload, with fields up to two; a body one unit longer than a
  reader takes.
* *Proxy*: two connections, three datagrams per direction, two sizes, every second
  one lost: a datagram can be lost, wait behind another connection's and overtake
  nothing. The connections are interchangeable and only safety is checked, so
  symmetry is sound.
* *Chunker*: all data of up to eight bytes of four values, a mask of two bits, sizes
  two to four: three chunks, with cuts by content and by size.
* *Keys*: digests of two bytes and three blocks, contexts whose fields are empty,
  equal or beginnings of one another, two that are printed alike, and every length from
  -1 past the limit.

Deadlock is not checked where a run really ends: when both ends have stopped
there is no further step.

**Fairness.** `FairSession`: the asyncio loop runs every task that is ready
(weak fairness of the client and of the server task), and a QUIC endpoint closes
an idle connection (`IdleTimeout`). Nothing forces a connection to fail.
`FairUdp`: both threads run, and `socket.settimeout` makes a wait end when
nothing arrives (`Timeout` with nothing on its way, `ServerTimeout`). Nothing
forces a loss or a late answer, and at most `MaxFaults` of them occur in a run.
`FairAuth`: likewise, for the client's and the server's thread and their socket
timeouts; the client's wait of two seconds ends only if nothing is on its way,
and the server's of five only once the client has ended, since a client that
lives sends within two.
`FairSocket`: processes that live make progress; nothing need die and the
client need not lose its patience.

## 4. Findings

1. **Memory of the replay window.** `redulink_secure.py:153` says the window
   "Keeps at most `size` recent nonces." `add` prunes only when a new highest
   nonce arrives and the floor is above 0: with a size of three, the nonces 0, 1, 2, 3
   are all kept. The true bound is `2 * size` (`MemoryBound`, proved), which the
   repository's own test allows.
2. **A duplicate MISS is not idempotent.** `docs/protocol_summary.md:271` says
   it is. In the UDP experiment, when the answer to a REF comes after its
   timeout the REF is sent twice and answered by MISS twice; the client accepts
   the second MISS as the answer to its repair and raises "did not ACK",
   although nothing was lost.
3. **Divergence at capacity.** `docs/protocol_summary.md:323` says that on
   dictionary divergence the sender falls back to FULL. In the UDP experiment a
   repair touches the receiver's LRU and not the encoder's; at
   `max_dict_chunks` the receiver can evict a chunk that only the update
   contains while the encoder still refers to it. The client looks the repair
   up in the warm dictionary and raises "sender cannot repair REF".
   `EveryMissRepairable`, which is proved, shows that the QUIC prototype, which
   repairs only after the last initial frame, does not have this problem.
4. **The replay probe and the window.** `prototypes/README.md:68` says the
   receiver "rejects a tampered tag and a replayed nonce before accepting normal
   traffic". The probe is first accepted, with a nonce 1000 above every honest
   one, and moves the window it shares with the transfer: with the default
   capacity of 4096, the first chunks of an input of more than 3096 are refused
   as replays, and so is the repair that gets the probe's nonce. The client then
   raises. `FailureHasCause` shows there is one other cause of a refusal, without
   any probe: a repair's nonce is greater than all initial ones and is sent before
   the later initial frames, so in a transfer of more frames than the window's
   capacity an early repair moves the window past frames still to come. No
   document says otherwise, so this is a remark and not a finding of its own.
5. **Contexts that share a key.** `redulink_key_schedule.py:7-9` says that "ReduLink
   frame keys change when ALPN, connection context, epoch, or dictionary scope
   changes". `context_info` joins the fields with `|` and lets ALPN and scope contain
   it: ALPN `a`, epoch 1, scope `a|epoch=11|scope=a` is printed as ALPN
   `a|epoch=1|scope=a`, epoch 11, scope `a` is, and both derive the same secret. No
   caller in the repository has such a text; `SecretsSeparate`, which is proved, shows
   that nothing else makes two contexts share a key.

What happens at the end of a TCP stream is no contradiction of a document, but
worth knowing: `recv_frame` takes an end of file at a frame boundary for the
normal end and nothing says how many frames there are, so when the client dies
there the server writes what it got and returns normally. `AckTellsTruth` shows
that what it writes is the beginning of the update, and that a client that gets
a report is not deceived. The client, for its part, reads the report with one `recv`
and no loop: `ServerEnds` names the case where an undisturbed run fails for it,
with the whole file written.

## 5. What is proved

All theorems are checked by TLAPS for every value of the constants that meets
the named assumptions: capacities and bounds are natural numbers (positive
where the code needs it), `CidOf` is injective, no chunk is empty, a server has
finitely many streams, messages and inputs have their types. None of the proofs
bounds the number of streams, messages, frames, retries or faults.

* `LayersProofs`. For the replay window, invariant `IInv`: the type, `RemembersWindow`, and *at
  most `Size` nonces are stale*. The last is what makes `MemoryBound`
  inductive: the nonces above the floor are at most `Size` because they lie in
  an interval of that length, the stale ones because `add` discards all of
  them whenever it prunes and does not let them grow beyond the capacity when
  it does not. `WindowIsUnboundedFilter` follows from `RemembersWindow`:
  forgetting is invisible as what is forgotten is too old anyway.
  `RemembersWindow`, like `OffsetsContiguous` below, is a step of the argument and
  stated by a theorem (`WindowRemembers`, `OffsetsTile`), not by a run.
  For the proxies, invariant `ProxyInv`. `InOrder` needs that *the datagrams of a
  path are due in their order* (`DueInOrder`), since `Fire` goes by time and not by
  number. That they are, and `LinkIsShared`, needs that *none is due later than the
  link is free again, and a delay* (`DueInTime`). `LinkNeverIdles` speaks of the
  present, so it would be lost when the clock moves: `StaysBusy` says the same of
  every time until the link is free. `Accounted` needs that a server only answers
  a client its proxy knows (`NothingAstray`). `Load` is a fold, and the same
  whatever the order it takes its datagrams in (`LoadOneMore`).
  For the chunkers, invariant `ChunkerInv`: the chunks and the bytes since are the
  data read so far, and *the running hash is that of the bytes since the last
  boundary, and hit nowhere a boundary was allowed* (`HashTracks`), which is why a
  boundary depends on the chunk's own bytes only.
  For the key schedule, invariant `KeyInv`: the blocks made are the first of RFC
  5869, no more than the counter allows. The standard defines block n from block
  n - 1; that there is such a function is shown by recursion (`Recursion`). Cutting
  from the blocks made and from all of them is then the same (`BlocksOfTheRfc`,
  byte by byte). That contexts do not share secrets is `ContextInfoInjective`: the
  epoch, printed as a number, and the two binary contexts, printed in hex, contain no
  separator. So the last two fields are
  known from the end of the text. In what is left, a context without separators in
  ALPN and scope puts two, where the scope and the epoch begin; another context
  that prints the same has to put its own two there (`TwoSeparators`). Nothing is assumed of ALPN and
  scope; what the theorem leaves out is finding 5.
  For the wire format, `EveryBodyCanonical` says of any sequence of units that, if
  `decode_payload` takes it, it is the encoding of what it returns, and
  `EveryMessageDecodes` that whatever `encode_message` makes is taken. `WireInv` puts
  the reader in its place: *before a header it stands where the body it last
  returned ends, after one it waits for the length of the next* (`Place`), until it
  refuses. Lengths and bodies add up to where each frame starts (`NextFrame`), so
  what it reads next is what was written next, wherever the pieces end.
* `SecureProofs`. For `SecureCodec`, invariant `SecureInv`, with n the number of chunks returned:
  they are the input's first n, the offset is the one after them, the window's
  newest nonce is n and it remembers none beyond, and what was handed over is the
  first n frames encode made, until one is refused. Offsets grow with every
  chunk (`OffsetsGrow`, as no chunk is empty), so the frame at the expected offset
  is frame n + 1 and no other (`AcceptedIsNext`): dropped, repeated and reordered
  frames are all refused by their place, and `SecureFailsClosed` holds for any
  capacity of the window. `CleanListsAccepted` needs the converse, that frame
  n + 1 passes: its nonce is above the newest one, whatever the window has
  forgotten, and if it is a REF the chunk is held, since the decoder's
  dictionary is the encoder's before that frame (`SecureDictionariesAgree`).
  For `ObjectCodec`, invariant `ObjectInv`. Its middle is `AsMade`: where the decoder
  is *while what it was handed begins the records*: at a place of the records that
  the objects decoded and the chunks rebuilt determine, with the open record's own
  header, the dictionary of all chunks so far, over all objects, and a window that
  knows nothing beyond them. `ObjectsInStep` says that in the secure mode this is
  always so, and that what is refused is never the next item of the records. One
  direction needs that what is accepted is the next item (`HeaderIsNext`,
  `FrameIsNext`: a header by its index, a frame by its name and offset, as names are
  distinct and sizes grow; `IsWhole`: the end of a record by its length), the other
  that the next item is accepted (`NextItem`, `FrameHolds`). The records are put
  together by `FlattenSeq`, and `FlattenBlocks` says where in them each item is.
  `RecordKept` is what `BoundariesKept` needs in the plain mode, where frames may
  come from anywhere. The hypothesis is `ProperObjects`: each object of a list has a
  name of its own, as the files of a directory do, and the window's capacity is a
  number. TLC evaluates it on the lists of the run (`CodecsAssumption`).
* `EncodingProofs`, the lemmas the other proofs share. Touching, looking up,
  warming and thinning keep a dictionary sound: each chunk under its id, no key
  twice, within the bound. What touching does to the order of eviction (`Newer`),
  and that two dictionaries which are touched alike but hold and evict different
  chunks go on agreeing about what both were given (`Retains`). The encoders make
  one frame of each chunk, with its number as nonce and the sum of the lengths
  before it as offset, and the encoder's dictionary and offset after a chunk
  follow from those before it (`RememberedOneMore`, `AdvancedOneMore`). Folds are
  defined by recursion over a finite set, which
  `SetRecursion` gives a function for, by a well-founded argument that needs no
  induction theorem with an operator parameter. `Recursion` does the same for the
  numbers up to n, and `FlattenIs` says with it what sequences make put together.
* `QuicSessionProofs`. For the receiver, invariant `IInv`: the type, `DictionarySound`,
  `CursorPartition`, `PromisesKept`, `OffsetsContiguous`, `ReportIsTrue`, and
  *after a STATS the round is over and nothing is pending*. The conjuncts need
  each other: an initial frame must not hit a promised number (partition) for
  promises to stay kept; a repair must match its promise for the delivered
  chunk to be right; a report stays true under a later HELLO on another stream
  because no frame can be accepted any more. The action properties
  `DeliveredOnce`, `ReturnIsHarmless` and `ReportIsFinal` follow from it.
  `CountsAddUp` (`CountsAgree`) adds sums over all streams: the total moves by
  what the one stream that acts has counted (`CountRaised`), and the cursor and
  the pending repairs move with it.
  For the session, invariant `SessionInv`, over `IInv` of the receiver. It says
  what is on its way: in the first round the stream holds exactly the messages
  between what the server has taken and what the client has offered
  (`FirstRound`), a beginning of them once the connection is lost; in the second,
  repairs of different misses under ever new nonces, and FINISH only when all
  that is missing is before it (`SecondRound`, `Following`). `NeverRejected`
  follows since each of these messages passes `accept_frame`, the replay window
  included: until END_ROUND the highest nonce is the cursor, then each repair is
  one more. `EveryMissRepairable` is not inductive without the dictionaries:
  *until END_ROUND the receiver retains what the encoder gained since the warm
  bytes, no closer to eviction than in the encoder* (`Reading`, `Retains`), so a
  REF that misses is to a warm chunk, and the client has it. A repair within the
  round would break this, which is finding 3. `Answers` and
  `Tally` relate what both count, which gives `VerdictAgrees`.
  `SessionIsReliableTransfer` maps each step to one of `ReliableTransfer`.
* `UdpRepairProofs`. Invariant `UInv`: the type, one frame per chunk,
  `DictionarySound`'s counterpart, everything delivered is the input's chunk at
  its place, `StopAndWait`, and what the queues may hold: every frame under way
  is *honest* (not beyond the client's, carrying the input's chunk), every ACK
  under way is *warranted* (of something delivered). `StopAndWait` is not
  inductive without the last two: a stale ACK is harmless because it is still
  warranted. `UdpIsReliableTransfer` shows that every step is a `Deliver`,
  `Complete`, `Abort` or a stutter of `ReliableTransfer`. Three more invariants
  rest on it. `CountInv`, for `CountsMatch`: a MISS the client may still act upon
  is true and has been counted. `HoldInv`: as long as there is room, whatever was
  delivered is still held, and a REF is to a warm chunk or an earlier one.
  `FaultInv`: every datagram beyond the one exchange that is waited for has been
  paid for by a fault, and the stale ones are the oldest, so attempts never run
  ahead of faults; both together give `FailureHasCause`.
* `AuthUdpProofs`. Invariant `AInv`: the type; the frames cover the input;
  everything delivered is right; *nothing before the client's frame is
  missing*; the request on its way is the client's current frame, and there is
  never a reply beside it; an ACK on its way is of something delivered. Lock step
  makes the queues simpler than `UInv`'s, the probes make the stages more. These
  theorems hold for every window and gap: finding 4 costs the transfer its end,
  never its truth. `TalkInv` adds, *as long as nothing was lost or refused*, what
  the server has counted by now (`Tally`, for `StatsAgree`) and which nonces it can
  have seen (`WindowKnows`): those behind the client, the repairs', the probe's.
  An honest nonce is refused only if one of these is it or has pushed the window
  past it, which is `FailureHasCause`.
* `CodecProofs`. For `PlainCodec`, invariant `CInv`: the type; a frame of each
  chunk so far; *every encoder dictionary follows from the one before it by the
  frame it made*; the output is the input's beginning; what each phase starts and
  ends with; `LockStep` and `RoundTrips`. `LockStep` is not inductive without the
  middle part: the decoder's next step has to be matched with a step the encoder
  took long before. `RoundTrips` follows since a REF is only made of what
  that dictionary held. `CodecIsReliableTransfer` needs no equal start.
  For `SocketPrototype`, invariant `SocketInv`: what the server has read is a
  beginning of the frames and less than what was written; a server past the end
  of the stream has read all the client will ever write; it decodes before it
  opens the file, the file is a beginning of what was decoded, and it reports when that
  is all. `ServerBuilds` shows by recursion over the frames
  that `decode` of a beginning makes a beginning of the input, whatever the
  server knew, and all of it if no frame is missing. `ReportsAreTheTruth` follows.
  For `Codecs`: a behaviour of one of its codecs is a behaviour of that codec's
  module (`SecureAlone`, `ObjectsAlone`, `RepairAlone`) and never becomes another's, so
  the theorems of the modules give `CodecsDecodeWhatWasMade` and
  `CodecsRepairMisses`.
* `SemanticRepairProofs`. Invariant `RInv`: as `CInv`, for the sender: it has at
  every frame what the encoder had there, so what a REF names is in it
  and every miss is repaired (`EveryMissRepaired`), whatever the receiver lost.
  This is what the UDP experiment lacks (finding 3).
  `MissesCostOnce` (`MissedOnce`) needs `LackInv`: *the misses so far and what the
  receiver still lacks add up to what it was thinned of*. That rests on
  `TouchedKeepsAll`, by which nothing goes while there is room. `RepairBuildsInput`
  says what the receiver has at any time, and at the end.

**Only model-checked.** Liveness (`SessionEnds`, both `BothEnd`, `ServerEnds`),
which is beyond the prover. Every invariant, action property and refinement of a
passing run is a theorem, for all constants. All five findings are counterexamples
of TLC.

## 6. What is not modelled, and the plan

Not modelled:

* cryptographic strength: an altered frame never verifies, digests do not collide;
* of the wire format, the bodies of STATS and ERROR and the JSON of HELLO, which
  carry formatted values no property is about;
* byte accounting, timing and size estimates, which no step depends on;
* the benchmark drivers, including those that set up an emulated link with
  operating-system tools (`run_linux_netem_quic_path`,
  `run_macos_dummynet_quic_path`): their state is the machine's;
* artifact readers, corpus builders, argument parsing, report and figure
  generation, and the paper with its data: files in and files out;
* in the UDP experiments, replies to messages these clients never build.

Left for later: `QuicSession` over `LossyProxy`. The QUIC library between them
retransmits, so the composition would say more about that library than about this
code.

## 7. Running

```
tlc -config MCQuicServer.cfg MCQuicServer      # any MC module with its .cfg
tlapm QuicSessionProofs.tla                    # any *Proofs module
```

The configurations take from a second to about two minutes each, the proofs
from seconds to some minutes.
