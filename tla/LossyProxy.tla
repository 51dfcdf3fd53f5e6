----------------------------- MODULE LossyProxy -----------------------------
(***************************************************************************)
(* LossyUdpProxy of redulink_aioquic_experiment.py, one for each of the    *)
(* QUIC connections of a run, and the PathShaper of                        *)
(* benchmarks/run_quic_emulated_path.py they share.  A datagram is known   *)
(* by its connection, its direction and its number there; time is counted  *)
(* in what the link needs for a datagram of size 1.                        *)
(***************************************************************************)
EXTENDS Integers, Sequences, FiniteSets, FiniteSetsExt

CONSTANTS Flows,      \* the connections, each with a proxy of its own
          LossEvery,  \* loss_every, 0 for no loss
          Delay,      \* one_way_delay_ms
          Sizes,      \* bound: the sizes of datagrams
          MaxDatagrams, \* bound: datagrams in one direction of a connection
          MaxTime     \* bound: when the last datagram is sent

ASSUME ProxyAssumption ==
    /\ LossEvery \in Nat /\ Delay \in Nat
    /\ Sizes \subseteq Nat \ {0} /\ MaxDatagrams \in Nat /\ MaxTime \in Nat

Directions == {"c2s", "s2c"}
Paths == Flows \X Directions

VARIABLES
    shaped,      \* is there a shaper
    now,         \* loop.time()
    nextFree,    \* _next_free, for each direction
    clientKnown, \* the flows whose client_addr is not None
    seen,        \* for each path
    dropped,
    timers,      \* call_at: the datagrams that wait to be sent on
    arrived,     \* history: the numbers of the datagrams sent on, in order
    closed       \* the flows whose proxy transport is closed

proxyVars == <<shaped, now, nextFree, clientKnown, seen, dropped, timers, arrived, closed>>

ProxyInit ==
    /\ shaped \in BOOLEAN
    /\ now = 0
    /\ nextFree = [d \in Directions |-> 0]
    /\ clientKnown = {}
    /\ seen = [p \in Paths |-> 0]
    /\ dropped = [p \in Paths |-> 0]
    /\ timers = {}
    /\ arrived = [p \in Paths |-> <<>>]
    /\ closed = {}

\* The bucket of a direction.
Bucket(d) == d

\* Seeded defect: a datagram does not wait for those before it.
StartAtOnce(d) == now

StartOf(d) == IF nextFree[Bucket(d)] > now THEN nextFree[Bucket(d)] ELSE now

\* When the link is free again.
FreeAfter(d, size) == StartOf(d) + size

\* call_at.
Queue(h) == timers \cup {h}

\* schedule, and the timer _forward sets for what it returns; without a shaper
\* the datagram is sent on at once.
Forward(p, n, size) ==
    IF shaped
    THEN /\ nextFree' = [nextFree EXCEPT ![Bucket(p[2])] = FreeAfter(p[2], size)]
         /\ timers' = Queue([path |-> p, n |-> n, size |-> size,
                             at |-> FreeAfter(p[2], size) + Delay])
         /\ UNCHANGED arrived
    ELSE /\ arrived' = [arrived EXCEPT ![p] = Append(@, n)]
         /\ UNCHANGED <<nextFree, timers>>

IsLost(p) == LossEvery # 0 /\ (seen[p] + 1) % LossEvery = 0

\* A datagram from anybody but the server makes its sender the client.
KnowsClient(p) == p[2] = "c2s"

Drop(p, size) ==
    /\ dropped' = [dropped EXCEPT ![p] = @ + 1]
    /\ UNCHANGED <<nextFree, timers, arrived>>

\* datagram_received, at an open transport.
DatagramReceived(p, size) ==
    /\ p[1] \notin closed
    /\ now <= MaxTime /\ seen[p] < MaxDatagrams
    /\ seen' = [seen EXCEPT ![p] = @ + 1]
    /\ clientKnown' = IF KnowsClient(p) THEN clientKnown \cup {p[1]} ELSE clientKnown
    /\ CASE IsLost(p) -> Drop(p, size)
         [] ~ IsLost(p) /\ p[1] \in clientKnown' ->
                Forward(p, seen[p] + 1, size) /\ UNCHANGED dropped
         [] OTHER -> UNCHANGED <<dropped, nextFree, timers, arrived>>
    /\ UNCHANGED <<shaped, now, closed>>

\* A QUIC server answers; it does not speak first.
ServerSpeaks(f) == arrived[<<f, "c2s">>] # <<>>

\* _send of the first timer that is due; nothing after the transport is closed.
Fire ==
    /\ \E h \in timers :
         /\ h.at <= now
         /\ \A g \in timers : h.at <= g.at
         /\ timers' = timers \ {h}
         /\ arrived' = IF h.path[1] \in closed THEN arrived
                       ELSE [arrived EXCEPT ![h.path] = Append(@, h.n)]
    /\ UNCHANGED <<shaped, now, nextFree, clientKnown, seen, dropped, closed>>

\* Bound: the event loop is late by at most Delay.
Tick ==
    /\ now < MaxTime \/ timers # {}
    /\ \A h \in timers : now < h.at + Delay
    /\ now' = now + 1
    /\ UNCHANGED <<shaped, nextFree, clientKnown, seen, dropped, timers, arrived, closed>>

\* proxy_transport.close() at the end of run_async, which may have failed.
Close(f) ==
    /\ f \notin closed
    /\ closed' = closed \cup {f}
    /\ UNCHANGED <<shaped, now, nextFree, clientKnown, seen, dropped, timers, arrived>>

ProxyNext ==
    \/ \E f \in Flows, size \in Sizes :
          \/ DatagramReceived(<<f, "c2s">>, size)
          \/ ServerSpeaks(f) /\ DatagramReceived(<<f, "s2c">>, size)
    \/ Fire
    \/ Tick
    \/ \E f \in Flows : Close(f)

ProxySpec == ProxyInit /\ [][ProxyNext]_proxyVars

-----------------------------------------------------------------------------
(* Properties.                                                             *)

Waiting(p) == {h \in timers : h.path = p}

ProxyTypeOK ==
    /\ nextFree \in [Directions -> Nat]
    /\ clientKnown \subseteq Flows /\ closed \subseteq Flows
    /\ seen \in [Paths -> 0 .. MaxDatagrams] /\ dropped \in [Paths -> 0 .. MaxDatagrams]
    /\ \A p \in Paths : LossEvery # 0 => dropped[p] = seen[p] \div LossEvery
    /\ \A h \in timers : /\ h.path \in Paths /\ h.n \in 1 .. seen[h.path]
                         /\ h.size \in Sizes /\ h.at \in Nat

\* Neither delay, nor loss, nor the other connection changes the order of a path:
\* what has been sent on is older than what waits, and was sent on in order.
InOrder ==
    \A p \in Paths :
        /\ \A i, j \in DOMAIN arrived[p] : i < j => arrived[p][i] < arrived[p][j]
        /\ \A i \in DOMAIN arrived[p], h \in Waiting(p) : arrived[p][i] < h.n

\* The two connections share one link: in a direction no two datagrams are due
\* closer to each other than the later one takes to pass.
LinkIsShared ==
    \A g, h \in timers :
        g # h /\ g.path[2] = h.path[2] =>
            g.at + h.size <= h.at \/ h.at + g.size <= g.at

\* How long the link needs for some datagrams.
Load(S) == MapThenSumSet(LAMBDA h : h.size, S)

\* The link is busy only with what waits in the same direction: full duplex, and
\* never idle while something waits.
LinkNeverIdles ==
    \A d \in Directions :
        nextFree[d] - now <= Load({h \in timers : h.path[2] = d /\ h.at - Delay > now})

\* While a proxy is open, a datagram it has seen was dropped as one of every
\* LossEvery, waits, or was sent on: once, and no answer is without its client.
Accounted ==
    \A p \in Paths :
        p[1] \notin closed =>
            seen[p] = dropped[p] + Len(arrived[p]) + Cardinality(Waiting(p))

\* The proxies keep the order of each path and account for every datagram, and
\* the link they share is neither used twice at a time nor left idle.
ProxiesForward ==
    ProxyTypeOK /\ InOrder /\ LinkIsShared /\ LinkNeverIdles /\ Accounted
=============================================================================
