----------------------------- MODULE MCLayers -----------------------------
(***************************************************************************)
(* What lies below the codecs and the transfers, one in each behaviour:    *)
(* the replay window, the chunkers, the key schedule, the wire format, as  *)
(* a stream of messages and as bodies well formed or not, and the datagram *)
(* proxies with the link they share.                                       *)
(***************************************************************************)
EXTENDS NonceFilter, Chunker, KeySchedule, WireStream, LossyProxy, TLC

CONSTANTS f1, f2,    \* two connections
          MaxNonce,  \* bound on the nonces a frame carries
          MaxBytes   \* bound on the bytes of a binary context

VARIABLE layer  \* "nonces", "chunks", "keys", "stream", "bodies", "proxy"

MCNonces == 0 .. MaxNonce

MCCharacters == {"a", "-", "0", "1", "|", "epoch=", "scope="}
MCMasters == {"empty", "m", "n"}

\* What hex makes of the bytes 0x01 and 0x11.
MCHex == {FlattenSeq(s) : s \in BoundedSeq({<<"0", "1">>, <<"1", "1">>}, MaxBytes)}

\* Fields that are empty, equal, or each other's beginnings.
MCPlainContexts ==
    [alpn : {<<"a">>, <<"a", "1">>}, epoch : {<<"-", "1">>, <<"1">>, <<"1", "1">>},
     scope : {<<>>, <<"1">>}, connection : MCHex, stream : MCHex]

\* Two contexts of different epochs, printed a|epoch=1|scope=a|epoch=11|scope=a:
\* the text of the middle may belong to the scope or to the ALPN.
MCBarredContexts ==
    {[alpn |-> <<"a">>, epoch |-> <<"1">>,
      scope |-> <<"a", "|", "epoch=", "1", "1", "|", "scope=", "a">>,
      connection |-> <<>>, stream |-> <<>>],
     [alpn |-> <<"a", "|", "epoch=", "1", "|", "scope=", "a">>,
      epoch |-> <<"1", "1">>, scope |-> <<"a">>,
      connection |-> <<>>, stream |-> <<>>]}

MCContexts == MCPlainContexts \cup MCBarredContexts

MCLengths == -1 .. HashLen * (MaxCounter + 1)

MCFrame(scope, payload) ==
    [t |-> FRAME, seq |-> 0, repair |-> FALSE,
     kind |-> IF payload = <<>> THEN "REF" ELSE "FULL", bound |-> 1,
     scope |-> scope, payload |-> payload]

\* Messages of every type but the repeating ones, and a list that does not fit.
MCSendable ==
    {[t |-> FINISH], [t |-> HELLO, version |-> 1, chunkSize |-> 2, frameCount |-> 0],
     MCFrame(<<1>>, <<>>), MCFrame(<<>>, <<2, 0>>),
     [t |-> MISSING, items |-> <<<<0, 1>>>>],
     [t |-> MISSING, items |-> <<<<0, 1>>, <<1, 1>>>>],
     [t |-> MISSING, items |-> [i \in 1 .. 4 |-> <<i, 1>>]]}

\* One unit more than a reader takes.
MCTooLong == [i \in 1 .. MaxMessage + 1 |-> FINISH]

\* Nothing, a FINISH with something after it, a FRAME cut short, and that.
MCOddBodies == {<<>>, <<FINISH, 0>>, <<FRAME, 0, 0>>, MCTooLong}

MCTypes == {HELLO, END_ROUND, MISSING, FINISH, FRAME, 0}
MCUnits == 0 .. 2

MCFlows == {f1, f2}
MCSymmetry == Permutations(MCFlows)

-----------------------------------------------------------------------------

\* The arguments of the key schedule where it is not run.
NoKeys ==
    /\ master = "empty" /\ ctx = <<>> /\ wanted = 0
    /\ pc = "rejected" /\ blocks = <<>> /\ secret = <<>>

\* Where no nonce arrives, the answer before the first is of no account.
NoNonces == Init /\ answer.nonce = 0

\* Only the proxies may be shaped or not.
NoProxy == ProxyInit /\ shaped = FALSE

LayersInit ==
    /\ layer \in {"nonces", "chunks", "keys", "stream", "bodies", "proxy"}
    /\ ChunkerInit /\ StreamInit
    /\ IF layer = "nonces" THEN Init ELSE NoNonces
    /\ IF layer = "keys" THEN KeyInit ELSE NoKeys
    /\ IF layer = "proxy" THEN ProxyInit ELSE NoProxy

layersVars == <<layer, vars, chunkerVars, keyVars, wireVars, proxyVars>>

LayersNext ==
    /\ UNCHANGED layer
    /\ \/ /\ layer = "nonces" /\ Next
          /\ UNCHANGED <<chunkerVars, keyVars, wireVars, proxyVars>>
       \/ /\ layer = "chunks" /\ ChunkerNext
          /\ UNCHANGED <<vars, keyVars, wireVars, proxyVars>>
       \/ /\ layer = "keys" /\ KeyNext
          /\ UNCHANGED <<vars, chunkerVars, wireVars, proxyVars>>
       \/ /\ layer = "stream" /\ StreamNext
          /\ UNCHANGED <<vars, chunkerVars, keyVars, body, proxyVars>>
       \/ /\ layer = "bodies" /\ Grow
          /\ UNCHANGED <<vars, chunkerVars, keyVars, streamVars, proxyVars>>
       \/ /\ layer = "proxy" /\ ProxyNext
          /\ UNCHANGED <<vars, chunkerVars, keyVars, wireVars>>

LayersSpec == LayersInit /\ [][LayersNext]_layersVars
=============================================================================
