------------------------------ MODULE Codecs ------------------------------
(***************************************************************************)
(* The codecs, one in each behaviour: redulink_model's, redulink_secure's, *)
(* the semantic repair built on the former, and the records of objects     *)
(* built on either.                                                        *)
(*                                                                         *)
(* The variables of PlainCodec are its own, and its properties are checked *)
(* as it states them; while another codec runs it rests, with an empty     *)
(* input.  The other three share a second set of variables.  They are      *)
(* instances of the modules with their theorems.                           *)
(***************************************************************************)
EXTENDS PlainCodec, NonceWindow

CONSTANTS WindowSize, Names, ObjectLists, Warms  \* of SecureCodec and ObjectCodec

VARIABLES
    codec,  \* "plain", "secure", "repair", "objects"
    taken, at, has, out,              \* input, pc, dictionary, output
    encoderWarm, decoderWarm, made,   \* of SecureCodec
    warm, thinned, toProcess, history, sender, receiver, misses,  \* of SemanticRepair
    secureMode, names, decoded, record,   \* of ObjectCodec
    handed, window, expected          \* of both that check frames

\* The codec of authenticated frames, and the object decoder in its place.
S == INSTANCE SecureProofs WITH
        input <- taken, pc <- at, dictionary <- has, output <- out,
        senderWarm <- encoderWarm, receiverWarm <- decoderWarm,
        seenNonces <- window,
        objects <- taken, phase <- at, items <- handed, known <- has,
        expectedOffset <- expected, rebuilt <- out, ReplayWindowSize <- WindowSize
R == INSTANCE SemanticRepairProofs WITH
        input <- taken, pc <- at, output <- out,
        frames <- toProcess, encoders <- history

ASSUME CodecsAssumption == WindowSize \in Nat /\ S!ProperObjects

-----------------------------------------------------------------------------
(* The variables a codec does not have, as they are while another runs.    *)

PlainRests ==
    /\ CodecInit
    /\ input = <<>> /\ senderWarm = <<>> /\ receiverWarm = <<>>
OthersRest == taken = <<>> /\ at = "done" /\ out = <<>>
NoDictionary == has = {}
NoEncoder == encoderWarm = <<>> /\ decoderWarm = <<>> /\ made = <<>>
NoWarm == warm = <<>>
NoRepair ==
    /\ thinned = <<>> /\ toProcess = <<>> /\ history = <<>>
    /\ sender = <<>> /\ receiver = <<>> /\ misses = 0
NoObjects == secureMode = FALSE /\ names = {} /\ decoded = <<>> /\ record = <<>>
NoWindow == handed = <<>> /\ window = EmptyWindow /\ expected = 0

theirs == <<taken, at, out>>
encoder == <<encoderWarm, decoderWarm, made>>
repair == <<thinned, toProcess, history, sender, receiver, misses>>
object == <<secureMode, names, decoded, record>>
checks == <<handed, window, expected>>
codecsVars ==
    <<codec, codecVars, theirs, has, encoder, warm, repair, object, checks>>

CodecsInit ==
    \/ /\ codec = "plain" /\ CodecInit
       /\ OthersRest /\ NoDictionary /\ NoEncoder /\ NoWarm
       /\ NoRepair /\ NoObjects /\ NoWindow
    \/ /\ PlainRests
       /\ \/ /\ codec = "secure" /\ S!SecureInit
             /\ NoWarm /\ NoRepair /\ NoObjects
          \/ /\ codec = "repair" /\ R!RepairInit
             /\ NoDictionary /\ NoEncoder /\ NoObjects /\ NoWindow
          \/ /\ codec = "objects" /\ S!ObjectInit
             /\ NoEncoder /\ NoRepair

CodecsNext ==
    /\ UNCHANGED codec
    /\ \/ /\ codec = "plain" /\ CodecNext
          /\ UNCHANGED <<theirs, has, encoder, warm, repair, object, checks>>
       \/ /\ codec = "secure" /\ S!SecureNext
          /\ UNCHANGED <<codecVars, warm, repair, object>>
       \/ /\ codec = "repair" /\ R!RepairNext
          /\ UNCHANGED <<codecVars, has, encoder, object, checks>>
       \/ /\ codec = "objects" /\ S!ObjectNext
          /\ UNCHANGED <<codecVars, encoder, repair>>

CodecsSpec == CodecsInit /\ [][CodecsNext]_codecsVars

-----------------------------------------------------------------------------
(* Properties, besides those of PlainCodec.                                *)

\* What is decoded is exactly what was made: nothing that was left out,
\* repeated, moved or altered, neither a frame of a list nor a frame or a header
\* of an object; and everything that was not touched, although the replay window
\* forgets and the dictionary evicts, in step with the encoder's.
DecodesWhatWasMade ==
    /\ codec = "secure" =>
          /\ S!SecureTypeOK
          /\ S!FailsClosed /\ S!CleanListAccepted /\ S!DictionariesAgree
    /\ codec = "objects" =>
          /\ S!ObjectTypeOK
          /\ S!ObjectsFailClosed /\ S!CleanRecordsAccepted /\ S!BoundariesKept

\* A sender that touches its FULL frames and nothing else stays in step with its
\* encoder, which ran to its end before, and so can repair whatever any receiver
\* misses, at capacity too, and once while nothing need be evicted.
MissesRepaired ==
    codec = "repair" =>
        /\ R!RepairTypeOK
        /\ R!SenderFollowsEncoder /\ R!EveryMissRepaired /\ R!MissedOnce
        /\ IsPrefix(out, taken) /\ (at = "done" => out = taken)
=============================================================================
