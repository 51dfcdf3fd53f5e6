---------------------------- MODULE ObjectCodec ----------------------------
(***************************************************************************)
(* benchmarks/run_external_object_workload_suite.py: a sequence of named   *)
(* objects encoded into records, each a header with the frames of one      *)
(* object, and _decode_object_records on records whose headers and frames  *)
(* need not be handed over as they were made.  All objects share one       *)
(* dictionary, which never evicts, and one replay window.                  *)
(*                                                                         *)
(* In the plain mode nothing is authenticated; a payload is still compared *)
(* with its id, so no frame is altered there.                              *)
(***************************************************************************)
EXTENDS ChunkDictionary, NonceWindow, FiniteSetsExt

CONSTANTS Names,
          ObjectLists, \* the sequences of objects that may be encoded, no two alike in name
          Warms,       \* the sets of chunks warm_root may hold
          ReplayWindowSize  \* capacity of NonceWindow

Objects == [name : Names, data : Seq(Chunks)]

\* What the constants are supposed to be: the files of a directory, with a name
\* each, and a directory's distinct chunks.
ProperObjects ==
    /\ \A os \in ObjectLists :
          /\ os \in Seq(Objects)
          /\ \A i, j \in DOMAIN os : os[i].name = os[j].name => i = j
    /\ \A w \in Warms : w \subseteq Chunks
    /\ ReplayWindowSize \in Nat

VARIABLES
    objects, warm, secureMode,  \* what the run starts with
    phase,       \* "header", "frames", "done", "rejected" by a ValueError
    items,       \* history: the headers and frames handed over, and the ends
    names, known, window, decoded,
    record,      \* the header of the record the loop is at
    expectedOffset, rebuilt  \* of that record

given == <<objects, warm, secureMode>>
objectVars == <<given, phase, items, names, known, window, decoded, record,
                expectedOffset, rebuilt>>

Size(data) == FoldLeft(Advanced, 0, data)

\* The chunks before chunk j of object i, in the order they are encoded.
Before(i, j) ==
    FlattenSeq([k \in 1 .. i - 1 |-> objects[k].data]) \o SubSeq(objects[i].data, 1, j - 1)

Header(i) == [item |-> "header", name |-> objects[i].name,
              length |-> Size(objects[i].data), index |-> i, genuine |-> TRUE]

\* The nonce counts all frames; the stream id is made of the name.
Frame(i, j) ==
    LET c == objects[i].data[j]
    IN  [item |-> "frame", name |-> objects[i].name, chunk |-> c,
         kind |-> IF c \in warm \cup ToSet(Before(i, j)) THEN "REF" ELSE "FULL",
         offset |-> Size(SubSeq(objects[i].data, 1, j - 1)),
         nonce |-> Len(Before(i, j)) + 1, genuine |-> TRUE]

EndOfRecord == [item |-> "end"]

Record(i) ==
    <<Header(i)>> \o [j \in DOMAIN objects[i].data |-> Frame(i, j)] \o <<EndOfRecord>>

\* object_aligned_redulink: the records of all objects, as they are made.
Records == FlattenSeq([i \in DOMAIN objects |-> Record(i)])

\* What the decoder can be handed.
OfferedItems(item) ==
    LET made == {x \in ToSet(Records) : x.item = item}
    IN  IF secureMode THEN {[x EXCEPT !.genuine = g] : x \in made, g \in BOOLEAN}
                      ELSE made

ObjectInit ==
    /\ objects \in ObjectLists /\ warm \in Warms /\ secureMode \in BOOLEAN
    /\ phase = "header" /\ items = <<>>
    /\ names = {} /\ known = warm /\ window = EmptyWindow /\ decoded = <<>>
    /\ record = <<>> /\ expectedOffset = 0 /\ rebuilt = <<>>

AtItsIndex(x) == x.index = Len(decoded) + 1

HeaderAccepted(x) ==
    x.name \notin names /\ (secureMode => x.genuine /\ AtItsIndex(x))

FirstOffset == 0

NamesAfter(x) == names \cup {x.name}

OpenRecord(x) ==
    /\ phase = "header"
    /\ HeaderAccepted(x)
    /\ items' = Append(items, x)
    /\ phase' = "frames" /\ record' = <<x>>
    /\ names' = NamesAfter(x)
    /\ expectedOffset' = FirstOffset /\ rebuilt' = <<>>
    /\ UNCHANGED <<given, known, window, decoded>>

\* verify_frame.
FrameAccepted(x) ==
    secureMode => /\ x.genuine /\ x.name = record[1].name
                  /\ x.offset = expectedOffset
                  /\ ~ Replayed(window, ReplayWindowSize, x.nonce)

TakeFrame(x) ==
    /\ phase = "frames"
    /\ FrameAccepted(x) /\ (x.kind = "REF" => x.chunk \in known)
    /\ items' = Append(items, x)
    /\ window' = IF secureMode THEN Remember(window, ReplayWindowSize, x.nonce) ELSE window
    /\ known' = known \cup {x.chunk}
    /\ rebuilt' = Append(rebuilt, x.chunk)
    /\ expectedOffset' = expectedOffset + LengthOf[x.chunk]
    /\ UNCHANGED <<given, phase, names, decoded, record>>

\* The record's length is the header's.
IsWhole == Size(rebuilt) = record[1].length

CloseRecord ==
    /\ phase = "frames"
    /\ IsWhole
    /\ items' = Append(items, EndOfRecord)
    /\ decoded' = Append(decoded, [name |-> record[1].name, data |-> rebuilt])
    /\ phase' = "header" /\ record' = <<>>
    /\ UNCHANGED <<given, names, known, window, expectedOffset, rebuilt>>

\* Any ValueError.
RefuseItem(x) ==
    /\ \/ phase = "header" /\ x.item = "header" /\ ~ HeaderAccepted(x)
       \/ phase = "frames" /\ x.item = "frame"
             /\ (~ FrameAccepted(x) \/ (x.kind = "REF" /\ x.chunk \notin known))
       \/ phase = "frames" /\ x.item = "end" /\ ~ IsWhole
    /\ items' = Append(items, x)
    /\ phase' = "rejected"
    /\ UNCHANGED <<given, names, known, window, decoded, record, expectedOffset, rebuilt>>

ReturnObjects ==
    /\ phase = "header"
    /\ phase' = "done"
    /\ UNCHANGED <<given, items, names, known, window, decoded, record,
                   expectedOffset, rebuilt>>

Handle ==
    \/ \E x \in OfferedItems("header") : OpenRecord(x) \/ RefuseItem(x)
    \/ \E x \in OfferedItems("frame") : TakeFrame(x) \/ RefuseItem(x)
    \/ CloseRecord \/ RefuseItem(EndOfRecord)

\* Bound: no more is handed over than was made.
ObjectNext == (Len(items) < Len(Records) /\ Handle) \/ ReturnObjects

ObjectSpec == ObjectInit /\ [][ObjectNext]_objectVars

-----------------------------------------------------------------------------
(* Properties.                                                             *)

ObjectTypeOK ==
    /\ phase \in {"header", "frames", "done", "rejected"}
    /\ window \in Windows /\ known \subseteq Chunks
    /\ decoded \in Seq(Objects) /\ rebuilt \in Seq(Chunks) /\ expectedOffset \in Nat
    /\ names = {decoded[i].name : i \in DOMAIN decoded} \cup {x.name : x \in ToSet(record)}

\* In the secure mode frames cannot be moved between objects, nor objects be
\* renamed, swapped or cut short: what is decoded is a beginning of the objects,
\* made of an untouched beginning of the records.
ObjectsFailClosed ==
    secureMode =>
        /\ IsPrefix(decoded, objects)
        /\ phase # "rejected" => IsPrefix(items, Records)

\* In either mode untouched records are decoded, with references across objects
\* and one replay window for all of them.
CleanRecordsAccepted == phase = "rejected" => ~ IsPrefix(items, Records)

\* In either mode a decoded object has the length its header claims, and no name
\* is decoded twice, whatever frames are moved between objects.
BoundariesKept ==
    \A i \in DOMAIN decoded :
        /\ \E h \in OfferedItems("header") :
              h.name = decoded[i].name /\ h.length = Size(decoded[i].data)
        /\ \A j \in DOMAIN decoded : decoded[i].name = decoded[j].name => i = j
=============================================================================
