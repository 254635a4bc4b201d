---------------------------- MODULE SnapshotFile ----------------------------
(***************************************************************************)
(* A snapshot as bytes (the runtime's serialization.rs and                 *)
(* serialization/limited.rs): a header with version, codec, capabilities,  *)
(* length and checksum, and a payload decoded under a budget of steps and  *)
(* a bound on nesting. A file may be cut, changed in one place, written by *)
(* another version, or written with a payload of its own; what is written  *)
(* has to be readable, what is changed has to be noticed, and reading has  *)
(* to stop at its limits with the limit as its answer.                     *)
(*                                                                         *)
(* A payload is the preorder of a tree, each item with its depth; the size *)
(* of a file counts items. The checksum is taken to be injective.          *)
(***************************************************************************)
EXTENDS SequencesExt, FiniteSetsExt, Naturals

CONSTANTS
    Payloads,   \* the payloads of the engines saved here
    Forged,     \* the payloads of the files written elsewhere
    MaxBytes,   \* MAX_SNAPSHOT_BYTES, in items
    MaxSteps,   \* limited::MAX_STEPS
    MaxDepth    \* limited::MAX_DEPTH

ASSUME FileBoundsAssumption == {MaxBytes, MaxSteps, MaxDepth} \subseteq Nat

VARIABLES
    source,   \* history: <<>> or the saved engine's payload and codec
    file,     \* the file: <<>> or the bytes
    intact,   \* history: the file is what serialize returned
    reader,   \* the decoding under way
    answer    \* what the last call returned

fileVars == <<source, file, intact, reader, answer>>

HeaderLen == 1
Version == 13
Formats == {"json", "cbor"}
Limits == {"bytes", "steps", "depth", "collection"}

-----------------------------------------------------------------------------
(* Items: scalars, lists with the length they claim, enum variants,        *)
(* addresses of host objects, and floats that are not finite, which JSON   *)
(* writes as null.                                                         *)

Kids(p, i) ==
    {j \in (i + 1)..Len(p) : p[j].depth = p[i].depth + 1
                             /\ \A k \in (i + 1)..j : p[k].depth > p[i].depth}

Honest(p) == \A i \in DOMAIN p : p[i].kind = "list" => p[i].claim = Cardinality(Kids(p, i))

(* validate_serializable: an address of a host object, in a global, a fact,*)
(* a definition or a default, at any depth.                                *)
ContainsExternal(p) == \E i \in DOMAIN p : p[i].kind = "external"

(* encode: the writer is bounded, and JSON has no word for NaN.            *)
Encode(p, format) ==
    [i \in DOMAIN p |->
        IF format = "json" /\ p[i].kind = "nonfinite" THEN [p[i] EXCEPT !.kind = "null"] ELSE p[i]]
    \o <<>>

-----------------------------------------------------------------------------
(* limited.rs.                                                             *)

FileBudget == [left |-> MaxSteps, failure |-> "none"]

(* The first limit that is reached is the one that is reported.            *)
Fail(b, kind) == [b EXCEPT !.failure = IF @ = "none" THEN kind ELSE @]

CheckDepth(b, depth) == IF depth > MaxDepth THEN Fail(b, "depth") ELSE b

Enter(b, depth) ==
    LET c == CheckDepth(b, depth)
    IN  IF c.failure # "none" THEN c
        ELSE IF b.left = 0 THEN Fail(b, "steps")
        ELSE [b EXCEPT !.left = @ - 1]

(* A claimed length beyond what the budget can still pay for.              *)
CheckHint(b, claim) == IF claim > b.left THEN Fail(b, "collection") ELSE b

(* Decoder, LimitVisitor and Access: every value is charged and every      *)
(* descent is one deeper; the fields of a variant only have their depth    *)
(* checked.                                                                *)
Charge(b, item) ==
    LET c == Enter(b, item.depth)
    IN  IF c.failure # "none" THEN c
        ELSE IF item.kind = "list" THEN CheckHint(c, item.claim)
        ELSE IF item.kind = "variant" THEN CheckDepth(c, item.depth + 1)
        ELSE c

-----------------------------------------------------------------------------
(* The envelope.                                                           *)

Sum(version, format, caps, length, payload) ==
    [version |-> version, format |-> format, caps |-> caps, length |-> length,
     payload |-> payload]

Bytes(version, format, caps, length, payload) ==
    [magic |-> TRUE, cut |-> FALSE, version |-> version, format |-> format, caps |-> caps,
     length |-> length, sum |-> Sum(version, format, caps, length, payload),
     payload |-> payload]

Envelope(payload, format) == Bytes(Version, format, 0, Len(payload), payload)

Size(d) == IF d.cut THEN 0 ELSE HeaderLen + Len(d.payload)

(* open_envelope, in the order of its checks.                              *)
OpenEnvelope(d, format) ==
    CASE Size(d) > MaxBytes -> "bytes"
      [] ~d.magic -> "legacy"
      [] d.cut -> "decode"
      [] d.version # Version -> "version"
      [] d.format # format -> "format"
      [] d.caps # 0 -> "capabilities"
      [] d.length # Len(d.payload) -> "decode"
      [] d.sum # Sum(d.version, d.format, d.caps, d.length, d.payload) -> "checksum"
      [] OTHER -> "open"

(* deserialize_from_file reads one byte more than the limit, no more.      *)
ReadFile(d) ==
    IF Size(d) <= MaxBytes + 1 THEN d
    ELSE [d EXCEPT !.payload = SubSeq(@, 1, MaxBytes + 1 - HeaderLen)]

-----------------------------------------------------------------------------
(* Decoding is a walk over the payload; it serves a reader and, before     *)
(* anything is written, the writer.                                        *)

FileIdle == [for |-> "nobody", pos |-> 0, budget |-> FileBudget, payload |-> <<>>, format |-> "cbor",
         broken |-> FALSE]

Decode(for, payload, format) ==
    reader' = [FileIdle EXCEPT !.for = for, !.payload = payload, !.format = format]

(* A payload is one value; what follows it is not decoded.                 *)
ValueEnd(p) == CHOOSE i \in 0..Len(p) : /\ \A j \in 2..i : p[j].depth > 0
                                        /\ i = Len(p) \/ (i > 0 /\ p[i + 1].depth = 0)

Finished ==
    reader.budget.failure # "none" \/ reader.broken \/ reader.pos = ValueEnd(reader.payload)

(* A value that is not what the type asks for ends the decoding.           *)
DecodeItem ==
    /\ reader.for # "nobody" /\ ~Finished
    /\ LET item == reader.payload[reader.pos + 1]
           b == Charge(reader.budget, item)
       IN  reader' = [reader EXCEPT !.pos = @ + 1, !.budget = b,
                                    !.broken = b.failure = "none" /\ item.kind = "null"]
    /\ UNCHANGED <<source, file, intact, answer>>

(* A recorded limit survives the error the codec makes of it.              *)
FileOutcome(r) ==
    IF r.budget.failure # "none" THEN r.budget.failure
    ELSE IF r.broken \/ r.pos < Len(r.payload) THEN "decode" ELSE "ok"

-----------------------------------------------------------------------------
(* Engine::serialize and Engine::deserialize.                              *)

Serialize(p, format) ==
    /\ reader.for = "nobody" /\ source = <<>> /\ file = <<>>
    /\ source' = <<[payload |-> p, format |-> format]>>
    /\ IF ContainsExternal(p) THEN answer' = "external" /\ UNCHANGED reader
       ELSE IF Len(p) > MaxBytes - HeaderLen
       THEN answer' = "bytes" /\ UNCHANGED reader
       ELSE Decode("writer", Encode(p, format), format) /\ UNCHANGED answer
    /\ UNCHANGED <<file, intact>>

ReadBack(r) == FileOutcome(r) = "ok"

(* What this build could not read back is not returned.                    *)
FinishSerialize ==
    /\ reader.for = "writer" /\ Finished
    /\ IF ReadBack(reader)
       THEN /\ file' = <<Envelope(reader.payload, reader.format)>> /\ intact' = TRUE
            /\ answer' = "written"
       ELSE /\ answer' = IF FileOutcome(reader) \in Limits THEN FileOutcome(reader) ELSE "encode"
            /\ UNCHANGED <<file, intact>>
    /\ reader' = FileIdle
    /\ UNCHANGED source

Deserialize(format) ==
    /\ reader.for = "nobody" /\ file # <<>>
    /\ LET d == ReadFile(file[1])
           opened == OpenEnvelope(d, format)
       IN  IF opened = "open" THEN Decode("reader", d.payload, format) /\ answer' = "reading"
           ELSE answer' = opened /\ UNCHANGED reader
    /\ UNCHANGED <<source, file, intact>>

FinishDeserialize ==
    /\ reader.for = "reader" /\ Finished
    /\ answer' = IF FileOutcome(reader) = "ok" THEN "restored" ELSE FileOutcome(reader)
    /\ reader' = FileIdle
    /\ UNCHANGED <<source, file, intact>>

-----------------------------------------------------------------------------
(* What may become of a file, and files from elsewhere.                    *)

Changed(d) ==
    {[d EXCEPT !.magic = FALSE], [d EXCEPT !.cut = TRUE], [d EXCEPT !.version = Version - 1],
     [d EXCEPT !.caps = 1], [d EXCEPT !.length = @ + 1],
     [d EXCEPT !.payload = <<>>], [d EXCEPT !.payload = @ \o @],
     [d EXCEPT !.sum.payload = <<>>]}
    \cup {[d EXCEPT !.format = f] : f \in Formats}

Alter ==
    /\ reader.for = "nobody" /\ file # <<>> /\ intact
    /\ \E d \in Changed(file[1]) \ {file[1]} : file' = <<d>>
    /\ intact' = FALSE
    /\ UNCHANGED <<source, reader, answer>>

Forge(p, format) ==
    /\ reader.for = "nobody" /\ file = <<>> /\ source = <<>>
    /\ file' = <<Envelope(p, format)>> /\ intact' = FALSE
    /\ UNCHANGED <<source, reader, answer>>

FileInit ==
    source = <<>> /\ file = <<>> /\ intact = FALSE /\ reader = FileIdle /\ answer = "none"

FileNext ==
    \/ \E p \in Payloads, f \in Formats : Serialize(p, f)
    \/ \E p \in Forged, f \in Formats : Forge(p, f)
    \/ \E f \in Formats : Deserialize(f)
    \/ DecodeItem \/ FinishSerialize \/ FinishDeserialize
    \/ Alter

FileSpec == FileInit /\ [][FileNext]_fileVars

-----------------------------------------------------------------------------
(* Properties.                                                             *)

\* A file serialize returned is restored by the codec that wrote it, as long
\* as nobody touches it: the limits of writing are those of reading.
WrittenReadable ==
    (intact /\ reader.for = "reader" /\ Finished) => FileOutcome(reader) = "ok"

\* A change of any part of a written file, header or payload, is noticed
\* before anything of it is decoded (open_envelope).
ChangeNoticed ==
    (source # <<>> /\ file # <<>> /\ ~intact) =>
        \A f \in Formats : f = source[1].format => OpenEnvelope(file[1], f) # "open"

\* No snapshot holds a number other than the engine's: what JSON cannot write
\* is not written at all.
NumbersKept ==
    intact => (file[1].payload = source[1].payload)

\* An address of a host object, which means nothing in another process, is in
\* no snapshot, however deep it is nested (validate_serializable).
HostObjectsStay ==
    intact => \A i \in DOMAIN file[1].payload : file[1].payload[i].kind # "external"

\* An engine within the limits can be saved: a list is refused for its length
\* only if its payload has more values than the budget has steps.
HonestPays ==
    (reader.for # "nobody" /\ reader.budget.failure = "collection" /\ Honest(reader.payload))
        => Len(reader.payload) > MaxSteps

\* Decoding visits no more values than it has steps, whatever a file claims.
WorkBounded ==
    reader.pos <= MaxSteps + 1
        /\ (reader.pos > MaxSteps => reader.budget.failure # "none" \/ reader.broken)

\* What was stopped by a limit is answered with a limit, by the writer and by
\* the reader, and not with an error of the codec.
LimitsNamed ==
    (reader.for # "nobody" /\ reader'.for = "nobody" /\ reader.budget.failure # "none")
       => answer' \in Limits

=============================================================================
