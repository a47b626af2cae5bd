---- MODULE TpmsAttest ----
(***************************************************************************)
(* The parser of TPMS_ATTEST buffers (formats/tpm/tpms_attest.py), one     *)
(* step per length check: extract_qualifying_data, extract_certify_name    *)
(* and extract_quote_info.  Sizes and counts come out of the buffer, which *)
(* may be cut anywhere and may hold any number in any place.               *)
(*                                                                         *)
(* A buffer has a length, starts with the TPM magic or does not, and its   *)
(* contents are the numbers that unpacking at each offset yields.  Bytes   *)
(* that are returned are named by the slice of the buffer they fill.       *)
(***************************************************************************)
EXTENDS Integers, Sequences

CONSTANTS Buffers,  \* records with a `len` and a `magic`
          Contents  \* buffer -> offset -> number read there

ASSUME BuffersAssumption ==
    /\ Buffers # {}
    /\ \A b \in Buffers :
        /\ b.len \in Nat /\ b.magic \in BOOLEAN
        /\ Contents[b] \in [0 .. b.len -> Nat]

HEADER_LEN == 6
CLOCK_AND_FIRMWARE_LEN == 17 + 8

VARIABLES buffer,      \* the argument of the present or last call
          extractor,   \* the function called
          at,          \* the check it is at
          offset,
          size,        \* the size just read
          left,        \* selections still to be read
          selections,  \* slices of the pcrSelect masks so far
          result,      \* how the last call ended, and the slice it returned
          read         \* history only: slice of the last unpack

parserVars == <<buffer, extractor, at, offset, size, left, selections, result, read>>

Extractors == {"extract_qualifying_data", "extract_certify_name", "extract_quote_info"}
Slice(from, n) == [from |-> from, size |-> n]
Slices == [from : Nat, size : Nat]

\* The number at an offset.  Only evaluated behind the length checks.
Word(i) == Contents[buffer][i]

\* Mutant: the last byte of a field may be missing.
FitsButOne(n) == offset + n <= buffer.len + 1

\* offset + n > len(data) is what every length check asks.
Fits(n) == offset + n <= buffer.len

ParserTypeOK ==
    /\ buffer \in Buffers
    /\ extractor \in Extractors
    /\ at \in {"idle", "header", "signer", "extra", "attested", "name", "count",
               "selection", "mask", "digest", "body"}
    /\ offset \in Nat /\ size \in Nat /\ left \in Nat
    /\ selections \in Seq(Slices)
    /\ result \in [outcome : {"none", "returned", "ValueError"}, slice : Slices]
    /\ read \in Slices

NoResult == [outcome |-> "none", slice |-> Slice(0, 0)]

ParserInit ==
    /\ buffer = CHOOSE b \in Buffers : TRUE
    /\ extractor = "extract_quote_info"
    /\ at = "idle" /\ offset = 0 /\ size = 0 /\ left = 0
    /\ selections = <<>> /\ result = NoResult /\ read = Slice(0, 0)

Extract(f, b) ==
    /\ at = "idle"
    /\ buffer' = b /\ extractor' = f
    /\ at' = "header" /\ offset' = 0 /\ size' = 0 /\ left' = 0
    /\ selections' = <<>> /\ result' = NoResult /\ read' = Slice(0, 0)

Raise ==
    /\ at' = "idle"
    /\ result' = [outcome |-> "ValueError", slice |-> Slice(0, 0)]
    /\ UNCHANGED <<buffer, extractor, offset, size, left, selections, read>>

Header ==
    /\ at = "header"
    /\ IF buffer.len < HEADER_LEN \/ ~buffer.magic THEN Raise
       ELSE /\ offset' = HEADER_LEN /\ at' = "signer"
            /\ UNCHANGED <<buffer, extractor, size, left, selections, result, read>>

\* A size is read at the offset, which is moved past it and, at once, past the field.
Skip(extra, next) ==
    /\ offset' = offset + 2 + Word(offset) + extra
    /\ at' = next
    /\ read' = Slice(offset, 2)
    /\ UNCHANGED <<buffer, extractor, size, left, selections, result>>

\* A size is read; the field is returned if all of it is there.
Field ==
    /\ size' = Word(offset)
    /\ offset' = offset + 2
    /\ at' = "body"
    /\ read' = Slice(offset, 2)
    /\ UNCHANGED <<buffer, extractor, left, selections, result>>

QualifiedSigner ==
    /\ at = "signer"
    /\ IF Fits(2) THEN Skip(0, "extra") ELSE Raise

\* Mutant: the clock and the firmware version are not skipped.
NothingAfterExtraData == Skip(0, "attested")

AfterExtraData == Skip(CLOCK_AND_FIRMWARE_LEN, "attested")

ExtraData ==
    /\ at = "extra"
    /\ IF ~Fits(2) THEN Raise
       ELSE IF extractor = "extract_qualifying_data" THEN Field
       ELSE AfterExtraData

\* The end of _attested_start_offset.  The type of the structure is never looked at.
Attested ==
    /\ at = "attested"
    /\ IF offset > buffer.len THEN Raise
       ELSE /\ at' = IF extractor = "extract_certify_name" THEN "name" ELSE "count"
            /\ UNCHANGED <<buffer, extractor, offset, size, left, selections, result, read>>

CertifyName ==
    /\ at = "name"
    /\ IF Fits(2) THEN Field ELSE Raise

Count ==
    /\ at = "count"
    /\ IF ~Fits(4) THEN Raise
       ELSE /\ left' = Word(offset)
            /\ offset' = offset + 4
            /\ at' = "selection"
            /\ read' = Slice(offset, 4)
            /\ UNCHANGED <<buffer, extractor, size, selections, result>>

\* Mutant: one round too many.
MoreOrNone == left >= 0

\* for _ in range(count)
MoreSelections == left > 0

Selection ==
    /\ at = "selection" /\ MoreSelections
    /\ IF ~Fits(3) THEN Raise
       ELSE /\ size' = Word(offset + 2)
            /\ offset' = offset + 3
            /\ at' = "mask"
            /\ read' = Slice(offset, 3)
            /\ UNCHANGED <<buffer, extractor, left, selections, result>>

Mask ==
    /\ at = "mask"
    /\ IF ~Fits(size) THEN Raise
       ELSE /\ selections' = Append(selections, Slice(offset, size))
            /\ offset' = offset + size
            /\ left' = left - 1
            /\ at' = "selection"
            /\ UNCHANGED <<buffer, extractor, size, result, read>>

SelectionsDone ==
    /\ at = "selection" /\ left = 0
    /\ at' = "digest"
    /\ UNCHANGED <<buffer, extractor, offset, size, left, selections, result, read>>

PcrDigest ==
    /\ at = "digest"
    /\ IF Fits(2) THEN Field ELSE Raise

Return ==
    /\ at = "body"
    /\ IF ~Fits(size) THEN Raise
       ELSE /\ result' = [outcome |-> "returned", slice |-> Slice(offset, size)]
            /\ at' = "idle"
            /\ UNCHANGED <<buffer, extractor, offset, size, left, selections, read>>

ParserStep ==
    \/ Header \/ QualifiedSigner \/ ExtraData \/ Attested \/ CertifyName \/ Count
    \/ Selection \/ Mask \/ SelectionsDone \/ PcrDigest \/ Return

ParserNext == ParserStep \/ \E f \in Extractors, b \in Buffers : Extract(f, b)

ParserSpec == ParserInit /\ [][ParserNext]_parserVars

----
(* What makes the parser correct *)

Inside(s) == s.from + s.size <= buffer.len

\* Whatever the buffer holds, no read and no returned slice reaches past its end, and a
\* count larger than the buffer can hold ends the loop early instead of being believed.
ReadsInBounds ==
    /\ Inside(read)
    /\ Inside(result.slice)
    /\ \A i \in 1 .. Len(selections) : Inside(selections[i])
    /\ 3 * Len(selections) <= buffer.len
====
