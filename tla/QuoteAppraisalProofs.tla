---- MODULE QuoteAppraisalProofs ----
(***************************************************************************)
(* Quotes, from the PCRs of a TPM to the verdict on them, for any buffers, *)
(* PCRs, clients and offers.                                               *)
(***************************************************************************)
EXTENDS QuoteAppraisal, FiniteSetTheorems, WellFoundedInduction, TLAPS

----
(* The parser stays inside the buffer *)

\* Where the parser stands relative to the end of the buffer and to what it has collected.
\* Its offset must be inside at every check that moves it only by what has been checked,
\* and what the selections so far have taken up must lie before it.
Position ==
    /\ at \in {"name", "count", "selection", "mask", "digest", "body"} => offset <= buffer.len
    /\ at \in {"header", "signer", "extra", "attested", "name", "count"} => selections = <<>>
    /\ at = "selection" => 3 * Len(selections) <= offset
    /\ at = "mask" => left > 0 /\ 3 * Len(selections) + 3 <= offset

ParserInv == ParserTypeOK /\ ReadsInBounds /\ Position

\* A number behind a length check is a natural number.
LEMMA WordType ==
    ASSUME ParserTypeOK, NEW i \in Nat, i <= buffer.len
    PROVE  Word(i) \in Nat
  <1>1. /\ buffer.len \in Nat
        /\ Contents[buffer] \in [0 .. buffer.len -> Nat]
    BY BuffersAssumption DEF ParserTypeOK
  <1> QED
    BY <1>1 DEF Word

\* A failed length check leaves everything but `at` and the result as it was.
LEMMA RaiseInv ==
    ASSUME ParserInv, Raise
    PROVE  ParserInv'
  <1>1. /\ at' = "idle" /\ result' = [outcome |-> "ValueError", slice |-> Slice(0, 0)]
        /\ UNCHANGED <<buffer, extractor, offset, size, left, selections, read>>
    BY DEF Raise
  <1>2. buffer.len \in Nat
    BY BuffersAssumption DEF ParserInv, ParserTypeOK
  <1>3. ParserTypeOK'
    BY <1>1 DEF ParserInv, ParserTypeOK, Slice, Slices
  <1>4. ReadsInBounds'
    BY <1>1, <1>2 DEF ParserInv, ReadsInBounds, Inside, Slice
  <1>5. Position'
    BY <1>1 DEF Position
  <1> QED
    BY <1>3, <1>4, <1>5 DEF ParserInv

\* Mask appends one slice of `size` bytes that lie inside the buffer.
LEMMA MaskStep ==
    ASSUME ParserInv, Mask
    PROVE  ParserInv'
  <1> USE DEF ParserInv
  <1>1. CASE ~Fits(size)
    BY <1>1, RaiseInv DEF Mask
  <1>2. CASE Fits(size)
    <2>1. /\ selections' = Append(selections, Slice(offset, size))
          /\ offset' = offset + size /\ left' = left - 1 /\ at' = "selection" /\ at = "mask"
          /\ UNCHANGED <<buffer, extractor, size, result, read>>
      BY <1>2 DEF Mask
    <2>2. /\ buffer.len \in Nat /\ offset \in Nat /\ size \in Nat /\ left \in Nat
          /\ selections \in Seq(Slices) /\ Slice(offset, size) \in Slices
      BY BuffersAssumption DEF ParserTypeOK, Slice, Slices
    <2>3. /\ selections' \in Seq(Slices)
          /\ Len(selections') = Len(selections) + 1
          /\ \A i \in 1 .. Len(selections) : selections'[i] = selections[i]
          /\ selections'[Len(selections) + 1] = Slice(offset, size)
      BY <2>1, <2>2
    <2>4. left > 0 /\ 3 * Len(selections) + 3 <= offset /\ offset + size <= buffer.len
      BY <2>1, <1>2 DEF Position, Fits
    <2>5. ParserTypeOK'
      BY <2>1, <2>2, <2>3, <2>4 DEF ParserTypeOK
    <2>6. Len(selections) \in Nat
      BY <2>2
    <2>7. Position'
      BY <2>1, <2>2, <2>3, <2>4, <2>6 DEF Position
    <2>8. (\A i \in 1 .. Len(selections) : Inside(selections[i]))'
      <3> SUFFICES ASSUME NEW i \in 1 .. Len(selections')
                   PROVE  selections'[i].from + selections'[i].size <= buffer.len
        BY <2>1 DEF Inside
      <3>1. CASE i = Len(selections) + 1
        BY <3>1, <2>3, <2>4 DEF Slice
      <3>2. CASE i \in 1 .. Len(selections)
        BY <3>2, <2>3 DEF ReadsInBounds, Inside
      <3> QED
        BY <3>1, <3>2, <2>3, <2>6
    <2>9. ReadsInBounds'
      BY <2>1, <2>2, <2>3, <2>4, <2>6, <2>8 DEF ReadsInBounds, Inside
    <2> QED
      BY <2>5, <2>7, <2>9
  <1> QED
    BY <1>1, <1>2

\* The other steps move the offset by what they have checked, or past what they will.
LEMMA StepInv ==
    ASSUME ParserInv, ParserStep
    PROVE  ParserInv'
  <1> USE DEF ParserInv
  <1>0. /\ buffer.len \in Nat /\ offset \in Nat /\ size \in Nat /\ left \in Nat
        /\ selections \in Seq(Slices) /\ Len(selections) \in Nat
    BY BuffersAssumption DEF ParserTypeOK
  <1>r. ASSUME Raise PROVE ParserInv'
    BY <1>r, RaiseInv
  <1>f. ASSUME Field, Fits(2), at \in {"extra", "name", "digest"} PROVE ParserInv'
    <2>1. Word(offset) \in Nat
      BY <1>0, <1>f, WordType DEF Fits
    <2> QED
      BY <1>0, <1>f, <2>1
      DEF Field, Fits, ParserTypeOK, ReadsInBounds, Position, Inside, Slice, Slices
  <1>s. ASSUME NEW extra \in Nat, NEW next \in {"extra", "attested"},
               Skip(extra, next), Fits(2), at \in {"signer", "extra"}
        PROVE  ParserInv'
    <2>1. Word(offset) \in Nat
      BY <1>0, <1>s, WordType DEF Fits
    <2> QED
      BY <1>0, <1>s, <2>1
      DEF Skip, Fits, ParserTypeOK, ReadsInBounds, Position, Inside, Slice, Slices
  <1>1. CASE Header
    <2>1. CASE buffer.len < HEADER_LEN \/ ~buffer.magic
      BY <1>1, <2>1, <1>r DEF Header
    <2>2. CASE ~(buffer.len < HEADER_LEN \/ ~buffer.magic)
      BY <1>1, <1>0, <2>2
      DEF Header, HEADER_LEN, ParserTypeOK, ReadsInBounds, Position, Inside
    <2> QED
      BY <2>1, <2>2
  <1>2. CASE QualifiedSigner
    BY <1>2, <1>r, <1>s DEF QualifiedSigner
  <1>3. CASE ExtraData
    BY <1>3, <1>r, <1>f, <1>s DEF ExtraData, AfterExtraData, CLOCK_AND_FIRMWARE_LEN
  <1>4. CASE Attested
    <2>1. CASE offset > buffer.len
      BY <1>4, <2>1, <1>r DEF Attested
    <2>2. CASE ~(offset > buffer.len)
      <3>1. /\ at = "attested" /\ at' \in {"name", "count"} /\ offset <= buffer.len
            /\ UNCHANGED <<buffer, extractor, offset, size, left, selections, result, read>>
        BY <1>4, <2>2, <1>0 DEF Attested
      <3> QED
        BY <3>1, <1>0 DEF ParserTypeOK, ReadsInBounds, Position, Inside
    <2> QED
      BY <2>1, <2>2
  <1>5. CASE CertifyName
    BY <1>5, <1>r, <1>f DEF CertifyName
  <1>6. CASE Count
    <2>1. CASE ~Fits(4)
      BY <1>6, <2>1, <1>r DEF Count
    <2>2. CASE Fits(4)
      <3>1. Word(offset) \in Nat
        BY <1>0, <2>2, WordType DEF Fits
      <3> QED
        BY <1>0, <1>6, <2>2, <3>1
        DEF Count, Fits, ParserTypeOK, ReadsInBounds, Position, Inside, Slice, Slices
    <2> QED
      BY <2>1, <2>2
  <1>7. CASE Selection
    <2>1. CASE ~Fits(3)
      BY <1>7, <2>1, <1>r DEF Selection
    <2>2. CASE Fits(3)
      <3>1. Word(offset + 2) \in Nat
        BY <1>0, <2>2, WordType DEF Fits
      <3> QED
        BY <1>0, <1>7, <2>2, <3>1
        DEF Selection, MoreSelections, Fits, ParserTypeOK, ReadsInBounds, Position, Inside,
            Slice, Slices
    <2> QED
      BY <2>1, <2>2
  <1>8. CASE Mask
    BY <1>8, MaskStep
  <1>9. CASE SelectionsDone
    BY <1>9, <1>0 DEF SelectionsDone, ParserTypeOK, ReadsInBounds, Position, Inside
  <1>10. CASE PcrDigest
    BY <1>10, <1>r, <1>f DEF PcrDigest
  <1>11. CASE Return
    <2>1. CASE ~Fits(size)
      BY <1>11, <2>1, <1>r DEF Return
    <2>2. CASE Fits(size)
      <3>1. /\ result' = [outcome |-> "returned", slice |-> Slice(offset, size)] /\ at' = "idle"
            /\ UNCHANGED <<buffer, extractor, offset, size, left, selections, read>>
        BY <1>11, <2>2 DEF Return
      <3>2. /\ result' \in [outcome : {"none", "returned", "ValueError"}, slice : Slices]
            /\ Inside(result.slice)'
        BY <2>2, <3>1, <1>0 DEF Fits, Inside, Slice, Slices
      <3>3. ParserTypeOK'
        BY <3>1, <3>2 DEF ParserTypeOK
      <3>4. ReadsInBounds'
        BY <3>1, <3>2 DEF ReadsInBounds, Inside
      <3>5. Position'
        BY <3>1 DEF Position
      <3> QED
        BY <3>3, <3>4, <3>5
    <2> QED
      BY <2>1, <2>2
  <1> QED
    BY <1>1, <1>2, <1>3, <1>4, <1>5, <1>6, <1>7, <1>8, <1>9, <1>10, <1>11 DEF ParserStep

\* A new call starts with nothing read.
LEMMA ExtractInv ==
    ASSUME ParserInv, NEW f \in Extractors, NEW b \in Buffers, Extract(f, b)
    PROVE  ParserInv'
  <1>1. b.len \in Nat
    BY BuffersAssumption
  <1> QED
    BY <1>1
    DEF Extract, ParserInv, ParserTypeOK, ReadsInBounds, Position, Inside, Slice, Slices, NoResult

LEMMA ParserInitially ==
    ASSUME ParserInit
    PROVE  ParserInv
  <1>1. buffer \in Buffers /\ buffer.len \in Nat
    BY BuffersAssumption DEF ParserInit
  <1> QED
    BY <1>1 DEF ParserInit, ParserInv, ParserTypeOK, ReadsInBounds, Position, Inside, Slice,
                Slices, NoResult, Extractors

\* The invariant holds from the start and is kept by every step.
LEMMA ParserInductive == ParserSpec => []ParserInv
  <1>1. ParserInit => ParserInv
    BY ParserInitially
  <1>2. ParserInv /\ [ParserNext]_parserVars => ParserInv'
    <2> SUFFICES ASSUME ParserInv, [ParserNext]_parserVars PROVE ParserInv'
      OBVIOUS
    <2>1. CASE ParserStep
      BY <2>1, StepInv
    <2>2. CASE \E f \in Extractors, b \in Buffers : Extract(f, b)
      BY <2>2, ExtractInv
    <2>3. CASE UNCHANGED parserVars
      BY <2>3 DEF parserVars, ParserInv, ParserTypeOK, ReadsInBounds, Position, Inside
    <2> QED
      BY <2>1, <2>2, <2>3 DEF ParserNext
  <1> QED
    BY <1>1, <1>2, PTL DEF ParserSpec

\* No extractor reads, or returns, a byte past the end of the buffer it is given, nor
\* collects more selections than the buffer has room for, whatever count it holds.
THEOREM ParserStaysInside == ParserSpec => []ReadsInBounds
  <1>1. ParserInv => ReadsInBounds
    BY DEF ParserInv
  <1> QED
    BY <1>1, ParserInductive, PTL

\* The parser's variables keep their types: in particular the loop over the selections
\* never counts below zero.
THEOREM ParserTypes == ParserSpec => []ParserTypeOK
  <1>1. ParserInv => ParserTypeOK
    BY DEF ParserInv
  <1> QED
    BY <1>1, ParserInductive, PTL

----
(* The inductive invariant of the appraisal *)

\* Where the parser of an undamaged structure stands: at the field it is about to read.
OnTrack ==
    LET m == buffer.message
        done == Len(selections)
    IN  (at # "idle" /\ buffer.damage = {}) =>
        /\ extractor = "extract_certify_name" => m.type = "certify"
        /\ extractor = "extract_quote_info" => m.type = "quote"
        /\ at # "header" => buffer.magic
        /\ at = "signer" => offset = HEADER_LEN
        /\ at = "extra" => offset = ExtraAt(m)
        /\ at \in {"attested", "name", "count"} => offset = AttestedAt(m)
        /\ at = "attested" => extractor # "extract_qualifying_data"
        /\ at = "name" => extractor = "extract_certify_name"
        /\ at \in {"count", "selection", "mask", "digest"} => extractor = "extract_quote_info"
        /\ at \in {"selection", "mask"} =>
               /\ left + done = Len(m.masks)
               /\ \A i \in 1 .. done : selections[i] = m.masks[i]
        /\ at = "selection" => offset = SelectionAt(m, done + 1)
        /\ at = "mask" => /\ done + 1 \in DOMAIN m.masks
                          /\ Slice(offset, size) = m.masks[done + 1]
        /\ at = "digest" => offset = DigestAt(m) /\ selections = m.masks
        /\ at = "body" => /\ Slice(offset, size) = Wanted(extractor, m)
                          /\ extractor = "extract_quote_info" => selections = m.masks

ParsingInv == OnTrack /\ ParsedIsEncoded /\ (at # "idle" => result.outcome = "none")

\* A call holds what it read: in a file that only others could have written to since.
CallsTrue ==
    \A c \in Clients : ~calls[c].crossed =>
        /\ Free(c) => calls[c].output = calls[c].truth
        /\ calls[c].at = "cat" => calls[c].truth = IF Shared(c) THEN file ELSE calls[c].own

\* What a CA puts on the wire, with its own encoder or with another.
Library(params) ==
    IF params = ValueError THEN <<>>
    ELSE <<[type |-> "other", value |-> None], [type |-> "tpm", value |-> params]>>
Other(params) == <<[type |-> "tpm", value |-> params]>>

OfferMade ==
    \/ offer = NoOffer
    \/ \E hashAlgId \in HashAlgs \cup {Absent} :
          /\ offer.by = "library" /\ offer.pcrs \in Lists \cup {Absent}
          /\ offer.params = Library(encode_tpm_attestation_params(offer.pcrs, hashAlgId))
    \/ \E value \in Wire :
          /\ offer.by = "other" /\ offer.pcrs = Absent
          /\ offer.params = Other(value)

Agreement ==
    agreed # None =>
        /\ offer # NoOffer
        /\ agreed # ValueError => Selected \subseteq Pcrs

\* What is there in each phase, and that a quote is being parsed or has been.
Phases ==
    /\ phase # "appraise" => offer = NoOffer /\ agreed = None /\ quote = NoQuote
    /\ verdict # "none" => quote # NoQuote
    /\ quote # NoQuote =>
           /\ quote.buffer \in Buffers /\ quote.buffer.message.type = "quote"
           /\ buffer = quote.buffer /\ extractor = "extract_quote_info"
           /\ at = "idle" => result.outcome # "none"

ReferenceTrue == reference.clean => reference.expected = reference.truth

OfferTyped ==
    /\ offer.by \in {"none", "library", "other"} /\ offer.pcrs \in Lists \cup {<<>>, Absent}
    /\ agreed \in {None, Absent, ValueError} \/ agreed.pcrs \in Lists \cup {Absent} \cup
           {Ascending(S) : S \in SUBSET Pcrs}

AppraisalTyped ==
    /\ phase \in {"examine", "capture", "appraise"}
    /\ reference \in [expected : Blobs, truth : Blobs, clean : BOOLEAN]
    /\ quote.values \in Blobs /\ quote.buffer \in Buffers \cup {None}
    /\ verdict \in {"none", "affirming", "contraindicated", "unknown"}

\* One part for each of the modules, and one for what they are put together for.
ParserPart == ParserInv /\ ParsingInv
ClientPart == ClientTypeOK /\ CallsTrue
OfferPart == OfferTyped /\ OfferMade /\ Agreement /\ SelectionIsWanted
AppraisalPart == AppraisalTyped /\ Phases /\ ReferenceTrue /\ AffirmedMatchesReference

IInv == ParserPart /\ ClientPart /\ OfferPart /\ AppraisalPart

----
(* Indices in order *)

\* Counting the smaller members orders a finite set: each position is taken once.
LEMMA AscendingExists ==
    ASSUME NEW S \in SUBSET Nat, IsFiniteSet(S)
    PROVE  \E s \in [1 .. Cardinality(S) -> S] : \A i, j \in DOMAIN s : i < j => s[i] < s[j]
<1> DEFINE n == Cardinality(S)
<1> DEFINE below == [x \in S |-> {y \in S : y < x}]
<1> DEFINE rank == [x \in S |-> Cardinality(below[x]) + 1]
<1>1. n \in Nat /\ IsFiniteSet(1 .. n) /\ Cardinality(1 .. n) = n
  <2>1. n \in Nat
    BY FS_CardinalityType
  <2>2. /\ IsFiniteSet(1 .. n)
        /\ Cardinality(1 .. n) = IF 1 > n THEN 0 ELSE n - 1 + 1
    BY <2>1, FS_Interval
  <2> QED BY <2>1, <2>2
<1>2. ASSUME NEW x \in S
      PROVE  /\ below[x] \in SUBSET S /\ x \notin below[x]
             /\ IsFiniteSet(below[x]) /\ Cardinality(below[x]) \in Nat
             /\ IsFiniteSet(below[x] \cup {x})
             /\ Cardinality(below[x] \cup {x}) = Cardinality(below[x]) + 1
             /\ rank[x] = Cardinality(below[x]) + 1
  <2>1. below[x] \in SUBSET S /\ x \notin below[x]
    OBVIOUS
  <2> HIDE DEF below
  <2>2. IsFiniteSet(below[x])
    BY <2>1, FS_Subset
  <2> QED BY <2>1, <2>2, FS_CardinalityType, FS_AddElement
<1>3. ASSUME NEW x \in S
      PROVE  rank[x] \in 1 .. n
  <2>1. below[x] \cup {x} \in SUBSET S
    BY <1>2
  <2>2. Cardinality(below[x] \cup {x}) <= n
    BY <2>1, FS_Subset
  <2> HIDE DEF below, rank
  <2>3. /\ rank[x] = Cardinality(below[x]) + 1 /\ Cardinality(below[x]) \in Nat
        /\ Cardinality(below[x] \cup {x}) = Cardinality(below[x]) + 1
    BY <1>2
  <2> HIDE DEF n
  <2> QED BY <1>1, <2>2, <2>3
<1>4. ASSUME NEW x \in S, NEW z \in S, x < z
      PROVE  rank[x] < rank[z]
  <2>1. below[x] \cup {x} \in SUBSET below[z]
    <3>1. \A y \in below[x] \cup {x} : y \in S /\ (y < x \/ y = x)
      OBVIOUS
    <3>2. \A y \in S : (y < x \/ y = x) => y < z
      BY <1>4
    <3>3. \A y \in S : y < z => y \in below[z]
      OBVIOUS
    <3> HIDE DEF below
    <3> QED BY <3>1, <3>2, <3>3
  <2> HIDE DEF below, rank
  <2>2. Cardinality(below[x] \cup {x}) <= Cardinality(below[z])
    BY <1>2, <2>1, FS_Subset
  <2>3. /\ rank[x] = Cardinality(below[x]) + 1 /\ Cardinality(below[x]) \in Nat
        /\ rank[z] = Cardinality(below[z]) + 1 /\ Cardinality(below[z]) \in Nat
        /\ Cardinality(below[x] \cup {x}) = Cardinality(below[x]) + 1
    BY <1>2
  <2> QED BY <2>2, <2>3
<1>5. rank \in [S -> 1 .. n]
  BY <1>3
<1> HIDE DEF rank, below
<1>6. \A x, z \in S : rank[x] = rank[z] => x = z
  <2> SUFFICES ASSUME NEW x \in S, NEW z \in S, x # z
               PROVE  rank[x] # rank[z]
    OBVIOUS
  <2>1. x < z \/ z < x
    OBVIOUS
  <2>2. rank[x] \in Nat /\ rank[z] \in Nat
    BY <1>5, <1>1
  <2> QED BY <1>4, <2>1, <2>2
<1>7. rank \in Injection(S, 1 .. n)
  BY <1>5, <1>6 DEF Injection, IsInjective
<1>8. rank \in Surjection(S, 1 .. n)
  BY <1>1, <1>7, FS_Injection
<1> DEFINE s == [i \in 1 .. n |-> CHOOSE x \in S : rank[x] = i]
<1>9. \A i \in 1 .. n : s[i] \in S /\ rank[s[i]] = i
  BY <1>8 DEF Surjection
<1>10. s \in [1 .. n -> S]
  BY <1>9
<1> HIDE DEF s
<1>11. ASSUME NEW i \in 1 .. n, NEW j \in 1 .. n, i < j
       PROVE  s[i] < s[j]
  <2>1. s[i] \in S /\ s[j] \in S /\ rank[s[i]] = i /\ rank[s[j]] = j /\ i \in Nat /\ j \in Nat
    BY <1>1, <1>9
  <2>2. ~(s[j] < s[i])
    <3>1. s[j] < s[i] => j < i
      BY <1>4, <2>1
    <3> QED BY <1>11, <2>1, <3>1
  <2>3. s[i] # s[j]
    BY <1>11, <2>1
  <2>4. s[i] \in Nat /\ s[j] \in Nat
    BY <2>1
  <2> QED BY <2>2, <2>3, <2>4
<1> QED BY <1>10, <1>11

\* Every member once, the smallest first.
LEMMA AscendingType ==
    ASSUME NEW S \in SUBSET Nat, IsFiniteSet(S)
    PROVE  /\ Ascending(S) \in [1 .. Cardinality(S) -> S] /\ Cardinality(S) \in Nat
           /\ Ascending(S) \in Seq(S) /\ ToSet(Ascending(S)) = S
<1> DEFINE n == Cardinality(S)
<1> DEFINE s == Ascending(S)
<1>1. /\ s \in [1 .. n -> S]
      /\ \A i, j \in DOMAIN s : i < j => s[i] < s[j]
  BY AscendingExists DEF Ascending
<1> HIDE DEF s
<1>2. n \in Nat /\ IsFiniteSet(1 .. n) /\ Cardinality(1 .. n) = n
  <2>1. n \in Nat
    BY FS_CardinalityType
  <2>2. /\ IsFiniteSet(1 .. n)
        /\ Cardinality(1 .. n) = IF 1 > n THEN 0 ELSE n - 1 + 1
    BY <2>1, FS_Interval
  <2> QED BY <2>1, <2>2
<1>3. ASSUME NEW i \in 1 .. n, NEW j \in 1 .. n, s[i] = s[j]
      PROVE  i = j
  <2>1. s[i] \in Nat /\ i \in Nat /\ j \in Nat /\ DOMAIN s = 1 .. n
    <3>1. s[i] \in S /\ DOMAIN s = 1 .. n
      BY <1>1
    <3>2. s[i] \in Nat
      BY <3>1
    <3> HIDE DEF n
    <3>3. i \in Nat /\ j \in Nat
      BY <1>2
    <3> QED BY <3>1, <3>2, <3>3
  <2>2. ~(i < j) /\ ~(j < i)
    BY <1>1, <1>3, <2>1
  <2> QED BY <2>1, <2>2
<1>4. s \in Injection(1 .. n, S)
  BY <1>1, <1>3 DEF Injection, IsInjective
<1>5. s \in Surjection(1 .. n, S)
  BY <1>2, <1>4, FS_Injection
<1>6. ToSet(s) = S
  BY <1>1, <1>5 DEF ToSet, Surjection
<1>7. s \in Seq(S)
  BY <1>1, <1>2
<1> QED BY <1>1, <1>2, <1>6, <1>7 DEF s

----
(* Which PCRs are selected *)

Indices == 0 .. PCR_INDEX_MAX

\* What the decoder lets through is what was on the wire, with no index out of range.
LEMMA DecodeTakes ==
    ASSUME NEW params \in Params, decode_tpm_attestation_params(params) # ValueError
    PROVE  /\ decode_tpm_attestation_params(params) = params
           /\ params.pcrs # Absent => /\ params.pcrs \in Seq(Int)
                                      /\ ToSet(params.pcrs) \subseteq Indices
<1>1. decode_tpm_attestation_params(params) = params
  BY DEF decode_tpm_attestation_params
<1>2. ASSUME params.pcrs # Absent
      PROVE  params.pcrs \in Seq(Int) /\ ToSet(params.pcrs) \subseteq Indices
  <2>1. params.pcrs \in Seq(Int)
    BY <1>2 DEF Params
  <2>2. \A i \in ToSet(params.pcrs) : Valid(i)
    BY <1>2 DEF decode_tpm_attestation_params
  <2>3. \A i \in ToSet(params.pcrs) : i \in Int
    BY <2>1 DEF ToSet
  <2> QED BY <2>1, <2>2, <2>3, IndexAssumption DEF Valid, Indices
<1> QED BY <1>1, <1>2

\* What the encoder lets through has the indices it was given, in order, and the decoder
\* takes it.
LEMMA EncodeTakes ==
    ASSUME NEW pcrs \in Seq(Int \cup {NotInt}) \cup {Absent},
           NEW hashAlgId \in Int \cup {NotInt, Absent},
           NEW params, params = encode_tpm_attestation_params(pcrs, hashAlgId),
           params # ValueError
    PROVE  /\ params \in Params /\ decode_tpm_attestation_params(params) = params
           /\ pcrs = Absent => params.pcrs = Absent
           /\ pcrs # Absent => /\ ToSet(pcrs) \subseteq Indices
                               /\ params.pcrs = Ascending(ToSet(pcrs))
                               /\ ToSet(params.pcrs) = ToSet(pcrs)
                               /\ params.pcrs # Absent
<1> DEFINE indices == IF pcrs = Absent THEN Absent ELSE validate_pcr_indices(pcrs)
<1>1. /\ indices # ValueError
      /\ hashAlgId # NotInt /\ (hashAlgId # Absent => ~(hashAlgId < 0))
      /\ params = [pcrs |-> indices, hashAlgId |-> hashAlgId]
  BY DEF encode_tpm_attestation_params
<1> HIDE DEF indices
<1>2. params.pcrs = indices /\ params.hashAlgId = hashAlgId
  BY <1>1
<1>3. CASE pcrs = Absent
  <2>1. indices = Absent
    BY <1>3 DEF indices
  <2>2. params \in Params
    BY <1>1, <2>1 DEF Params
  <2>3. decode_tpm_attestation_params(params) = params
    BY <1>1, <1>2, <2>1, <2>2, IndexAssumption DEF decode_tpm_attestation_params
  <2> QED BY <1>2, <1>3, <2>1, <2>2, <2>3
<1>4. CASE pcrs # Absent
  <2> DEFINE S == ToSet(pcrs)
  <2>1. pcrs \in Seq(Int \cup {NotInt}) /\ S \subseteq Int \cup {NotInt}
    BY <1>4 DEF ToSet
  <2>2. /\ pcrs # <<>> /\ \A i \in S : Valid(i)
        /\ indices = Ascending(S)
    BY <1>1, <1>4 DEF indices, validate_pcr_indices
  <2>3. S \subseteq Indices
    BY <2>1, <2>2, IndexAssumption DEF Valid, Indices
  <2>4. IsFiniteSet(Indices) /\ Indices \in SUBSET Nat
    <3>1. 0 \in Int /\ PCR_INDEX_MAX \in Int
      BY IndexAssumption
    <3> QED BY <3>1, FS_Interval DEF Indices
  <2>5. S # {}
    <3>1. Len(pcrs) \in Nat /\ Len(pcrs) # 0 /\ DOMAIN pcrs = 1 .. Len(pcrs)
      BY <2>1, <2>2
    <3>2. 1 \in DOMAIN pcrs
      BY <3>1
    <3> QED BY <3>2 DEF ToSet
  <2> HIDE DEF S
  <2>6. IsFiniteSet(S) /\ S \in SUBSET Nat
    BY <2>3, <2>4, FS_Subset
  <2>7. indices \in Seq(S) /\ ToSet(indices) = S
    BY <2>2, <2>6, AscendingType
  <2>8. indices \in Seq(Int) /\ indices # <<>>
    <3>1. indices \in Seq(Int)
      <4>1. Cardinality(S) \in Nat /\ indices \in [1 .. Cardinality(S) -> S]
        BY <2>2, <2>6, AscendingType
      <4>2. indices \in [1 .. Cardinality(S) -> Int]
        <5>1. S \subseteq Int
          BY <2>6
        <5> QED BY <4>1, <5>1
      <4> QED BY <4>1, <4>2
    <3>2. ToSet(<<>>) = {}
      BY DEF ToSet
    <3> QED BY <2>5, <2>7, <3>1, <3>2
  <2>9. params \in Params /\ indices # Absent
    BY <1>1, <2>8, IndexAssumption DEF Params
  <2>10. decode_tpm_attestation_params(params) = params
    <3>1. params # Malformed
      BY <2>9, IndexAssumption
    <3> QED BY <1>1, <1>2, <2>2, <2>7, <2>8, <3>1 DEF decode_tpm_attestation_params
  <2> QED BY <1>2, <1>4, <2>2, <2>3, <2>7, <2>9, <2>10 DEF S
<1> QED BY <1>3, <1>4

\* The attester finds the entry of the type, wherever it is among the parameters.
LEMMA Extracted ==
    ASSUME NEW params
    PROVE  /\ extract_pcr_selection(Other(params), "tpm") = decode_tpm_attestation_params(params)
           /\ params = ValueError => extract_pcr_selection(Library(params), "tpm") = Absent
           /\ params # ValueError => extract_pcr_selection(Library(params), "tpm")
                                         = decode_tpm_attestation_params(params)
<1>1. \A n \in Int : Min({n}) = n
  BY DEF Min
<1>2. extract_pcr_selection(Other(params), "tpm") = decode_tpm_attestation_params(params)
  <2> DEFINE s == <<[type |-> "tpm", value |-> params]>>
  <2>1. s[1].value = params /\ {i \in DOMAIN s : s[i].type = "tpm"} = {1}
    OBVIOUS
  <2>2. Other(params) = s /\ Min({1}) = 1
    BY <1>1 DEF Other
  <2> HIDE DEF s
  <2> QED BY <2>1, <2>2 DEF extract_pcr_selection
<1>3. ASSUME params = ValueError
      PROVE  extract_pcr_selection(Library(params), "tpm") = Absent
  BY <1>3 DEF extract_pcr_selection, Library
<1>4. ASSUME params # ValueError
      PROVE  extract_pcr_selection(Library(params), "tpm") = decode_tpm_attestation_params(params)
  <2> DEFINE s == <<[type |-> "other", value |-> None], [type |-> "tpm", value |-> params]>>
  <2>1. s[2].value = params /\ {i \in DOMAIN s : s[i].type = "tpm"} = {2}
    OBVIOUS
  <2>2. Library(params) = s /\ Min({2}) = 2
    BY <1>1, <1>4 DEF Library
  <2> HIDE DEF s
  <2> QED BY <2>1, <2>2 DEF extract_pcr_selection
<1> QED BY <1>2, <1>3, <1>4

----
(* Where the fields of a structure are *)

\* The smallest member of a set of naturals.
LEMMA LeastNumber ==
    ASSUME NEW T \in SUBSET Nat, T # {}
    PROVE  \E x \in T : \A y \in T : x <= y
<1> DEFINE Below == OpToRel(<, Nat)
<1>1. IsWellFoundedOn(Below, Nat)
  BY NatLessThanWellFounded
<1>2. PICK x \in T : \A y \in T : <<y, x>> \notin Below
  <2> HIDE DEF Below
  <2> QED BY <1>1, WFMin
<1>3. ASSUME NEW y \in T PROVE x <= y
  <2>1. x \in Nat /\ y \in Nat
    OBVIOUS
  <2>2. ~(y < x)
    BY <1>2, <2>1 DEF OpToRel
  <2> QED BY <2>1, <2>2
<1> QED BY <1>3

Ends(mask) == mask.from + mask.size

\* The fields follow one another, and every mask ends before the digest begins.
LEMMA Layout ==
    ASSUME NEW b \in Buffers, NEW m, m = b.message
    PROVE  /\ m.signer \in Nat /\ m.extra \in Nat /\ m.name \in Nat /\ m.digest \in Nat
           /\ m.masks \in Seq(Slices) /\ Len(m.masks) \in Nat
           /\ ExtraAt(m) \in Nat /\ AttestedAt(m) \in Nat /\ DigestAt(m) \in Nat
           /\ ExtraAt(m) = HEADER_LEN + 2 + m.signer
           /\ AttestedAt(m) = ExtraAt(m) + 2 + m.extra + CLOCK_AND_FIRMWARE_LEN
           /\ SelectionAt(m, 1) = AttestedAt(m) + 4
           /\ DigestAt(m) = SelectionAt(m, Len(m.masks) + 1)
           /\ AttestedAt(m) + 4 <= DigestAt(m)
           /\ \A i \in 1 .. Len(m.masks) :
                  /\ m.masks[i] \in Slices
                  /\ m.masks[i].from = SelectionAt(m, i) + 3
                  /\ SelectionAt(m, i + 1) = Ends(m.masks[i])
                  /\ Ends(m.masks[i]) <= DigestAt(m)
<1> DEFINE n == Len(m.masks)
<1> DEFINE masks == m.masks
<1>1. /\ m.signer \in Nat /\ m.extra \in Nat /\ m.name \in Nat /\ m.digest \in Nat
      /\ masks \in Seq(Slices) /\ n \in Nat /\ DOMAIN masks = 1 .. n
      /\ \A i \in DOMAIN masks : masks[i].from = SelectionAt(m, i) + 3
  BY StructureAssumption
<1>2. /\ ExtraAt(m) = HEADER_LEN + 2 + m.signer /\ ExtraAt(m) \in Nat
      /\ AttestedAt(m) = ExtraAt(m) + 2 + m.extra + CLOCK_AND_FIRMWARE_LEN
      /\ AttestedAt(m) \in Nat
  <2>1. /\ ExtraAt(m) = HEADER_LEN + 2 + m.signer
        /\ AttestedAt(m) = ExtraAt(m) + 2 + m.extra + CLOCK_AND_FIRMWARE_LEN
    BY DEF ExtraAt, AttestedAt
  <2>2. m.signer \in Nat /\ m.extra \in Nat
    BY <1>1
  <2> QED BY <2>1, <2>2 DEF HEADER_LEN, CLOCK_AND_FIRMWARE_LEN
<1>3. \A i \in 1 .. n : masks[i] \in Slices /\ masks[i].from \in Nat /\ masks[i].size \in Nat
  <2> SUFFICES ASSUME NEW i \in 1 .. n
               PROVE  masks[i] \in Slices /\ masks[i].from \in Nat /\ masks[i].size \in Nat
    OBVIOUS
  <2> HIDE DEF masks, n
  <2>1. masks[i] \in Slices
    BY <1>1
  <2> QED BY <2>1 DEF Slices
<1>4. /\ SelectionAt(m, 1) = AttestedAt(m) + 4
      /\ \A i \in 1 .. n : SelectionAt(m, i + 1) = Ends(masks[i])
      /\ DigestAt(m) = SelectionAt(m, n + 1)
  BY <1>1, <1>3 DEF SelectionAt, Ends, DigestAt
<1> HIDE DEF masks, n
<1>5. \A i \in 1 .. n : Ends(masks[i]) \in Nat
  BY <1>3 DEF Ends
<1>6. DigestAt(m) \in Nat
  <2>1. CASE n = 0
    BY <1>2, <1>4, <2>1
  <2>2. CASE n # 0
    <3>1. n \in 1 .. n
      BY <1>1, <2>2
    <3> QED BY <1>4, <1>5, <3>1
  <2> QED BY <2>1, <2>2
<1>7. \A i \in 1 .. n : Ends(masks[i]) <= DigestAt(m)
  <2> DEFINE late == {i \in 1 .. n : ~(Ends(masks[i]) <= DigestAt(m))}
  <2> DEFINE back == {n - i : i \in late}
  <2> SUFFICES ASSUME late # {}
               PROVE  FALSE
    OBVIOUS
  <2>1. back \in SUBSET Nat /\ back # {}
    BY <1>1
  <2>2. PICK x \in back : \A y \in back : x <= y
    <3> HIDE DEF back
    <3> QED BY <2>1, LeastNumber
  <2>3. PICK i \in late : x = n - i
    OBVIOUS
  <2>4. \A j \in late : j <= i
    <3> SUFFICES ASSUME NEW j \in late
                 PROVE  j <= i
      OBVIOUS
    <3>1. n - j \in back /\ i \in 1 .. n /\ j \in 1 .. n
      OBVIOUS
    <3> HIDE DEF back, late
    <3>2. n - i <= n - j /\ i \in Nat /\ j \in Nat
      BY <1>1, <2>2, <2>3, <3>1
    <3> QED BY <1>1, <3>2
  <2>5. i \in 1 .. n /\ ~(Ends(masks[i]) <= DigestAt(m))
    OBVIOUS
  <2> HIDE DEF late, back
  <2>e. Ends(masks[n]) <= DigestAt(m) \/ n \notin 1 .. n
    <3> SUFFICES ASSUME n \in 1 .. n
                 PROVE  Ends(masks[n]) <= DigestAt(m)
      OBVIOUS
    <3>1. DigestAt(m) = Ends(masks[n])
      BY <1>4
    <3> QED BY <1>6, <3>1
  <2>6. i # n
    BY <2>5, <2>e
  <2>7. i + 1 \in 1 .. n
    BY <1>1, <2>5, <2>6
  <2>8. masks[i + 1].from = Ends(masks[i]) + 3
    BY <1>1, <1>4, <2>5, <2>7
  <2>9. ~(Ends(masks[i + 1]) <= DigestAt(m))
    BY <1>3, <1>5, <1>6, <2>5, <2>7, <2>8 DEF Ends
  <2>10. i + 1 \in late
    BY <2>7, <2>9 DEF late
  <2> QED BY <1>1, <2>4, <2>5, <2>10
<1>8. AttestedAt(m) + 4 <= DigestAt(m)
  <2>1. CASE n = 0
    BY <1>2, <1>4, <2>1
  <2>2. CASE n # 0
    <3>1. 1 \in 1 .. n
      BY <1>1, <2>2
    <3>2. masks[1].from = AttestedAt(m) + 4 + 3
      BY <1>1, <1>4, <3>1
    <3> QED BY <1>2, <1>3, <1>6, <1>7, <3>1, <3>2 DEF Ends
  <2> QED BY <2>1, <2>2
<1> QED BY <1>1, <1>2, <1>3, <1>4, <1>6, <1>7, <1>8 DEF masks, n

\* The slice each extractor is after lies behind all it reads on the way.
LEMMA WantedAt ==
    ASSUME NEW m
    PROVE  /\ Wanted("extract_qualifying_data", m) = Slice(ExtraAt(m) + 2, m.extra)
           /\ Wanted("extract_certify_name", m) = Slice(AttestedAt(m) + 2, m.name)
           /\ Wanted("extract_quote_info", m) = Slice(DigestAt(m) + 2, m.digest)
BY DEF Wanted

\* An undamaged buffer holds the numbers of its structure.
LEMMA WordEncoded ==
    ASSUME ParserTypeOK, buffer.damage = {}, NEW m, m = buffer.message
    PROVE  /\ HEADER_LEN <= buffer.len => Word(HEADER_LEN) = m.signer
           /\ ExtraAt(m) <= buffer.len => Word(ExtraAt(m)) = m.extra
           /\ m.type = "certify" /\ AttestedAt(m) <= buffer.len => Word(AttestedAt(m)) = m.name
           /\ m.type = "quote" =>
                  /\ AttestedAt(m) <= buffer.len => Word(AttestedAt(m)) = Len(m.masks)
                  /\ DigestAt(m) <= buffer.len => Word(DigestAt(m)) = m.digest
                  /\ \A i \in DOMAIN m.masks : SelectionAt(m, i) + 2 <= buffer.len =>
                         Word(SelectionAt(m, i) + 2) = m.masks[i].size
<1>1. \A f \in Fields(m) : f[1] <= buffer.len => Word(f[1]) = f[2]
  BY StructureAssumption DEF ParserTypeOK, Word
<1>2. \A o, n : <<o, n>> \in Fields(m) /\ o <= buffer.len => Word(o) = n
  BY <1>1
<1>3. <<HEADER_LEN, m.signer>> \in Fields(m) /\ <<ExtraAt(m), m.extra>> \in Fields(m)
  BY DEF Fields
<1>4. ASSUME m.type = "certify"
      PROVE  <<AttestedAt(m), m.name>> \in Fields(m)
  BY <1>4 DEF Fields
<1>5. ASSUME m.type = "quote"
      PROVE  /\ <<AttestedAt(m), Len(m.masks)>> \in Fields(m)
             /\ <<DigestAt(m), m.digest>> \in Fields(m)
             /\ \A i \in DOMAIN m.masks :
                    <<SelectionAt(m, i) + 2, m.masks[i].size>> \in Fields(m)
  BY <1>5 DEF Fields
<1> QED BY <1>2, <1>3, <1>4, <1>5

----
(* The parser of an undamaged structure *)

\* A check that fails where the wanted slice cannot be inside is right to fail.
LEMMA RaiseTrack ==
    ASSUME Raise,
           buffer.damage = {} =>
               ~(buffer.magic /\ Inside(Wanted(extractor, buffer.message)))
    PROVE  ParsingInv'
<1>1. /\ at' = "idle" /\ result' = [outcome |-> "ValueError", slice |-> Slice(0, 0)]
      /\ UNCHANGED <<buffer, extractor>>
  BY DEF Raise
<1>2. OnTrack'
  BY <1>1 DEF OnTrack
<1>3. ParsedIsEncoded'
  BY <1>1 DEF ParsedIsEncoded, Inside
<1> QED BY <1>1, <1>2, <1>3 DEF ParsingInv

\* A step that returns nothing yet has only to stay on track.
LEMMA StepTrack ==
    ASSUME ParsingInv, at # "idle", at' # "idle", UNCHANGED <<buffer, extractor, result>>,
           buffer.damage = {} => OnTrack'
    PROVE  ParsingInv'
<1>1. OnTrack'
  BY DEF OnTrack
<1>2. result'.outcome = "none"
  BY DEF ParsingInv
<1> QED BY <1>1, <1>2 DEF ParsingInv, ParsedIsEncoded

\* A size field has been read at the offset: what follows it is the wanted slice.
LEMMA FieldTrack ==
    ASSUME ParserInv, ParsingInv, at \in {"extra", "name", "digest"}, Field, Fits(2),
           at = "extra" => extractor = "extract_qualifying_data"
    PROVE  ParsingInv'
<1> DEFINE m == buffer.message
<1>1. /\ at' = "body" /\ size' = Word(offset) /\ offset' = offset + 2
      /\ UNCHANGED <<buffer, extractor, left, selections, result>>
      /\ offset \in Nat /\ buffer \in Buffers /\ buffer.len \in Nat /\ ParserTypeOK
  BY BuffersAssumption DEF Field, ParserInv, ParserTypeOK
<1> SUFFICES ASSUME buffer.damage = {}
             PROVE  OnTrack'
  BY <1>1, StepTrack
<1>2. offset <= buffer.len
  BY <1>1 DEF Fits
<1>3. OnTrack
  BY DEF ParsingInv
<1>4. buffer.magic
  BY <1>3 DEF OnTrack
<1>5. CASE at = "extra"
  <2>1. offset = ExtraAt(m) /\ extractor = "extract_qualifying_data"
    BY <1>3, <1>5 DEF OnTrack
  <2>2. Word(offset) = m.extra
    BY <1>1, <1>2, <2>1, WordEncoded
  <2>3. Slice(offset', size') = Wanted(extractor, m)
    BY <1>1, <2>1, <2>2, WantedAt
  <2> QED BY <1>1, <1>4, <2>1, <2>3 DEF OnTrack
<1>6. CASE at = "name"
  <2>1. /\ offset = AttestedAt(m) /\ extractor = "extract_certify_name"
        /\ m.type = "certify"
    BY <1>3, <1>6 DEF OnTrack
  <2>2. Word(offset) = m.name
    BY <1>1, <1>2, <2>1, WordEncoded
  <2>3. Slice(offset', size') = Wanted(extractor, m)
    BY <1>1, <2>1, <2>2, WantedAt
  <2> QED BY <1>1, <1>4, <2>1, <2>3 DEF OnTrack
<1>7. CASE at = "digest"
  <2>1. /\ offset = DigestAt(m) /\ extractor = "extract_quote_info"
        /\ m.type = "quote" /\ selections = m.masks
    BY <1>3, <1>7 DEF OnTrack
  <2>2. Word(offset) = m.digest
    BY <1>1, <1>2, <2>1, WordEncoded
  <2>3. Slice(offset', size') = Wanted(extractor, m)
    BY <1>1, <2>1, <2>2, WantedAt
  <2> QED BY <1>1, <1>4, <2>1, <2>3 DEF OnTrack
<1> QED BY <1>5, <1>6, <1>7

\* If the wanted slice is inside the buffer, then so is all that is read before it.
LEMMA WantedBehind ==
    ASSUME ParserTypeOK, Inside(Wanted(extractor, buffer.message)), NEW m, m = buffer.message
    PROVE  /\ HEADER_LEN + 2 <= buffer.len
           /\ ExtraAt(m) + 2 <= buffer.len
           /\ extractor # "extract_qualifying_data" => AttestedAt(m) + 2 <= buffer.len
           /\ extractor = "extract_quote_info" =>
                  /\ AttestedAt(m) + 4 <= buffer.len
                  /\ DigestAt(m) + 2 <= buffer.len
                  /\ \A i \in 1 .. Len(m.masks) : /\ SelectionAt(m, i) + 3 <= buffer.len
                                                  /\ Ends(m.masks[i]) <= buffer.len
<1>1. buffer \in Buffers /\ buffer.len \in Nat /\ extractor \in Extractors
  BY BuffersAssumption DEF ParserTypeOK
<1>2. /\ m.signer \in Nat /\ m.extra \in Nat /\ m.name \in Nat /\ m.digest \in Nat
      /\ ExtraAt(m) \in Nat /\ AttestedAt(m) \in Nat /\ DigestAt(m) \in Nat
      /\ ExtraAt(m) = 6 + 2 + m.signer
      /\ AttestedAt(m) = ExtraAt(m) + 2 + m.extra + 25
      /\ AttestedAt(m) + 4 <= DigestAt(m)
  <2>1. /\ m.signer \in Nat /\ m.extra \in Nat /\ m.name \in Nat /\ m.digest \in Nat
        /\ ExtraAt(m) \in Nat /\ AttestedAt(m) \in Nat /\ DigestAt(m) \in Nat
        /\ ExtraAt(m) = HEADER_LEN + 2 + m.signer
        /\ AttestedAt(m) = ExtraAt(m) + 2 + m.extra + CLOCK_AND_FIRMWARE_LEN
        /\ AttestedAt(m) + 4 <= DigestAt(m)
    BY <1>1, Layout
  <2>2. HEADER_LEN = 6 /\ CLOCK_AND_FIRMWARE_LEN = 25
    BY DEF HEADER_LEN, CLOCK_AND_FIRMWARE_LEN
  <2> QED BY <2>1, <2>2
<1>3. ASSUME NEW from \in Nat, NEW n \in Nat, Slice(from, n) = Wanted(extractor, m)
      PROVE  from + n <= buffer.len
  BY <1>3 DEF Inside, Slice
<1>4. CASE extractor = "extract_qualifying_data"
  <2>1. ExtraAt(m) + 2 \in Nat
    BY <1>2
  <2>2. ExtraAt(m) + 2 + m.extra <= buffer.len
    BY <1>2, <1>3, <1>4, <2>1, WantedAt
  <2>3. ExtraAt(m) + 2 <= buffer.len /\ 6 + 2 <= buffer.len
    BY <1>1, <1>2, <2>2
  <2> QED BY <1>4, <2>3 DEF HEADER_LEN
<1>5. CASE extractor = "extract_certify_name"
  <2>1. AttestedAt(m) + 2 \in Nat
    BY <1>2
  <2>2. AttestedAt(m) + 2 + m.name <= buffer.len
    BY <1>2, <1>3, <1>5, <2>1, WantedAt
  <2>3. /\ AttestedAt(m) + 2 <= buffer.len /\ ExtraAt(m) + 2 <= buffer.len
        /\ 6 + 2 <= buffer.len
    BY <1>1, <1>2, <2>2
  <2> QED BY <1>5, <2>3 DEF HEADER_LEN
<1>6. CASE extractor = "extract_quote_info"
  <2>1. DigestAt(m) + 2 \in Nat
    BY <1>2
  <2>2. DigestAt(m) + 2 + m.digest <= buffer.len
    BY <1>2, <1>3, <1>6, <2>1, WantedAt
  <2>3. /\ DigestAt(m) + 2 <= buffer.len /\ AttestedAt(m) + 4 <= buffer.len
        /\ AttestedAt(m) + 2 <= buffer.len
        /\ ExtraAt(m) + 2 <= buffer.len /\ 6 + 2 <= buffer.len
    BY <1>1, <1>2, <2>2
  <2>4. ASSUME NEW i \in 1 .. Len(m.masks)
        PROVE  SelectionAt(m, i) + 3 <= buffer.len /\ Ends(m.masks[i]) <= buffer.len
    <3> DEFINE mask == m.masks[i]
    <3>1. /\ mask \in Slices /\ mask.from = SelectionAt(m, i) + 3
          /\ mask.from + mask.size <= DigestAt(m)
      BY <1>1, Layout DEF Ends
    <3> HIDE DEF mask
    <3>2. mask.from \in Nat /\ mask.size \in Nat
      BY <3>1 DEF Slices
    <3>3. \A from, n, a, d, l \in Nat :
              from + n <= a /\ a + 2 + d <= l => from <= l /\ from + n <= l
      OBVIOUS
    <3>4. mask.from <= buffer.len /\ mask.from + mask.size <= buffer.len
      BY <1>1, <1>2, <2>2, <3>1, <3>2, <3>3
    <3> QED BY <3>1, <3>4 DEF Ends, mask
  <2> QED BY <1>6, <2>3, <2>4 DEF HEADER_LEN
<1> QED BY <1>1, <1>4, <1>5, <1>6 DEF Extractors

LEMMA TrackStep ==
    ASSUME ParserInv, ParsingInv, ParserStep
    PROVE  ParsingInv'
<1> DEFINE m == buffer.message
<1> DEFINE done == Len(selections)
<1>0. /\ ParserTypeOK /\ OnTrack /\ Position
      /\ buffer \in Buffers /\ buffer.len \in Nat /\ extractor \in Extractors
      /\ offset \in Nat /\ size \in Nat /\ left \in Nat
      /\ selections \in Seq(Slices) /\ done \in Nat
  BY BuffersAssumption DEF ParserInv, ParsingInv, ParserTypeOK
<1>1. /\ m.masks \in Seq(Slices) /\ Len(m.masks) \in Nat /\ DOMAIN m.masks = 1 .. Len(m.masks)
      /\ ExtraAt(m) \in Nat /\ AttestedAt(m) \in Nat /\ DigestAt(m) \in Nat
      /\ ExtraAt(m) = HEADER_LEN + 2 + m.signer
      /\ AttestedAt(m) = ExtraAt(m) + 2 + m.extra + CLOCK_AND_FIRMWARE_LEN
      /\ SelectionAt(m, 1) = AttestedAt(m) + 4
      /\ DigestAt(m) = SelectionAt(m, Len(m.masks) + 1)
      /\ \A i \in 1 .. Len(m.masks) :
             /\ m.masks[i] \in Slices
             /\ m.masks[i].from = SelectionAt(m, i) + 3
             /\ SelectionAt(m, i + 1) = Ends(m.masks[i])
  <2> HIDE DEF m
  <2>1. DOMAIN m.masks = 1 .. Len(m.masks)
    BY <1>0, Layout DEF m
  <2> QED BY <1>0, <2>1, Layout DEF m
<1>w. ASSUME Inside(Wanted(extractor, m))
      PROVE  /\ HEADER_LEN + 2 <= buffer.len
             /\ ExtraAt(m) + 2 <= buffer.len
             /\ extractor # "extract_qualifying_data" => AttestedAt(m) + 2 <= buffer.len
             /\ extractor = "extract_quote_info" =>
                    /\ AttestedAt(m) + 4 <= buffer.len
                    /\ DigestAt(m) + 2 <= buffer.len
                    /\ \A i \in 1 .. Len(m.masks) : /\ SelectionAt(m, i) + 3 <= buffer.len
                                                    /\ Ends(m.masks[i]) <= buffer.len
  BY <1>0, <1>w, WantedBehind
<1>2. CASE Header
  <2>1. CASE buffer.len < HEADER_LEN \/ ~buffer.magic
    <3>1. Raise
      BY <1>2, <2>1 DEF Header
    <3>2. ~(buffer.magic /\ Inside(Wanted(extractor, m)))
      BY <1>0, <1>w, <2>1 DEF HEADER_LEN
    <3> QED BY <3>1, <3>2, RaiseTrack
  <2>2. CASE ~(buffer.len < HEADER_LEN \/ ~buffer.magic)
    <3>1. /\ offset' = HEADER_LEN /\ at' = "signer" /\ at = "header" /\ buffer.magic
          /\ UNCHANGED <<buffer, extractor, size, left, selections, result, read>>
      BY <1>2, <2>2 DEF Header
    <3>2. buffer.damage = {} => OnTrack'
      BY <1>0, <3>1 DEF OnTrack
    <3> QED BY <3>1, <3>2, StepTrack
  <2> QED BY <2>1, <2>2
<1>3. CASE QualifiedSigner
  <2>1. at = "signer" /\ (buffer.damage = {} => offset = HEADER_LEN /\ buffer.magic)
    BY <1>0, <1>3 DEF QualifiedSigner, OnTrack
  <2>2. CASE ~Fits(2)
    <3>1. Raise
      BY <1>3, <2>2 DEF QualifiedSigner
    <3>2. buffer.damage = {} => ~Inside(Wanted(extractor, m))
      BY <1>w, <2>1, <2>2 DEF Fits
    <3> QED BY <3>1, <3>2, RaiseTrack
  <2>3. CASE Fits(2)
    <3>1. /\ offset' = offset + 2 + Word(offset) + 0 /\ at' = "extra"
          /\ UNCHANGED <<buffer, extractor, size, left, selections, result>>
      BY <1>3, <2>3 DEF QualifiedSigner, Skip
    <3>2. ASSUME buffer.damage = {}
          PROVE  OnTrack'
      <4>1. HEADER_LEN <= buffer.len
        BY <1>0, <2>1, <2>3, <3>2 DEF Fits
      <4>2. Word(offset) = m.signer /\ m.signer \in Nat
        BY <1>0, <2>1, <3>2, <4>1, WordEncoded, Layout
      <4>3. offset' = ExtraAt(m)
        BY <1>1, <2>1, <3>1, <3>2, <4>2 DEF HEADER_LEN
      <4> QED BY <1>0, <2>1, <3>1, <3>2, <4>3 DEF OnTrack
    <3> QED BY <2>1, <3>1, <3>2, StepTrack
  <2> QED BY <2>2, <2>3
<1>4. CASE ExtraData
  <2>1. at = "extra" /\ (buffer.damage = {} => offset = ExtraAt(m) /\ buffer.magic)
    BY <1>0, <1>4 DEF ExtraData, OnTrack
  <2>2. CASE ~Fits(2)
    <3>1. Raise
      BY <1>4, <2>2 DEF ExtraData
    <3>2. buffer.damage = {} => ~Inside(Wanted(extractor, m))
      BY <1>w, <2>1, <2>2 DEF Fits
    <3> QED BY <3>1, <3>2, RaiseTrack
  <2>3. CASE Fits(2) /\ extractor = "extract_qualifying_data"
    <3>1. Field
      BY <1>4, <2>3 DEF ExtraData
    <3> QED BY <2>1, <2>3, <3>1, FieldTrack
  <2>4. CASE Fits(2) /\ extractor # "extract_qualifying_data"
    <3>1. /\ offset' = offset + 2 + Word(offset) + CLOCK_AND_FIRMWARE_LEN /\ at' = "attested"
          /\ UNCHANGED <<buffer, extractor, size, left, selections, result>>
      BY <1>4, <2>4 DEF ExtraData, AfterExtraData, Skip
    <3>2. ASSUME buffer.damage = {}
          PROVE  OnTrack'
      <4>1. ExtraAt(m) <= buffer.len
        BY <1>0, <2>1, <2>4, <3>2 DEF Fits
      <4>2. Word(offset) = m.extra
        BY <1>0, <2>1, <3>2, <4>1, WordEncoded
      <4>3. offset' = AttestedAt(m)
        BY <1>1, <2>1, <3>1, <3>2, <4>2
      <4> QED BY <1>0, <2>1, <2>4, <3>1, <3>2, <4>3 DEF OnTrack
    <3> QED BY <2>1, <3>1, <3>2, StepTrack
  <2> QED BY <2>2, <2>3, <2>4
<1>5. CASE Attested
  <2>1. /\ at = "attested"
        /\ buffer.damage = {} => /\ offset = AttestedAt(m) /\ buffer.magic
                                 /\ extractor # "extract_qualifying_data"
    BY <1>0, <1>5 DEF Attested, OnTrack
  <2>2. CASE offset > buffer.len
    <3>1. Raise
      BY <1>5, <2>2 DEF Attested
    <3>2. buffer.damage = {} => ~Inside(Wanted(extractor, m))
      BY <1>0, <1>1, <1>w, <2>1, <2>2
    <3> QED BY <3>1, <3>2, RaiseTrack
  <2>3. CASE ~(offset > buffer.len)
    <3>1. /\ at' = IF extractor = "extract_certify_name" THEN "name" ELSE "count"
          /\ UNCHANGED <<buffer, extractor, offset, size, left, selections, result, read>>
      BY <1>5, <2>3 DEF Attested
    <3>2. buffer.damage = {} => OnTrack'
      BY <1>0, <2>1, <3>1 DEF OnTrack, Extractors
    <3> QED BY <2>1, <3>1, <3>2, StepTrack
  <2> QED BY <2>2, <2>3
<1>6. CASE CertifyName
  <2>1. /\ at = "name"
        /\ buffer.damage = {} => offset = AttestedAt(m) /\ extractor = "extract_certify_name"
    BY <1>0, <1>6 DEF CertifyName, OnTrack
  <2>2. CASE ~Fits(2)
    <3>1. Raise
      BY <1>6, <2>2 DEF CertifyName
    <3>2. buffer.damage = {} => ~Inside(Wanted(extractor, m))
      BY <1>w, <2>1, <2>2 DEF Fits
    <3> QED BY <3>1, <3>2, RaiseTrack
  <2>3. CASE Fits(2)
    BY <1>6, <2>1, <2>3, FieldTrack DEF CertifyName
  <2> QED BY <2>2, <2>3
<1>7. CASE Count
  <2>1. /\ at = "count" /\ selections = <<>>
        /\ buffer.damage = {} => /\ offset = AttestedAt(m) /\ extractor = "extract_quote_info"
                                 /\ m.type = "quote" /\ buffer.magic
    BY <1>0, <1>7 DEF Count, OnTrack, Position
  <2>2. CASE ~Fits(4)
    <3>1. Raise
      BY <1>7, <2>2 DEF Count
    <3>2. buffer.damage = {} => ~Inside(Wanted(extractor, m))
      BY <1>w, <2>1, <2>2 DEF Fits
    <3> QED BY <3>1, <3>2, RaiseTrack
  <2>3. CASE Fits(4)
    <3>1. /\ left' = Word(offset) /\ offset' = offset + 4 /\ at' = "selection"
          /\ UNCHANGED <<buffer, extractor, size, selections, result>>
      BY <1>7, <2>3 DEF Count
    <3>2. ASSUME buffer.damage = {}
          PROVE  OnTrack'
      <4>1. AttestedAt(m) <= buffer.len
        BY <1>0, <2>1, <2>3, <3>2 DEF Fits
      <4>2. left' = Len(m.masks)
        BY <1>0, <2>1, <3>1, <3>2, <4>1, WordEncoded
      <4>3. /\ selections' = <<>> /\ Len(selections') = 0
            /\ offset' = SelectionAt(m, Len(selections') + 1)
            /\ left' + Len(selections') = Len(m.masks)
        BY <1>1, <2>1, <3>1, <3>2, <4>2
      <4> QED BY <1>0, <2>1, <3>1, <3>2, <4>3 DEF OnTrack
    <3> QED BY <2>1, <3>1, <3>2, StepTrack
  <2> QED BY <2>2, <2>3
<1>8. CASE Selection
  <2>1. /\ at = "selection" /\ left > 0
        /\ buffer.damage = {} =>
               /\ offset = SelectionAt(m, done + 1) /\ extractor = "extract_quote_info"
               /\ m.type = "quote" /\ buffer.magic
               /\ left + done = Len(m.masks)
               /\ \A i \in 1 .. done : selections[i] = m.masks[i]
    BY <1>0, <1>8 DEF Selection, MoreSelections, OnTrack
  <2>2. buffer.damage = {} => done + 1 \in 1 .. Len(m.masks)
    BY <1>0, <1>1, <2>1
  <2>3. CASE ~Fits(3)
    <3>1. Raise
      BY <1>8, <2>3 DEF Selection
    <3>2. buffer.damage = {} => ~Inside(Wanted(extractor, m))
      BY <1>w, <2>1, <2>2, <2>3 DEF Fits
    <3> QED BY <3>1, <3>2, RaiseTrack
  <2>4. CASE Fits(3)
    <3>1. /\ size' = Word(offset + 2) /\ offset' = offset + 3 /\ at' = "mask"
          /\ UNCHANGED <<buffer, extractor, left, selections, result>>
      BY <1>8, <2>4 DEF Selection
    <3>2. ASSUME buffer.damage = {}
          PROVE  OnTrack'
      <4>1. offset + 2 <= buffer.len
        BY <1>0, <2>4 DEF Fits
      <4>2. size' = m.masks[done + 1].size
        <5>1. ASSUME NEW i \in DOMAIN m.masks, SelectionAt(m, i) + 2 <= buffer.len
              PROVE  Word(SelectionAt(m, i) + 2) = m.masks[i].size
          BY <1>0, <2>1, <3>2, <5>1, WordEncoded
        <5>2. done + 1 \in DOMAIN m.masks /\ offset = SelectionAt(m, done + 1)
          BY <1>1, <2>1, <2>2, <3>2
        <5> HIDE DEF done, m
        <5> QED BY <3>1, <4>1, <5>1, <5>2
      <4>3. offset' = m.masks[done + 1].from /\ m.masks[done + 1] \in Slices
        BY <1>1, <2>1, <2>2, <3>1, <3>2
      <4>4. Slice(offset', size') = m.masks[done + 1]
        BY <4>2, <4>3 DEF Slice, Slices
      <4> QED BY <1>0, <1>1, <2>1, <2>2, <3>1, <3>2, <4>4 DEF OnTrack
    <3> QED BY <2>1, <3>1, <3>2, StepTrack
  <2> QED BY <2>3, <2>4
<1>9. CASE Mask
  <2>1. /\ at = "mask"
        /\ buffer.damage = {} =>
               /\ extractor = "extract_quote_info" /\ m.type = "quote" /\ buffer.magic
               /\ left + done = Len(m.masks) /\ done + 1 \in 1 .. Len(m.masks)
               /\ \A i \in 1 .. done : selections[i] = m.masks[i]
               /\ Slice(offset, size) = m.masks[done + 1]
    BY <1>0, <1>1, <1>9 DEF Mask, OnTrack
  <2>2. buffer.damage = {} => Ends(m.masks[done + 1]) = offset + size
    BY <2>1 DEF Ends, Slice
  <2>3. CASE ~Fits(size)
    <3>1. Raise
      BY <1>9, <2>3 DEF Mask
    <3>2. buffer.damage = {} => ~Inside(Wanted(extractor, m))
      BY <1>w, <2>1, <2>2, <2>3 DEF Fits
    <3> QED BY <3>1, <3>2, RaiseTrack
  <2>4. CASE Fits(size)
    <3>1. /\ selections' = Append(selections, Slice(offset, size))
          /\ offset' = offset + size /\ left' = left - 1 /\ at' = "selection"
          /\ UNCHANGED <<buffer, extractor, size, result, read>>
      BY <1>9, <2>4 DEF Mask
    <3>2. /\ Len(selections') = done + 1 /\ selections'[done + 1] = Slice(offset, size)
          /\ \A i \in 1 .. done : selections'[i] = selections[i]
      <4>1. Slice(offset, size) \in Slices
        BY <1>0 DEF Slice, Slices
      <4> QED BY <1>0, <3>1, <4>1
    <3>3. ASSUME buffer.damage = {}
          PROVE  OnTrack'
      <4>1. \A i \in 1 .. done + 1 : i \in 1 .. done \/ i = done + 1
        BY <1>0
      <4>2. \A i \in 1 .. Len(selections') : selections'[i] = m.masks[i]
        BY <2>1, <3>2, <3>3, <4>1
      <4>3. offset' = SelectionAt(m, Len(selections') + 1)
        BY <1>1, <2>1, <2>2, <3>1, <3>2, <3>3
      <4>4. left' + Len(selections') = Len(m.masks)
        <5>1. left' = left - 1 /\ Len(selections') = done + 1 /\ left + done = Len(m.masks)
          BY <2>1, <3>1, <3>2, <3>3
        <5> HIDE DEF done, m
        <5> QED BY <1>0, <5>1
      <4> QED BY <1>0, <2>1, <3>1, <3>3, <4>2, <4>3, <4>4 DEF OnTrack
    <3> QED BY <2>1, <3>1, <3>3, StepTrack
  <2> QED BY <2>3, <2>4
<1>10. CASE SelectionsDone
  <2>1. /\ at = "selection" /\ left = 0 /\ at' = "digest"
        /\ UNCHANGED <<buffer, extractor, offset, size, left, selections, result, read>>
    BY <1>10 DEF SelectionsDone
  <2>2. ASSUME buffer.damage = {}
        PROVE  OnTrack'
    <3>1. /\ offset = SelectionAt(m, done + 1) /\ extractor = "extract_quote_info"
          /\ m.type = "quote" /\ buffer.magic
          /\ left + done = Len(m.masks)
          /\ \A i \in 1 .. done : selections[i] = m.masks[i]
      BY <1>0, <2>1, <2>2 DEF OnTrack
    <3>2. done = Len(m.masks)
      BY <1>0, <1>1, <2>1, <3>1
    <3>3. selections = m.masks
      <4>1. selections \in [1 .. done -> Slices] /\ m.masks \in [1 .. done -> Slices]
        BY <1>0, <1>1, <3>2
      <4>2. \A i \in 1 .. done : selections[i] = m.masks[i]
        BY <3>1
      <4>3. \A f, g \in [1 .. done -> Slices] : (\A i \in 1 .. done : f[i] = g[i]) => f = g
        OBVIOUS
      <4> QED BY <4>1, <4>2, <4>3, Zenon
    <3>4. offset = DigestAt(m)
      BY <1>1, <3>1, <3>2
    <3> QED BY <1>0, <2>1, <3>1, <3>3, <3>4 DEF OnTrack
  <2> QED BY <2>1, <2>2, StepTrack
<1>11. CASE PcrDigest
  <2>1. /\ at = "digest"
        /\ buffer.damage = {} => offset = DigestAt(m) /\ extractor = "extract_quote_info"
    BY <1>0, <1>11 DEF PcrDigest, OnTrack
  <2>2. CASE ~Fits(2)
    <3>1. Raise
      BY <1>11, <2>2 DEF PcrDigest
    <3>2. buffer.damage = {} => ~Inside(Wanted(extractor, m))
      BY <1>w, <2>1, <2>2 DEF Fits
    <3> QED BY <3>1, <3>2, RaiseTrack
  <2>3. CASE Fits(2)
    BY <1>11, <2>1, <2>3, FieldTrack DEF PcrDigest
  <2> QED BY <2>2, <2>3
<1>12. CASE Return
  <2>1. /\ at = "body"
        /\ buffer.damage = {} =>
               /\ Slice(offset, size) = Wanted(extractor, m) /\ buffer.magic
               /\ extractor = "extract_quote_info" => selections = m.masks
    BY <1>0, <1>12 DEF Return, OnTrack
  <2>2. Inside(Slice(offset, size)) <=> Fits(size)
    BY DEF Inside, Slice, Fits
  <2>3. CASE ~Fits(size)
    <3>1. Raise
      BY <1>12, <2>3 DEF Return
    <3> QED BY <2>1, <2>2, <2>3, <3>1, RaiseTrack
  <2>4. CASE Fits(size)
    <3>1. /\ result' = [outcome |-> "returned", slice |-> Slice(offset, size)] /\ at' = "idle"
          /\ UNCHANGED <<buffer, extractor, offset, size, left, selections, read>>
      BY <1>12, <2>4 DEF Return
    <3>2. OnTrack'
      BY <3>1 DEF OnTrack
    <3>3. ParsedIsEncoded'
      BY <2>1, <2>2, <2>4, <3>1 DEF ParsedIsEncoded, Inside
    <3> QED BY <3>1, <3>2, <3>3 DEF ParsingInv
  <2> QED BY <2>3, <2>4
<1> QED BY <1>2, <1>3, <1>4, <1>5, <1>6, <1>7, <1>8, <1>9, <1>10, <1>11, <1>12 DEF ParserStep

\* An extractor is called: it is for the type of the structure, or for any.
LEMMA ExtractTrack ==
    ASSUME NEW f, NEW b, Extract(f, b),
           f = "extract_certify_name" => b.message.type = "certify",
           f = "extract_quote_info" => b.message.type = "quote"
    PROVE  ParsingInv'
BY DEF Extract, ParsingInv, OnTrack, ParsedIsEncoded, NoResult

----
(* Reading PCRs *)

CallStates == [at : {"idle", "waiting", "startup", "pcrread", "cat", "done", "raised"},
               selection : SUBSET Pcrs, tries : 0 .. Retries, own : Blobs, output : Blobs,
               truth : Blobs, crossed : BOOLEAN]
TpmStates == [booted : BOOLEAN, started : BOOLEAN, pcr : PcrValues]

\* A TPM gives one value for each PCR of the selection.
LEMMA ConcatenationType ==
    ASSUME NEW pcr \in PcrValues, NEW selection \in SUBSET Pcrs
    PROVE  Concatenation(pcr, selection) \in Blobs
<1> DEFINE n == Cardinality(selection)
<1> DEFINE order == Ascending(selection)
<1>1. IsFiniteSet(selection) /\ selection \in SUBSET Nat /\ n <= Cardinality(Pcrs)
  BY ClientAssumption, FS_Subset
<1>2. n \in Nat /\ order \in [1 .. n -> selection]
  BY <1>1, AscendingType
<1>3. Cardinality(Pcrs) \in Nat
  BY ClientAssumption, FS_CardinalityType
<1> HIDE DEF order, n
<1>4. [i \in DOMAIN order |-> pcr[order[i]]] \in [1 .. n -> 0 .. MaxExtends]
  BY <1>2 DEF PcrValues
<1>5. n \in 0 .. Cardinality(Pcrs)
  BY <1>1, <1>2, <1>3 DEF n
<1> QED BY <1>4, <1>5 DEF Concatenation, Blobs, Readings, order

LEMMA NoBlob == None \in Blobs
BY DEF Blobs

\* One call takes a step, and the file stays what it is.
LEMMA OneCall ==
    ASSUME ClientPart, NEW c \in Clients, NEW new \in CallStates,
           calls' = [calls EXCEPT ![c] = new], UNCHANGED <<mode, file>>, tpm' \in TpmStates,
           ~new.crossed => /\ new.at \in {"idle", "done", "raised"} => new.output = new.truth
                           /\ new.at # "cat"
    PROVE  ClientPart'
<1>1. calls \in [Clients -> CallStates]
  BY DEF ClientPart, ClientTypeOK, CallStates
<1>2. calls' \in [Clients -> CallStates] /\ \A d \in Clients : calls'[d] = IF d = c THEN new ELSE calls[d]
  BY <1>1
<1>3. ClientTypeOK'
  BY <1>2 DEF ClientPart, ClientTypeOK, CallStates, TpmStates
<1>4. CallsTrue'
  <2> SUFFICES ASSUME NEW d \in Clients, ~calls'[d].crossed
               PROVE  /\ Free(d)' => calls'[d].output = calls'[d].truth
                      /\ calls'[d].at = "cat" =>
                             calls'[d].truth = IF Shared(d)' THEN file' ELSE calls'[d].own
    BY DEF CallsTrue
  <2>1. CASE d = c
    BY <1>2, <2>1 DEF Free
  <2>2. CASE d # c
    BY <1>2, <2>2 DEF ClientPart, CallsTrue, Free, Shared
  <2> QED BY <2>1, <2>2
<1> QED BY <1>3, <1>4 DEF ClientPart

\* The simulator or the platform moves: the calls know nothing of it.
LEMMA TpmMoves ==
    ASSUME ClientPart, UNCHANGED <<mode, file, calls>>, tpm' \in TpmStates
    PROVE  ClientPart'
BY DEF ClientPart, ClientTypeOK, CallsTrue, Free, Shared, TpmStates

LEMMA TpmTyped ==
    ASSUME ClientTypeOK
    PROVE  /\ tpm \in TpmStates /\ Started(tpm) \in TpmStates /\ Reset \in PcrValues
           /\ \A booted, started \in BOOLEAN :
                  [booted |-> booted, started |-> started, pcr |-> Reset] \in TpmStates
           /\ [tpm EXCEPT !.booted = TRUE] \in TpmStates
           /\ \A i \in Pcrs : tpm.pcr[i] < MaxExtends =>
                  [tpm EXCEPT !.pcr[i] = @ + 1] \in TpmStates
<1>1. tpm \in TpmStates
  BY DEF ClientTypeOK, TpmStates
<1>2. Reset \in PcrValues
  BY ClientAssumption DEF Reset, PcrValues
<1>3. ASSUME NEW i \in Pcrs, tpm.pcr[i] < MaxExtends
      PROVE  [tpm EXCEPT !.pcr[i] = @ + 1] \in TpmStates
  <2> DEFINE pcr == [tpm.pcr EXCEPT ![i] = tpm.pcr[i] + 1]
  <2>1. tpm.pcr \in [Pcrs -> 0 .. MaxExtends]
    BY <1>1 DEF TpmStates, PcrValues
  <2>2. tpm.pcr[i] + 1 \in 0 .. MaxExtends
    BY <1>3, <2>1, ClientAssumption
  <2>3. pcr \in PcrValues
    BY <2>1, <2>2 DEF PcrValues
  <2>4. [tpm EXCEPT !.pcr[i] = @ + 1] = [tpm EXCEPT !.pcr = pcr]
    OBVIOUS
  <2> HIDE DEF pcr
  <2> QED BY <1>1, <2>3, <2>4 DEF TpmStates
<1> QED BY <1>1, <1>2, <1>3 DEF TpmStates, Started

\* Every step of a client or of the simulator.  A blob that is written to the shared file
\* crosses all calls that have written theirs and not yet read it.
LEMMA ReadPcrsInv ==
    ASSUME ClientPart, NEW c \in Clients, ReadPcrs(c)
    PROVE  ClientPart'
<1> DEFINE blob == Concatenation(tpm.pcr, calls[c].selection)
<1>1. /\ calls \in [Clients -> CallStates] /\ tpm \in TpmStates /\ mode \in {"run", "exec"}
      /\ file \in Blobs /\ calls[c].at = "pcrread" /\ UNCHANGED <<tpm, mode>>
  BY DEF ClientPart, ClientTypeOK, CallStates, TpmStates, ReadPcrs
<1>2. blob \in Blobs
  <2>1. tpm.pcr \in PcrValues /\ calls[c].selection \in SUBSET Pcrs
    BY <1>1 DEF CallStates, TpmStates
  <2> QED BY <2>1, ConcatenationType
<1>3. CASE ~tpm.started
  <2> DEFINE new == [Idle EXCEPT !.at = "raised"]
  <2>1. calls' = [calls EXCEPT ![c] = new] /\ UNCHANGED file
    BY <1>3 DEF ReadPcrs
  <2>2. /\ {} \in SUBSET Pcrs /\ 0 \in 0 .. Retries
    BY ClientAssumption
  <2>3. new \in CallStates /\ new.at = "raised" /\ new.output = new.truth
    BY <2>2, NoBlob DEF Idle, CallStates
  <2> HIDE DEF new
  <2> QED BY <1>1, <2>1, <2>3, OneCall
<1>4. CASE tpm.started
  <2> DEFINE new == [calls[c] EXCEPT !.at = "cat", !.truth = blob,
                                     !.own = IF Shared(c) THEN None ELSE blob]
  <2>1. /\ file' = IF Shared(c) THEN blob ELSE file
        /\ calls' = [d \in Clients |->
               IF d = c THEN new
               ELSE IF calls[d].at = "cat" /\ mode = "exec"
               THEN [calls[d] EXCEPT !.crossed = TRUE]
               ELSE calls[d]]
    BY <1>4 DEF ReadPcrs
  <2>2. calls[c] \in CallStates /\ None \in Blobs
    BY <1>1, NoBlob
  <2> HIDE DEF blob
  <2>3. /\ new \in CallStates /\ new.at = "cat" /\ new.truth = blob
        /\ new.own = IF Shared(c) THEN None ELSE blob
    BY <1>2, <2>2 DEF CallStates
  <2> HIDE DEF new
  <2>4. ASSUME NEW d \in Clients
        PROVE  /\ [calls[d] EXCEPT !.crossed = TRUE] \in CallStates
               /\ [calls[d] EXCEPT !.crossed = TRUE].crossed
    BY <1>1 DEF CallStates
  <2>5. calls' \in [Clients -> CallStates]
    BY <1>1, <2>1, <2>3, <2>4
  <2>6. file' \in Blobs
    BY <1>1, <1>2, <2>1
  <2>7. ClientTypeOK'
    BY <1>1, <2>5, <2>6 DEF ClientTypeOK, CallStates, TpmStates
  <2>8. CallsTrue'
    <3> SUFFICES ASSUME NEW d \in Clients, ~calls'[d].crossed
                 PROVE  /\ Free(d)' => calls'[d].output = calls'[d].truth
                        /\ calls'[d].at = "cat" =>
                               calls'[d].truth = IF Shared(d)' THEN file' ELSE calls'[d].own
      BY DEF CallsTrue
    <3>1. CASE d = c
      BY <1>1, <2>1, <2>3, <3>1 DEF Free, Shared
    <3>2. CASE d # c
      <4>1. calls'[d] = calls[d] /\ ~(calls[d].at = "cat" /\ mode = "exec")
        BY <2>1, <2>4, <3>2
      <4>2. /\ Free(d) => calls[d].output = calls[d].truth
            /\ calls[d].at = "cat" =>
                   calls[d].truth = IF Shared(d) THEN file ELSE calls[d].own
        BY <4>1 DEF ClientPart, CallsTrue
      <4> QED BY <1>1, <2>1, <4>1, <4>2 DEF Free, Shared
    <3> QED BY <3>1, <3>2
  <2> QED BY <2>7, <2>8 DEF ClientPart
<1> QED BY <1>3, <1>4

LEMMA ClientNextInv ==
    ASSUME ClientPart, ClientNext
    PROVE  ClientPart'
<1>0. /\ calls \in [Clients -> CallStates] /\ tpm \in TpmStates /\ ClientTypeOK
      /\ {} \in SUBSET Pcrs /\ 0 \in 0 .. Retries /\ Retries \in 0 .. Retries /\ Retries \in Nat
  BY ClientAssumption DEF ClientPart, ClientTypeOK, CallStates, TpmStates
<1>e. ASSUME NEW c \in Clients, NEW state \in {"idle", "done", "raised"},
             calls' = [calls EXCEPT ![c] = [Idle EXCEPT !.at = state]],
             UNCHANGED <<mode, file>>, tpm' \in TpmStates
      PROVE  ClientPart'
  <2> DEFINE new == [Idle EXCEPT !.at = state]
  <2>1. new \in CallStates /\ new.at = state /\ new.output = new.truth
    BY <1>0, <1>e, NoBlob DEF Idle, CallStates
  <2> HIDE DEF new
  <2>2. calls' = [calls EXCEPT ![c] = new]
    BY <1>e DEF new
  <2> QED BY <1>e, <2>1, <2>2, OneCall
<1>b. ASSUME NEW c \in Clients, NEW state \in {"startup", "pcrread"},
             NEW selection \in SUBSET Pcrs,
             calls' = [calls EXCEPT ![c] = [Idle EXCEPT !.at = state, !.selection = selection]],
             UNCHANGED <<tpm, mode, file>>
      PROVE  ClientPart'
  <2> DEFINE new == [Idle EXCEPT !.at = state, !.selection = selection]
  <2>1. new \in CallStates /\ new.at = state
    BY <1>0, <1>b, NoBlob DEF Idle, CallStates
  <2> HIDE DEF new
  <2>2. calls' = [calls EXCEPT ![c] = new]
    BY <1>b DEF new
  <2> QED BY <1>0, <1>b, <2>1, <2>2, OneCall
<1>1. CASE Boot \/ Restart
  <2>1. tpm' \in TpmStates
    BY <1>0, <1>1, TpmTyped DEF Boot, Restart
  <2> QED BY <1>1, <2>1, TpmMoves DEF Boot, Restart
<1>2. ASSUME NEW c \in Clients, StartupClear(c)
      PROVE  ClientPart'
  <2> DEFINE new == [Idle EXCEPT !.at = "waiting", !.tries = Retries]
  <2>1. new \in CallStates /\ new.at = "waiting"
    BY <1>0, NoBlob DEF Idle, CallStates
  <2>2. calls' = [calls EXCEPT ![c] = new] /\ UNCHANGED <<tpm, mode, file>>
    BY <1>2 DEF StartupClear
  <2> HIDE DEF new
  <2> QED BY <1>0, <2>1, <2>2, OneCall
<1>3. ASSUME NEW c \in Clients, StartupRound(c)
      PROVE  ClientPart'
  <2>1. tpm' \in TpmStates /\ calls[c].at = "waiting" /\ UNCHANGED <<mode, file>>
    BY <1>0, <1>3, TpmTyped DEF StartupRound
  <2>2. CASE tpm.booted \/ ~(calls[c].tries > 1)
    <3>1. PICK state \in {"done", "raised"} :
              calls' = [calls EXCEPT ![c] = [Idle EXCEPT !.at = state]]
      BY <1>3, <2>2 DEF StartupRound
    <3> QED BY <1>0, <1>e, <2>1, <3>1
  <2>3. CASE ~tpm.booted /\ calls[c].tries > 1
    <3> DEFINE new == [calls[c] EXCEPT !.tries = calls[c].tries - 1]
    <3>1. calls' = [calls EXCEPT ![c] = new]
      BY <1>3, <2>3 DEF StartupRound
    <3>2. calls[c].tries \in 0 .. Retries
      BY <1>0 DEF CallStates
    <3>3. calls[c].tries - 1 \in 0 .. Retries
      BY <1>0, <2>3, <3>2
    <3>4. new \in CallStates /\ new.at = "waiting"
      BY <1>0, <2>1, <3>3 DEF CallStates
    <3> HIDE DEF new
    <3> QED BY <2>1, <3>1, <3>4, OneCall
  <2> QED BY <2>2, <2>3
<1>4. ASSUME NEW c \in Clients, NEW selection \in SUBSET Pcrs, PcrRead(c, selection)
      PROVE  ClientPart'
  <2>1. PICK state \in {"startup", "pcrread"} :
            calls' = [calls EXCEPT ![c] = [Idle EXCEPT !.at = state, !.selection = selection]]
    BY <1>4 DEF PcrRead
  <2>2. UNCHANGED <<tpm, mode, file>>
    BY <1>4 DEF PcrRead
  <2> QED BY <1>0, <1>b, <2>1, <2>2
<1>5. ASSUME NEW c \in Clients, StartupFirst(c)
      PROVE  ClientPart'
  <2> DEFINE new == [calls[c] EXCEPT !.at = "pcrread"]
  <2>1. tpm' \in TpmStates /\ calls' = [calls EXCEPT ![c] = new] /\ UNCHANGED <<mode, file>>
    BY <1>0, <1>5, TpmTyped DEF StartupFirst
  <2>2. new \in CallStates /\ new.at = "pcrread"
    BY <1>0 DEF CallStates
  <2> HIDE DEF new
  <2> QED BY <2>1, <2>2, OneCall
<1>6. ASSUME NEW c \in Clients, Cat(c)
      PROVE  ClientPart'
  <2> DEFINE out == IF Shared(c) THEN file ELSE calls[c].own
  <2> DEFINE new == [calls[c] EXCEPT !.at = "done", !.own = None, !.output = out]
  <2>1. /\ calls[c].at = "cat" /\ calls' = [calls EXCEPT ![c] = new]
        /\ UNCHANGED <<tpm, mode, file>>
    BY <1>0, <1>6 DEF Cat
  <2>2. out \in Blobs /\ None \in Blobs /\ calls[c] \in CallStates
    <3>1. calls[c] \in CallStates /\ file \in Blobs
      BY <1>0 DEF ClientTypeOK
    <3> QED BY <3>1, NoBlob DEF CallStates
  <2>3. ~calls[c].crossed => calls[c].truth = out
    BY <2>1 DEF ClientPart, CallsTrue
  <2> HIDE DEF out
  <2>4. /\ new \in CallStates /\ new.at = "done" /\ new.output = out
        /\ new.truth = calls[c].truth /\ new.crossed = calls[c].crossed
    BY <2>2 DEF CallStates
  <2> HIDE DEF new
  <2> QED BY <1>0, <2>1, <2>3, <2>4, OneCall
<1>7. ASSUME NEW c \in Clients, CallRaises(c)
      PROVE  ClientPart'
  BY <1>0, <1>7, <1>e DEF CallRaises
<1>8. ASSUME NEW c \in Clients, NEW i \in Pcrs, PcrExtend(c, i)
      PROVE  ClientPart'
  <2>1. tpm' \in TpmStates
    <3>1. /\ [tpm EXCEPT !.pcr[i] = @ + 1] \in TpmStates /\ tpm \in TpmStates
      BY <1>0, <1>8, TpmTyped DEF PcrExtend
    <3>2. tpm' = [tpm EXCEPT !.pcr[i] = @ + 1] \/ tpm' = tpm
      BY <1>8 DEF PcrExtend
    <3> QED BY <3>1, <3>2
  <2>2. PICK state \in {"done", "raised"} :
            calls' = [calls EXCEPT ![c] = [Idle EXCEPT !.at = state]]
    BY <1>8 DEF PcrExtend
  <2>3. UNCHANGED <<mode, file>>
    BY <1>8 DEF PcrExtend
  <2> QED BY <1>0, <1>e, <2>1, <2>2, <2>3
<1> QED BY <1>1, <1>2, <1>3, <1>4, <1>5, <1>6, <1>7, <1>8, ReadPcrsInv DEF ClientNext

----
(* From the offer to the selection *)

LEMMA AgreeInv ==
    ASSUME OfferPart, Agree
    PROVE  OfferPart'
<1>1. /\ offer # NoOffer /\ agreed' = extract_pcr_selection(offer.params, "tpm")
      /\ UNCHANGED offer /\ OfferMade
  BY DEF Agree, OfferPart
<1>2. Pcrs = Indices
  BY SelectionAssumption DEF Indices
<1>3. /\ offer.by \in {"library", "other"} /\ offer.pcrs \in Lists \cup {Absent}
      /\ offer.by = "library" => \E hashAlgId \in HashAlgs \cup {Absent} :
             offer.params = Library(encode_tpm_attestation_params(offer.pcrs, hashAlgId))
      /\ offer.by = "other" => \E value \in Wire : offer.params = Other(value)
  BY <1>1 DEF OfferMade
<1>4. offer.pcrs \in Seq(Int \cup {NotInt}) \cup {Absent}
  BY <1>3, SelectionAssumption
<1>5. OfferMade'
  BY <1>1 DEF OfferMade, Library, Other
<1>6. offer'.by \in {"library", "other"} /\ offer'.pcrs \in Lists \cup {<<>>, Absent}
  BY <1>1, <1>3
<1>7. CASE offer.by = "library"
  <2>0. PICK hashAlgId \in HashAlgs \cup {Absent} :
            offer.params = Library(encode_tpm_attestation_params(offer.pcrs, hashAlgId))
    BY <1>3, <1>7
  <2> DEFINE params == encode_tpm_attestation_params(offer.pcrs, hashAlgId)
  <2>1. offer.params = Library(params) /\ hashAlgId \in Int \cup {NotInt, Absent}
    BY <2>0, SelectionAssumption
  <2>2. CASE params = ValueError
    <3>1. offer.params = <<>> /\ agreed' = Absent
      BY <1>1, <2>1, <2>2, Extracted DEF Library
    <3>2. Selected' = Pcrs
      BY <3>1 DEF Selected
    <3> QED BY <1>1, <1>5, <1>6, <3>1, <3>2, IndexAssumption
            DEF OfferPart, OfferTyped, Agreement, SelectionIsWanted
  <2>3. CASE params # ValueError
    <3>1. /\ params \in Params /\ decode_tpm_attestation_params(params) = params
          /\ offer.pcrs = Absent => params.pcrs = Absent
          /\ offer.pcrs # Absent => /\ ToSet(offer.pcrs) \subseteq Indices
                                    /\ params.pcrs = Ascending(ToSet(offer.pcrs))
                                    /\ ToSet(params.pcrs) = ToSet(offer.pcrs)
                                    /\ params.pcrs # Absent
      BY <1>4, <2>1, <2>3, EncodeTakes
    <3>2. agreed' = params
      BY <1>1, <2>1, <2>3, <3>1, Extracted
    <3> HIDE DEF params
    <3>3. agreed' # Absent /\ agreed' # ValueError
      BY <3>1, <3>2, IndexAssumption
    <3>4. /\ offer.pcrs = Absent => Selected' = Pcrs
          /\ offer.pcrs # Absent => Selected' = ToSet(offer.pcrs)
          /\ Selected' \subseteq Pcrs
      BY <1>2, <3>1, <3>2, <3>3 DEF Selected
    <3>5. agreed'.pcrs \in Lists \cup {Absent} \cup {Ascending(S) : S \in SUBSET Pcrs}
      BY <1>2, <3>1, <3>2
    <3> QED BY <1>1, <1>5, <1>6, <3>3, <3>4, <3>5
            DEF OfferPart, OfferTyped, Agreement, SelectionIsWanted
  <2> QED BY <2>2, <2>3
<1>8. CASE offer.by = "other"
  <2>1. PICK params \in Wire : offer.params = Other(params)
    BY <1>3, <1>8
  <2>2. agreed' = decode_tpm_attestation_params(params)
    BY <1>1, <2>1, Extracted
  <2>3. CASE params = Malformed
    <3>1. agreed' = ValueError
      BY <2>2, <2>3 DEF decode_tpm_attestation_params
    <3> QED BY <1>1, <1>5, <1>6, <1>8, <3>1
            DEF OfferPart, OfferTyped, Agreement, SelectionIsWanted
  <2>4. CASE agreed' = ValueError
    BY <1>1, <1>5, <1>6, <1>8, <2>4 DEF OfferPart, OfferTyped, Agreement, SelectionIsWanted
  <2>5. CASE params # Malformed /\ agreed' # ValueError
    <3>0. params \in Params /\ params.pcrs \in Lists \cup {Absent}
      BY <2>1, <2>5 DEF Wire
    <3>1. /\ agreed' = params
          /\ params.pcrs # Absent => ToSet(params.pcrs) \subseteq Indices
      BY <2>2, <2>5, <3>0, DecodeTakes
    <3>2. agreed' # Absent
      BY <3>0, <3>1, IndexAssumption
    <3>3. Selected' \subseteq Pcrs
      BY <1>2, <3>1, <3>2 DEF Selected
    <3>4. agreed'.pcrs \in Lists \cup {Absent}
      BY <3>0, <3>1
    <3> QED BY <1>1, <1>5, <1>6, <1>8, <3>3, <3>4
            DEF OfferPart, OfferTyped, Agreement, SelectionIsWanted
  <2> QED BY <2>3, <2>4, <2>5
<1> QED BY <1>3, <1>7, <1>8

\* A CA's offer, or none: nothing is agreed upon yet.
LEMMA NothingAgreed ==
    ASSUME agreed' = None, OfferMade', offer'.by \in {"none", "library", "other"},
           offer'.pcrs \in Lists \cup {<<>>, Absent}
    PROVE  OfferPart'
BY DEF OfferPart, OfferTyped, Agreement, SelectionIsWanted

LEMMA OfferInv ==
    ASSUME OfferPart,
           \/ \E pcrs \in Lists \cup {Absent}, hashAlgId \in HashAlgs \cup {Absent} :
                 Offer(pcrs, hashAlgId)
           \/ \E value \in Wire : OtherOffer(value)
    PROVE  OfferPart'
<1>1. agreed = None /\ UNCHANGED agreed
  BY DEF OfferPart, Agreement, Offer, OtherOffer
<1>2. ASSUME NEW pcrs \in Lists \cup {Absent}, NEW hashAlgId \in HashAlgs \cup {Absent},
             Offer(pcrs, hashAlgId)
      PROVE  OfferPart'
  <2>1. offer' = [by |-> "library", pcrs |-> pcrs,
                  params |-> Library(encode_tpm_attestation_params(pcrs, hashAlgId))]
    BY <1>2 DEF Offer, Library
  <2>2. /\ offer'.by = "library" /\ offer'.pcrs = pcrs
        /\ offer'.params = Library(encode_tpm_attestation_params(pcrs, hashAlgId))
    BY <2>1
  <2>3. OfferMade'
    BY <2>2 DEF OfferMade, Library
  <2> QED BY <1>1, <2>2, <2>3, NothingAgreed
<1>3. ASSUME NEW value \in Wire, OtherOffer(value)
      PROVE  OfferPart'
  <2>1. offer' = [by |-> "other", pcrs |-> Absent, params |-> Other(value)]
    BY <1>3 DEF OtherOffer, Other
  <2>2. /\ offer'.by = "other" /\ offer'.pcrs = Absent
        /\ offer'.params = Other(value)
    BY <2>1
  <2>3. OfferMade'
    BY <2>2 DEF OfferMade, Other
  <2> QED BY <1>1, <2>2, <2>3, NothingAgreed
<1> QED BY <1>2, <1>3

----
(* Every part, at every step *)

\* What a step leaves alone stays as it is.
LEMMA ParserRests == ParserPart /\ UNCHANGED parserVars => ParserPart'
BY DEF ParserPart, ParserInv, ParserTypeOK, ReadsInBounds, Position, Inside, ParsingInv, OnTrack,
       ParsedIsEncoded, parserVars

LEMMA ClientRests == ClientPart /\ UNCHANGED clientVars => ClientPart'
BY DEF ClientPart, ClientTypeOK, CallsTrue, Free, Shared, clientVars

LEMMA OfferRests == OfferPart /\ UNCHANGED <<offer, agreed>> => OfferPart'
BY DEF OfferPart, OfferTyped, OfferMade, Agreement, SelectionIsWanted, Selected

\* Without a verdict there is nothing that it could be wrong about.
LEMMA NoVerdict ==
    ASSUME verdict' = "none", AppraisalTyped', Phases', ReferenceTrue'
    PROVE  AppraisalPart'
BY DEF AppraisalPart, AffirmedMatchesReference

\* Nothing the appraisal is about changes, but perhaps the offer while there is no quote.
LEMMA AppraisalRests ==
    ASSUME AppraisalPart, UNCHANGED <<phase, reference, quote, verdict>>,
           phase # "appraise" => UNCHANGED <<offer, agreed>>,
           quote # NoQuote => UNCHANGED <<buffer, extractor, at, result>>
    PROVE  AppraisalPart'
<1>1. AppraisalTyped' /\ ReferenceTrue' /\ AffirmedMatchesReference'
  BY DEF AppraisalPart, AppraisalTyped, ReferenceTrue, AffirmedMatchesReference
<1>2. Phases'
  BY DEF AppraisalPart, Phases
<1> QED BY <1>1, <1>2 DEF AppraisalPart

\* A quote is judged by what the parser made of it.
LEMMA VerifyTokenInv ==
    ASSUME ParserPart, AppraisalPart, NEW mediaType, VerifyToken(mediaType)
    PROVE  AppraisalPart'
<1> DEFINE m == quote.buffer.message
<1> DEFINE wanted == Wanted("extract_quote_info", m)
<1>1. /\ quote # NoQuote /\ at = "idle" /\ verdict = "none"
      /\ UNCHANGED <<parserVars, phase, offer, agreed, reference, quote>>
      /\ verdict' = IF mediaType # "application/octet-stream" THEN "unknown"
                    ELSE IF result.outcome = "returned" /\ verify_pcr_quote THEN "affirming"
                    ELSE "contraindicated"
  BY DEF VerifyToken
<1>2. /\ quote.buffer \in Buffers /\ m.type = "quote"
      /\ buffer = quote.buffer /\ extractor = "extract_quote_info" /\ result.outcome # "none"
  BY <1>1 DEF AppraisalPart, Phases
<1>3. AppraisalTyped' /\ Phases' /\ ReferenceTrue'
  BY <1>1 DEF AppraisalPart, AppraisalTyped, Phases, ReferenceTrue, parserVars
<1>4. reference.clean => reference.expected = reference.truth
  BY DEF AppraisalPart, ReferenceTrue
<1>5. ASSUME verdict' = "affirming", reference.clean
      PROVE  reference.truth # None /\ quote.values = reference.truth
  BY <1>1, <1>4, <1>5 DEF verify_pcr_quote, Quoted
<1>6. ASSUME quote.buffer.magic, quote.buffer.len = FullLength(m), quote.buffer.damage = {},
             reference.clean, reference.truth # None, quote.values = reference.truth,
             mediaType = "application/octet-stream"
      PROVE  verdict' = "affirming"
  <2>1. Inside(wanted)
    <3>1. FullLength(m) = DigestAt(m) + 2 + m.digest
      BY <1>2 DEF FullLength
    <3>2. wanted.from = DigestAt(m) + 2 /\ wanted.size = m.digest
      <4> HIDE DEF m
      <4>1. wanted = Slice(DigestAt(m) + 2, m.digest)
        BY WantedAt
      <4> HIDE DEF wanted
      <4> QED BY <4>1 DEF Slice
    <3>3. buffer.len = FullLength(m)
      BY <1>2, <1>6
    <3>4. DigestAt(m) \in Nat /\ m.digest \in Nat
      BY <1>2, Layout
    <3> HIDE DEF wanted, m
    <3> QED BY <3>1, <3>2, <3>3, <3>4 DEF Inside
  <2>2. ParsedIsEncoded
    BY DEF ParserPart, ParsingInv
  <2>3. result = [outcome |-> "returned", slice |-> wanted]
    BY <1>2, <1>6, <2>1, <2>2 DEF ParsedIsEncoded
  <2>4. result.outcome = "returned" /\ result.slice = wanted
    BY <2>3
  <2>5. Quoted = quote.values
    BY <2>4 DEF Quoted
  <2> QED BY <1>1, <1>4, <1>6, <2>4, <2>5 DEF verify_pcr_quote
<1>7. verdict' = "unknown" \/ mediaType = "application/octet-stream"
  BY <1>1
<1>8. UNCHANGED <<quote, reference>>
  BY <1>1
<1>9. AffirmedMatchesReference'
  BY <1>5, <1>6, <1>7, <1>8 DEF AffirmedMatchesReference
<1> QED BY <1>3, <1>9 DEF AppraisalPart

\* The TPM quotes what was agreed upon, and the parser starts on the buffer.
LEMMA QuoteInv ==
    ASSUME IInv, NEW b \in Buffers, Quote(b)
    PROVE  IInv'
<1>1. /\ quote = NoQuote /\ agreed \notin {None, ValueError} /\ b.message.type = "quote"
      /\ quote' = [values |-> Concatenation(tpm.pcr, Selected), buffer |-> b]
      /\ Extract("extract_quote_info", b) /\ offer' = NoOffer /\ agreed' = None
      /\ UNCHANGED <<clientVars, phase, reference, verdict>>
  BY DEF Quote
<1>2. ParserPart'
  BY <1>1, ExtractInv, ExtractTrack DEF IInv, ParserPart, Extractors
<1>3. ClientPart'
  BY <1>1, ClientRests DEF IInv
<1>4. OfferPart'
  <2>1. OfferMade' /\ offer'.by = "none" /\ offer'.pcrs = <<>>
    BY <1>1 DEF OfferMade, NoOffer
  <2> QED BY <1>1, <2>1, NothingAgreed
<1>5. AppraisalPart'
  <2>1. Selected \subseteq Pcrs
    BY <1>1 DEF IInv, OfferPart, Agreement
  <2>2. tpm.pcr \in PcrValues
    BY DEF IInv, ClientPart, ClientTypeOK
  <2>3. quote'.values \in Blobs /\ quote'.buffer = b
    BY <1>1, <2>1, <2>2, ConcatenationType
  <2>4. phase = "appraise" /\ verdict = "none"
    BY <1>1 DEF IInv, AppraisalPart, Phases
  <2>5. AppraisalTyped' /\ ReferenceTrue'
    BY <1>1, <2>3 DEF IInv, AppraisalPart, AppraisalTyped, ReferenceTrue
  <2>6. buffer' = b /\ extractor' = "extract_quote_info" /\ at' = "header"
    BY <1>1 DEF Extract
  <2>7. Phases'
    BY <1>1, <2>3, <2>4, <2>6 DEF Phases
  <2> QED BY <1>1, <2>4, <2>5, <2>7, NoVerdict
<1> QED BY <1>2, <1>3, <1>4, <1>5 DEF IInv

\* A captured value is the reference, if the capture was not disturbed the true one.
LEMMA LoadReferenceInv ==
    ASSUME IInv, NEW c \in Clients, LoadReference(c)
    PROVE  IInv'
<1> DEFINE captured == [expected |-> calls[c].output, truth |-> calls[c].truth,
                        clean |-> ~calls[c].crossed]
<1>1. /\ phase = "capture" /\ Free(c) /\ reference' \in {NoReference} \cup {captured}
      /\ phase' = "appraise" /\ calls' = [d \in Clients |-> Idle] /\ file' = None
      /\ UNCHANGED <<parserVars, tpm, mode, offer, agreed, quote, verdict>>
  BY DEF LoadReference
<1>2. ParserPart' /\ OfferPart'
  BY <1>1, ParserRests, OfferRests DEF IInv
<1>3. ClientPart'
  <2>1. 0 \in 0 .. Retries
    BY ClientAssumption
  <2>2. Idle \in CallStates /\ Idle.at = "idle" /\ Idle.output = Idle.truth
    BY <2>1, NoBlob DEF Idle, CallStates
  <2>3. calls' \in [Clients -> CallStates] /\ \A d \in Clients : calls'[d] = Idle
    BY <1>1, <2>2
  <2>4. ClientTypeOK'
    BY <1>1, <2>3, NoBlob DEF IInv, ClientPart, ClientTypeOK, CallStates
  <2>5. CallsTrue'
    BY <2>2, <2>3 DEF CallsTrue
  <2> QED BY <2>4, <2>5 DEF ClientPart
<1>4. AppraisalPart'
  <2>1. /\ calls[c].output \in Blobs /\ calls[c].truth \in Blobs /\ calls[c].crossed \in BOOLEAN
        /\ ~calls[c].crossed => calls[c].output = calls[c].truth
    BY <1>1 DEF IInv, ClientPart, ClientTypeOK, CallsTrue
  <2>2. /\ reference' \in [expected : Blobs, truth : Blobs, clean : BOOLEAN]
        /\ reference'.clean => reference'.expected = reference'.truth
    <3>1. CASE reference' = NoReference
      BY <3>1, NoBlob DEF NoReference
    <3>2. CASE reference' = captured
      BY <2>1, <3>2
    <3> QED BY <1>1, <3>1, <3>2
  <2>3. quote = NoQuote /\ verdict = "none"
    BY <1>1 DEF IInv, AppraisalPart, Phases
  <2>4. AppraisalTyped' /\ ReferenceTrue'
    BY <1>1, <2>2 DEF IInv, AppraisalPart, AppraisalTyped, ReferenceTrue
  <2>5. Phases'
    BY <1>1, <2>3 DEF Phases
  <2> QED BY <1>1, <2>3, <2>4, <2>5, NoVerdict
<1> QED BY <1>2, <1>3, <1>4 DEF IInv

----
(* The results *)

LEMMA Initially == Init => IInv
<1> SUFFICES ASSUME Init PROVE IInv
  OBVIOUS
<1>1. /\ offer = NoOffer /\ agreed = None /\ reference = NoReference /\ quote = NoQuote
      /\ verdict = "none" /\ phase \in {"examine", "capture"} /\ ParserInit /\ ClientInit
  BY DEF Init
<1>2. ParserPart
  <2>1. at = "idle" /\ result.outcome = "none"
    BY <1>1 DEF ParserInit, NoResult
  <2>2. ParsingInv
    BY <2>1 DEF ParsingInv, OnTrack, ParsedIsEncoded
  <2> QED BY <1>1, <2>2, ParserInitially DEF ParserPart
<1>3. ClientPart
  <2>1. 0 \in 0 .. Retries /\ 0 \in 0 .. MaxExtends
    BY ClientAssumption
  <2>2. /\ Idle \in CallStates /\ Idle.at = "idle" /\ Idle.output = Idle.truth
        /\ Reset \in PcrValues
    BY <2>1, NoBlob DEF Idle, CallStates, Reset, PcrValues
  <2>3. calls \in [Clients -> CallStates] /\ \A d \in Clients : calls[d] = Idle
    BY <1>1, <2>2 DEF ClientInit
  <2>4. ClientTypeOK
    BY <1>1, <2>2, <2>3, NoBlob DEF ClientInit, ClientTypeOK, CallStates
  <2>5. CallsTrue
    BY <2>2, <2>3 DEF CallsTrue
  <2> QED BY <2>4, <2>5 DEF ClientPart
<1>4. OfferPart
  <2>1. offer.by = "none" /\ offer.pcrs = <<>>
    BY <1>1 DEF NoOffer
  <2> QED BY <1>1, <2>1
          DEF OfferPart, OfferTyped, OfferMade, Agreement, SelectionIsWanted
<1>5. AppraisalPart
  BY <1>1, NoBlob
  DEF AppraisalPart, AppraisalTyped, Phases, ReferenceTrue, AffirmedMatchesReference,
      NoReference, NoQuote
<1> QED BY <1>2, <1>3, <1>4, <1>5 DEF IInv

LEMMA Inductive == IInv /\ [Next]_vars => IInv'
<1> SUFFICES ASSUME IInv, [Next]_vars PROVE IInv'
  OBVIOUS
<1>0. ParserPart /\ ClientPart /\ OfferPart /\ AppraisalPart
  BY DEF IInv
<1>q. /\ phase # "appraise" => quote = NoQuote
      /\ verdict # "none" => quote # NoQuote
  BY <1>0 DEF AppraisalPart, Phases
<1>1. ASSUME NEW b \in Buffers, NEW f \in Extractors, Examine(b, f)
      PROVE  IInv'
  <2>1. /\ phase = "examine" /\ Extract(f, b)
        /\ f = "extract_qualifying_data"
           \/ (f = "extract_certify_name") = (b.message.type = "certify")
        /\ UNCHANGED <<clientVars, phase, offer, agreed, reference, quote, verdict>>
    BY <1>1 DEF Examine
  <2>2. b.message.type \in {"quote", "certify"}
    BY StructureAssumption
  <2>3. ParserPart'
    BY <1>0, <2>1, <2>2, ExtractInv, ExtractTrack DEF ParserPart
  <2>4. AppraisalPart'
    BY <1>0, <1>q, <2>1, AppraisalRests
  <2> QED BY <1>0, <2>1, <2>3, <2>4, ClientRests, OfferRests DEF IInv
<1>2. ASSUME Parse
      PROVE  IInv'
  <2>1. ParserStep /\ UNCHANGED <<clientVars, phase, offer, agreed, reference, quote, verdict>>
    BY <1>2 DEF Parse
  <2>2. ParserPart'
    BY <1>0, <2>1, StepInv, TrackStep DEF ParserPart
  <2>3. UNCHANGED <<buffer, extractor>> /\ (at' = "idle" => result'.outcome # "none")
    BY <2>1
    DEF ParserStep, Header, QualifiedSigner, ExtraData, AfterExtraData, Attested, CertifyName,
        Count, Selection, Mask, SelectionsDone, PcrDigest, Return, Raise, Skip, Field
  <2>4. AppraisalTyped' /\ ReferenceTrue' /\ AffirmedMatchesReference'
    BY <1>0, <2>1
    DEF AppraisalPart, AppraisalTyped, ReferenceTrue, AffirmedMatchesReference
  <2>5. Phases'
    BY <1>0, <2>1, <2>3 DEF AppraisalPart, Phases
  <2>6. AppraisalPart'
    BY <2>4, <2>5 DEF AppraisalPart
  <2> QED BY <1>0, <2>1, <2>2, <2>6, ClientRests, OfferRests DEF IInv
<1>3. ASSUME \/ \E pcrs \in Lists \cup {Absent}, hashAlgId \in HashAlgs \cup {Absent} :
                   Offer(pcrs, hashAlgId)
             \/ \E value \in Wire : OtherOffer(value)
      PROVE  IInv'
  <2>1. /\ phase = "appraise"
        /\ UNCHANGED <<parserVars, clientVars, phase, agreed, reference, quote, verdict>>
    BY <1>3 DEF Offer, OtherOffer
  <2>2. AppraisalPart'
    BY <1>0, <2>1, AppraisalRests DEF parserVars
  <2> QED BY <1>0, <1>3, <2>1, <2>2, OfferInv, ParserRests, ClientRests DEF IInv
<1>4. ASSUME Agree
      PROVE  IInv'
  <2>1. /\ UNCHANGED <<parserVars, clientVars, phase, offer, reference, quote, verdict>>
        /\ offer # NoOffer
    BY <1>4 DEF Agree
  <2>2. phase = "appraise"
    BY <1>0, <2>1 DEF AppraisalPart, Phases
  <2>3. AppraisalPart'
    BY <1>0, <2>1, <2>2, AppraisalRests DEF parserVars
  <2> QED BY <1>0, <1>4, <2>1, <2>3, AgreeInv, ParserRests, ClientRests DEF IInv
<1>5. ASSUME ClientStep
      PROVE  IInv'
  <2>1. /\ ClientNext
        /\ UNCHANGED <<parserVars, phase, offer, agreed, reference, quote, verdict>>
    BY <1>5 DEF ClientStep
  <2>2. AppraisalPart'
    BY <1>0, <2>1, AppraisalRests DEF parserVars
  <2> QED BY <1>0, <2>1, <2>2, ClientNextInv, ParserRests, OfferRests DEF IInv
<1>6. ASSUME PlatformMoves
      PROVE  IInv'
  <2>1. UNCHANGED <<parserVars, mode, file, calls, phase, offer, agreed, reference, quote,
                    verdict>>
    BY <1>6 DEF PlatformMoves
  <2>2. tpm' \in TpmStates
    BY <1>0, <1>6, TpmTyped DEF PlatformMoves, ClientPart
  <2>3. AppraisalPart'
    BY <1>0, <2>1, AppraisalRests DEF parserVars
  <2> QED BY <1>0, <2>1, <2>2, <2>3, TpmMoves, ParserRests, OfferRests DEF IInv
<1>7. ASSUME NEW mediaType, VerifyToken(mediaType)
      PROVE  IInv'
  <2>1. UNCHANGED <<parserVars, clientVars, offer, agreed>>
    BY <1>7 DEF VerifyToken
  <2> QED BY <1>0, <1>7, <2>1, VerifyTokenInv, ParserRests, ClientRests, OfferRests DEF IInv
<1>8. CASE UNCHANGED vars
  <2>1. UNCHANGED <<parserVars, clientVars, phase, offer, agreed, reference, quote, verdict>>
    BY <1>8 DEF vars
  <2>2. AppraisalPart'
    BY <1>0, <2>1, AppraisalRests DEF parserVars
  <2> QED BY <1>0, <2>1, <2>2, ParserRests, ClientRests, OfferRests DEF IInv
<1> QED BY <1>1, <1>2, <1>3, <1>4, <1>5, <1>6, <1>7, <1>8, LoadReferenceInv, QuoteInv DEF Next

LEMMA Invariant == Spec => []IInv
BY Initially, Inductive, PTL DEF Spec

\* The variables keep their types, those of the parser and of the client calls included.
THEOREM AppraisalTypes == Spec => []TypeOK
<1>1. IInv => TypeOK
  BY DEF IInv, ParserPart, ParserInv, ClientPart, OfferPart, OfferTyped, AppraisalPart,
         AppraisalTyped, TypeOK
<1> QED BY <1>1, Invariant, PTL

\* In the appraisal too the parser (tpms_attest.py) never reads or returns a byte that is
\* not in the buffer, whatever sizes and counts the buffer holds.
THEOREM AppraisalStaysInside == Spec => []ReadsInBounds
<1>1. IInv => ReadsInBounds
  BY DEF IInv, ParserPart, ParserInv
<1> QED BY <1>1, Invariant, PTL

\* extract_qualifying_data, extract_certify_name and extract_quote_info return exactly the
\* field a TPM put in the structure, or ValueError when it is not all there: for every
\* layout (any sizes, any number of PCR masks) and every place it may be cut at.
THEOREM ParserAgreesWithTpm == Spec => []ParsedIsEncoded
<1>1. IInv => ParsedIsEncoded
  BY DEF IInv, ParserPart, ParsingInv
<1> QED BY <1>1, Invariant, PTL

\* pcr_read (tpm_client.py) returns what the TPM held when this call read it, for any
\* number of clients in any interleaving, if no other call wrote the shared file between.
THEOREM PcrReadIsOwn == Spec => []ReadsAreOwn
<1>1. IInv => ReadsAreOwn
  BY DEF IInv, ClientPart, CallsTrue, ReadsAreOwn, Free
<1> QED BY <1>1, Invariant, PTL

\* What the CA's encoder accepts reaches the attester as the same set of PCRs, for every
\* list of indices and hash algorithm; what it refuses never does (pcr_selection.py).
THEOREM WantedIsSelected == Spec => []SelectionIsWanted
<1>1. IInv => SelectionIsWanted
  BY DEF IInv, OfferPart
<1> QED BY <1>1, Invariant, PTL

\* TpmReferenceVerifier.verify_token affirms a quote only if the PCRs it quotes are those
\* of the captured reference, and it affirms every whole one for which they are.
THEOREM AffirmedIsReference == Spec => []AffirmedMatchesReference
<1>1. IInv => AffirmedMatchesReference
  BY DEF IInv, AppraisalPart
<1> QED BY <1>1, Invariant, PTL
====
