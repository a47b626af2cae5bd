---- MODULE QuoteAppraisal ----
(***************************************************************************)
(* From the PCRs of a TPM to the verdict on a quote of them: the verifier  *)
(* side says which PCRs it wants (PcrSelection), a reference value is      *)
(* captured on the platform through TpmClient, the platform quotes its     *)
(* PCRs, TpmsAttest parses the buffer that arrives and TpmReferenceVerifier *)
(* (verifier/tpm) compares its digest with the reference.                  *)
(*                                                                         *)
(* A behaviour either does this or examines one of the buffers with one    *)
(* extractor.  While a buffer is parsed nothing else moves: parsing reads  *)
(* and writes nothing that others use.                                     *)
(***************************************************************************)
EXTENDS TpmsAttest, TpmClient, PcrSelection

CONSTANTS Lists,    \* lists of PCR indices a CA may be configured with, or put on the wire
          HashAlgs  \* hash algorithm ids, likewise

VARIABLES phase,      \* "examine", or "capture" and then "appraise"
          offer,      \* the nonce response: who built it, from what, and its responseParams
          agreed,     \* what the attester took from it
          reference,  \* PcrReferenceValues of the verifier, with the history of its capture
          quote,      \* the quote on its way: what it attests and the buffer that arrives
          verdict     \* of verify_token

vars == <<parserVars, clientVars, phase, offer, agreed, reference, quote, verdict>>

----
(* TPMS_ATTEST as a TPM lays it out (external): what the parser must agree with *)

ExtraAt(m) == HEADER_LEN + 2 + m.signer
AttestedAt(m) == ExtraAt(m) + 2 + m.extra + CLOCK_AND_FIRMWARE_LEN

\* Where selection i begins; one past the last, the digest: behind the count and the
\* masks of the selections before.
SelectionAt(m, i) ==
    IF i = 1 THEN AttestedAt(m) + 4 ELSE m.masks[i - 1].from + m.masks[i - 1].size
DigestAt(m) == SelectionAt(m, Len(m.masks) + 1)

\* The slice each extractor is after.
Wanted(f, m) ==
    CASE f = "extract_qualifying_data" -> Slice(ExtraAt(m) + 2, m.extra)
      [] f = "extract_certify_name" -> Slice(AttestedAt(m) + 2, m.name)
      [] f = "extract_quote_info" -> Slice(DigestAt(m) + 2, m.digest)

FullLength(m) ==
    IF m.type = "certify" THEN AttestedAt(m) + 2 + m.name ELSE DigestAt(m) + 2 + m.digest

\* The size and count fields of a structure.
Fields(m) ==
    {<<HEADER_LEN, m.signer>>, <<ExtraAt(m), m.extra>>} \cup
    IF m.type = "certify" THEN {<<AttestedAt(m), m.name>>}
    ELSE {<<AttestedAt(m), Len(m.masks)>>, <<DigestAt(m), m.digest>>} \cup
         {<<SelectionAt(m, i) + 2, m.masks[i].size>> : i \in DOMAIN m.masks}

\* A buffer carries a structure, which it holds where it is neither cut nor damaged.
ASSUME StructureAssumption ==
    /\ None \notin Buffers
    /\ \A b \in Buffers :
        LET m == b.message IN
        /\ m \in [type : {"quote", "certify"}, signer : Nat, extra : Nat, name : Nat,
                  masks : Seq(Slices), digest : Nat]
        /\ \A i \in DOMAIN m.masks : m.masks[i].from = SelectionAt(m, i) + 3
        /\ b.damage = {} =>
               \A f \in Fields(m) : f[1] <= b.len => Contents[b][f[1]] = f[2]

\* The TPM has the PCRs that the format allows.
ASSUME SelectionAssumption ==
    /\ Pcrs = 0 .. PCR_INDEX_MAX
    /\ Lists \subseteq Seq(Int \cup {NotInt}) /\ HashAlgs \subseteq Int \cup {NotInt}

\* The numbers in a buffer: those of its damage, else those of its message, else any.
Encoded(b) ==
    [o \in 0 .. b.len |->
         LET there == {f \in b.damage : f[1] = o}
             fields == IF there = {} THEN {f \in Fields(b.message) : f[1] = o} ELSE there
         IN  IF fields = {} THEN 1 ELSE (CHOOSE f \in fields : TRUE)[2]]

----
NoOffer == [by |-> "none", pcrs |-> <<>>, params |-> <<>>]
NoQuote == [values |-> None, buffer |-> None]
NoReference == [expected |-> None, truth |-> None, clean |-> TRUE]

TypeOK ==
    /\ ParserTypeOK /\ ClientTypeOK
    /\ phase \in {"examine", "capture", "appraise"}
    /\ offer.by \in {"none", "library", "other"} /\ offer.pcrs \in Lists \cup {<<>>, Absent}
    /\ agreed \in {None, Absent, ValueError} \/ agreed.pcrs \in Lists \cup {Absent} \cup
           {Ascending(S) : S \in SUBSET Pcrs}
    /\ reference \in [expected : Blobs, truth : Blobs, clean : BOOLEAN]
    /\ quote.values \in Blobs /\ quote.buffer \in Buffers \cup {None}
    /\ verdict \in {"none", "affirming", "contraindicated", "unknown"}

Init ==
    /\ ParserInit /\ ClientInit
    /\ phase \in {"examine", "capture"}
    /\ offer = NoOffer /\ agreed = None
    /\ reference = NoReference /\ quote = NoQuote /\ verdict = "none"

\* Any buffer, with the extractor for its type: all that a verifier may be sent.
Examine(b, f) ==
    /\ phase = "examine"
    /\ f = "extract_qualifying_data" \/ (f = "extract_certify_name") = (b.message.type = "certify")
    /\ Extract(f, b)
    /\ UNCHANGED <<clientVars, phase, offer, agreed, reference, quote, verdict>>

Parse ==
    /\ ParserStep
    /\ UNCHANGED <<clientVars, phase, offer, agreed, reference, quote, verdict>>

----
(* Which PCRs to quote *)

\* make_pcr_selection_response_param; ValueError leaves no response.
Offer(pcrs, hashAlgId) ==
    /\ phase = "appraise" /\ offer = NoOffer /\ quote = NoQuote
    /\ LET params == encode_tpm_attestation_params(pcrs, hashAlgId) IN
       offer' = [by |-> "library", pcrs |-> pcrs,
                 params |-> IF params = ValueError THEN <<>>
                            ELSE <<[type |-> "other", value |-> None],
                                   [type |-> "tpm", value |-> params]>>]
    /\ UNCHANGED <<parserVars, clientVars, phase, agreed, reference, quote, verdict>>

\* A CA with a library of its own puts on the wire what it likes.
Wire ==
    {Malformed} \cup
    {params \in [pcrs : Lists \cup {Absent}, hashAlgId : HashAlgs \cup {Absent}] :
        params \in Params}

OtherOffer(value) ==
    /\ phase = "appraise" /\ offer = NoOffer /\ quote = NoQuote
    /\ offer' = [by |-> "other", pcrs |-> Absent,
                 params |-> <<[type |-> "tpm", value |-> value]>>]
    /\ UNCHANGED <<parserVars, clientVars, phase, agreed, reference, quote, verdict>>

Agree ==
    /\ offer # NoOffer /\ agreed = None
    /\ agreed' = extract_pcr_selection(offer.params, "tpm")
    /\ UNCHANGED <<parserVars, clientVars, phase, offer, reference, quote, verdict>>

\* The PCRs the attester quotes: all of them unless the response names some.
Selected ==
    IF agreed = Absent THEN Pcrs
    ELSE IF agreed.pcrs = Absent THEN Pcrs
    ELSE ToSet(agreed.pcrs)

----
(* Capturing the reference value *)

ClientStep ==
    /\ phase = "capture"
    /\ ClientNext
    /\ UNCHANGED <<parserVars, phase, offer, agreed, reference, quote, verdict>>

\* load_pcr_reference_values: the digest some client captured, or a file that has none.
\* No file, malformed JSON or a digest that is no hex is OSError or ValueError: then there
\* is no reference and no verifier yet, and this step is still to come.
LoadReference(c) ==
    /\ phase = "capture"
    /\ \A d \in Clients : Free(d)
    /\ reference' \in
          {NoReference} \cup
          {[expected |-> calls[c].output, truth |-> calls[c].truth, clean |-> ~calls[c].crossed]}
    /\ phase' = "appraise"
    /\ calls' = [d \in Clients |-> Idle] /\ file' = None
    /\ UNCHANGED <<parserVars, tpm, mode, offer, agreed, quote, verdict>>

----
(* Quote and appraisal *)

\* The platform is restarted, or extends a PCR, before it quotes.
PlatformMoves ==
    /\ phase = "appraise" /\ quote = NoQuote
    /\ \/ tpm' = [booted |-> TRUE, started |-> TRUE, pcr |-> Reset]
       \/ \E i \in Pcrs : /\ tpm.started /\ tpm.pcr[i] < MaxExtends
                          /\ tpm' = [tpm EXCEPT !.pcr[i] = @ + 1]
    /\ UNCHANGED <<parserVars, mode, file, calls, phase, offer, agreed, reference, quote, verdict>>

\* The TPM quotes the selection; the buffer arrives whole, cut or damaged.
Quote(b) ==
    /\ quote = NoQuote /\ tpm.started /\ agreed \notin {None, ValueError}
    /\ b.message.type = "quote"
    /\ quote' = [values |-> Concatenation(tpm.pcr, Selected), buffer |-> b]
    /\ Extract("extract_quote_info", b)
    /\ offer' = NoOffer /\ agreed' = None
    /\ UNCHANGED <<clientVars, phase, reference, verdict>>

\* The bytes the parser returned: the digest if it is the digest's slice.
Quoted ==
    IF result.outcome = "returned" /\ result.slice = Wanted("extract_quote_info",
                                                            quote.buffer.message)
    THEN quote.values ELSE None

\* Mutant: an unset reference is no reason to refuse.
NothingConfigured == reference.expected = None \/ Quoted = reference.expected

verify_pcr_quote == reference.expected # None /\ Quoted = reference.expected

\* TpmReferenceVerifier.verify_token; its handler (external) takes a parse error for a no.
VerifyToken(mediaType) ==
    /\ quote # NoQuote /\ at = "idle" /\ verdict = "none"
    /\ verdict' = IF mediaType # "application/octet-stream" THEN "unknown"
                  ELSE IF result.outcome = "returned" /\ verify_pcr_quote THEN "affirming"
                  ELSE "contraindicated"
    /\ UNCHANGED <<parserVars, clientVars, phase, offer, agreed, reference, quote>>

----
Next ==
    \/ \E b \in Buffers, f \in Extractors : Examine(b, f)
    \/ Parse
    \/ \E pcrs \in Lists \cup {Absent}, hashAlgId \in HashAlgs \cup {Absent} :
          Offer(pcrs, hashAlgId)
    \/ \E value \in Wire : OtherOffer(value)
    \/ Agree
    \/ ClientStep
    \/ \E c \in Clients : LoadReference(c)
    \/ PlatformMoves
    \/ \E b \in Buffers : Quote(b)
    \/ \E mediaType \in {"application/octet-stream", "other"} : VerifyToken(mediaType)

Spec == Init /\ [][Next]_vars

----
(* What makes the appraisal of quotes correct *)

\* An undamaged structure gives exactly the field its extractor is after, with the PCR
\* masks before it, as long as that field is there; cut short, it gives ValueError.
ParsedIsEncoded ==
    LET m == buffer.message
        wanted == Wanted(extractor, m)
    IN  (result.outcome # "none" /\ buffer.damage = {}) =>
           IF buffer.magic /\ Inside(wanted)
           THEN /\ result = [outcome |-> "returned", slice |-> wanted]
                /\ extractor = "extract_quote_info" => selections = m.masks
           ELSE result.outcome = "ValueError"

\* The attester quotes exactly the PCRs the CA was configured with, whatever their order
\* and repetitions; a list the CA's encoder refuses reaches no attester as a selection; and
\* whatever a CA with another library puts on the wire, no PCR is quoted that no TPM has.
SelectionIsWanted ==
    agreed # None =>
        /\ offer.by = "library" =>
              /\ agreed # ValueError
              /\ offer.params # <<>> /\ offer.pcrs # Absent => Selected = ToSet(offer.pcrs)
        /\ agreed # ValueError => Selected \subseteq Pcrs

\* An affirmed quote is a whole one of the right media type whose PCRs held, when they
\* were quoted, what the platform held when the reference was captured (if no other call
\* disturbed the capture); and such a quote is affirmed.
AffirmedMatchesReference ==
    verdict \in {"affirming", "contraindicated"} =>
        LET whole == quote.buffer.magic /\ quote.buffer.len = FullLength(quote.buffer.message)
        IN  /\ verdict = "affirming" /\ reference.clean =>
                   reference.truth # None /\ quote.values = reference.truth
            /\ /\ whole /\ quote.buffer.damage = {}
               /\ reference.clean /\ reference.truth # None /\ quote.values = reference.truth
               => verdict = "affirming"
====
