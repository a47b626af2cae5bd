---- MODULE PcrSelection ----
(***************************************************************************)
(* TpmAttestationParams (formats/tpm/pcr_selection.py): which PCRs to      *)
(* quote and with which hash, as a nonce response carries them.  Absent is *)
(* a field that is left out; of what a caller passes, all that is no int   *)
(* is NotInt, and of DER all that is no structure of the type, or not that *)
(* alone, is Malformed.                                                    *)
(***************************************************************************)
EXTENDS Integers, Sequences, SequencesExt, SortedIndices

CONSTANTS PCR_INDEX_MAX, Absent, NotInt, Malformed, ValueError

\* What a response carries.
Params == [pcrs : Seq(Int) \cup {Absent}, hashAlgId : Int \cup {Absent}]

\* A field that is left out is no value of its, and an exception is no result.
ASSUME IndexAssumption ==
    /\ PCR_INDEX_MAX \in Nat
    /\ Absent # ValueError /\ Absent # NotInt /\ Malformed \notin Params /\ NotInt \notin Int
    /\ Absent \notin Seq(Int \cup {NotInt})
    /\ Absent \notin Int /\ Absent \notin Seq(Int) /\ Absent \notin Params
    /\ ValueError \notin Int /\ ValueError \notin Seq(Int) /\ ValueError \notin Params

\* A bool is no int here.
Valid(i) == i # NotInt /\ 0 <= i /\ i <= PCR_INDEX_MAX

\* Mutant: one index too many is let through.
OffByOne(pcrs) ==
    IF pcrs # <<>> /\ \A i \in ToSet(pcrs) : i # NotInt /\ 0 <= i /\ i <= PCR_INDEX_MAX + 1
    THEN Ascending(ToSet(pcrs)) ELSE ValueError

\* Without duplicates and in order, or an exception for any bad entry or none at all.
validate_pcr_indices(pcrs) ==
    IF pcrs # <<>> /\ \A i \in ToSet(pcrs) : Valid(i)
    THEN Ascending(ToSet(pcrs)) ELSE ValueError

\* What goes on the wire.
encode_tpm_attestation_params(pcrs, hashAlgId) ==
    LET indices == IF pcrs = Absent THEN Absent ELSE validate_pcr_indices(pcrs)
    IN  IF indices = ValueError \/ hashAlgId = NotInt \/ (hashAlgId # Absent /\ hashAlgId < 0)
        THEN ValueError
        ELSE [pcrs |-> indices, hashAlgId |-> hashAlgId]

\* Duplicates and any order are taken as they are; DER that is empty, does not decode or has
\* bytes behind the structure is refused.
decode_tpm_attestation_params(params) ==
    IF \/ params = Malformed
       \/ params.pcrs # Absent
            /\ (params.pcrs = <<>> \/ \E i \in ToSet(params.pcrs) : ~Valid(i))
       \/ params.hashAlgId # Absent /\ params.hashAlgId < 0
    THEN ValueError
    ELSE params

\* The first responseParams entry of the type; Absent if there is none.
extract_pcr_selection(responseParams, oid) ==
    LET matching == {i \in DOMAIN responseParams : responseParams[i].type = oid}
    IN  IF matching = {} THEN Absent
        ELSE decode_tpm_attestation_params(responseParams[Min(matching)].value)
====
