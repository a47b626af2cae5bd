---- MODULE EarVerdict ----
(***************************************************************************)
(* EAR tokens and the three functions of libattest/ear.py.  A token is     *)
(* what its dots separate: how many parts, the payload that the second     *)
(* part decodes to, and a signature made by some key over some payload,    *)
(* in the raw form of JWT or another.                                      *)
(*                                                                         *)
(* A payload has a shape and the ear.status of each of its submodules,     *)
(* which may be absent or stand in a member that is no JSON object.        *)
(***************************************************************************)
EXTENDS Integers, Functions

Shapes == {"undecodable", "no_object", "submods_no_object", "submods"}
Statuses == {"affirming", "warning", "absent", "no_object"}

Payload(shape, status) == [shape |-> shape, status |-> status]

\* How a call ended: an exception, or a value.
Raised(exception, default) == [raises |-> exception, value |-> default]
Returned(value) == [raises |-> "none", value |-> value]

NoVerdicts == [name \in {} |-> ""]

\* The comprehension calls .items() and .get() outside the try.
parse_ear_verdict(token) ==
    LET status == token.payload.status IN
    IF token.parts < 2 \/ token.payload.shape = "undecodable"
    THEN Raised("ValueError", NoVerdicts)
    ELSE IF token.payload.shape \in {"no_object", "submods_no_object"}
            \/ "no_object" \in Range(status)
    THEN Raised("AttributeError", NoVerdicts)
    ELSE Returned([name \in DOMAIN status |->
                      IF status[name] = "absent" THEN "unknown" ELSE status[name]])

\* Mutant: one affirmed submodule is enough.
AnyAffirming(verdicts) == \E name \in DOMAIN verdicts : verdicts[name] = "affirming"

\* No submodule fails the loop, and there is one.
AllAffirming(verdicts) ==
    /\ DOMAIN verdicts # {}
    /\ \A name \in DOMAIN verdicts : verdicts[name] = "affirming"

\* Only ValueError is caught.
ear_is_affirming(token) ==
    LET verdict == parse_ear_verdict(token) IN
    IF verdict.raises = "ValueError" THEN Returned(FALSE)
    ELSE IF verdict.raises # "none" THEN Raised(verdict.raises, FALSE)
    ELSE Returned(AllAffirming(verdict.value))

\* Mutant: the signature is taken apart as DER.
DerOnly(form) == form = "der"

\* 64 bytes, R and S: the form ES256 has in a JWT.
SignatureForm(form) == form = "raw"

\* Whatever goes wrong is caught and is FALSE.
verify_ear_jwt(token, key) ==
    /\ token.parts = 3
    /\ SignatureForm(token.form)
    /\ token.signer = key
    /\ token.signed = token.payload
====
