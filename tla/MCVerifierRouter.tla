---- MODULE MCVerifierRouter ----
(* Small instances of the verifier router. *)
EXTENDS VerifierRouter, SequencesExt

CONSTANTS a, b, v1, v2, n1, n2, o1, o2, u1, u2

Reg(name, verifier, types, url, dflt) ==
    [name |-> name, verifier |-> verifier, types |-> types, url |-> url, default |-> dflt]
Req(oid, hint, nonce) == [oid |-> oid, hint |-> hint, nonce |-> nonce]

\* Two routes that compete for an OID; b has an endpoint and may become the default.
MCStableRegistrations == {Reg(a, v1, {o1}, None, FALSE), Reg(b, v2, {o1}, u1, FALSE),
                          Reg(b, v2, {}, u2, TRUE)}
\* Route a moves to another verifier.
MCMovingRegistrations == {Reg(a, v1, {o1}, None, FALSE), Reg(a, v2, {}, u1, FALSE),
                          Reg(b, v2, {o1}, None, TRUE)}

MCRequests == [oid : {o1, o2}, hint : {None, b, u1, u2}, nonce : Nonces \cup {None}]
MCFewRequests == {Req(o1, None, n) : n \in Nonces \cup {None}} \cup
                 {Req(o2, u1, n1), Req(o2, b, n1)}

MCStatements == {Req(o1, None, n1), Req(o2, b, n2), Req(o1, u1, None), Req(o2, u2, n1)}
MCBundles == BoundedSeq(MCStatements, 2)
MCFewBundles == {<<Req(o1, None, n1), Req(o1, u1, n1)>>}
====
