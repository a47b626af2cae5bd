---- MODULE KeyAttestPop ----
(***************************************************************************)
(* Proof of possession of a to-be-attested key                             *)
(* (formats/key_attest_pop, crypto/rsa_encryption.py, x509/extensions.py). *)
(* The CA (external: its code only calls this library) answers a nonce     *)
(* request with a nonce and, when the request carries a public key, a      *)
(* challenge encrypted to it.  The attester decrypts the challenge and     *)
(* sends a proof as a certificate-request extension: a password-based MAC  *)
(* or an RSA signature.  Several sessions overlap: a response may reach    *)
(* the wrong request, a proof the wrong session, responses and extensions  *)
(* may be damaged, and proofs made by another implementation.              *)
(*                                                                         *)
(* A nonce and a challenge are named by the session they are fresh for;    *)
(* MACs, signatures and ciphertexts are records of what went into them.    *)
(***************************************************************************)
EXTENDS Naturals, FiniteSets

CONSTANTS Sessions,
          StrongRsa, ShortRsa, OtherKeys,  \* key pairs, by type: RSA of 2048 bits or more, RSA, else
          Malformed, Unsupported,          \* public keys that do not parse, or are of no known type
          MaxSent,                         \* bound: extensions sent
          None, Garbage                    \* Garbage: bytes no session drew

ASSUME SpkiAssumption ==
    /\ None \notin StrongRsa \cup ShortRsa \cup OtherKeys \cup Malformed \cup Unsupported
    /\ StrongRsa \cap (ShortRsa \cup OtherKeys \cup Malformed \cup Unsupported) = {}
    /\ ShortRsa \cap (OtherKeys \cup Malformed \cup Unsupported) = {}
    /\ {None, Garbage} \cap Sessions = {} /\ None # Garbage

Rsa == StrongRsa \cup ShortRsa
Holders == Rsa \cup OtherKeys
Spkis == Holders \cup Malformed \cup Unsupported

VARIABLES session,   \* the CA's side: what it holds for each session
          attester,  \* the attester's side of each session
          sent,      \* extensions that can reach the CA
          used,      \* history: <<session, key>>, a private key used on it
          accepted   \* sessions with an accepted proof

vars == <<session, attester, sent, used, accepted>>

ChallengeAlgs == {"pkcs1v15", "oaep", "other"}
Forms == {"pbm", "rsa-sha256", "other"}

\* Salts that are passed or carried ("long": over 128 bytes) and those either side draws;
\* iteration counts, where 0 stands for all below one.
Given == {"empty", "salt", "long"}
Salts == Given \cup {"drawn by prover", "drawn by verifier"}
Iterations == {0, 1}

NoValue == [kind |-> "none", challenge |-> None, nonce |-> None, key |-> None,
            salt |-> "empty", iterations |-> 0]
Values ==
    [kind : {"none", "mac", "signature"}, challenge : Sessions \cup {None, Garbage},
     nonce : Sessions \cup {None}, key : Holders \cup {None},
     salt : Salts, iterations : Iterations]

\* AlgorithmIdentifier.parameters: a PBMParameter, NULL, or bytes that are neither.
NullParams == [kind |-> "NULL", salt |-> "empty", iterations |-> 0]
Params == [kind : {"PBMParameter", "NULL", "malformed", "unknown OID"},
           salt : Salts, iterations : Iterations]

\* What damage may change of an extension: its encoding, the proof's algorithm identifier,
\* its parameters as a whole, or a value in them.
Fields == {"encoding", "algorithm", "parameters", "salt", "iterations"}

\* `made` is history: who made the proof, from which response, and what was damaged.
Extensions ==
    [der : {"good", "bad"}, algorithm : Forms, params : Params, value : Values,
     made : [by : {"library", "other"}, from : Sessions, key : Holders, damaged : SUBSET Fields]]

TypeOK ==
    /\ session \in [Sessions -> [state : {"idle", "refused", "plain", "challenged"},
                                 spki : Spkis \cup {None}, algorithm : ChallengeAlgs]]
    /\ attester \in [Sessions -> [state : {"idle", "asked", "ready", "failed"},
                                  response : Sessions \cup {None},
                                  challenge : Sessions \cup {None, Garbage},
                                  key : Holders \cup {None}]]
    /\ sent \subseteq Extensions
    /\ used \subseteq Sessions \X Holders
    /\ accepted \subseteq Sessions

Init ==
    /\ session = [s \in Sessions |-> [state |-> "idle", spki |-> None, algorithm |-> "other"]]
    /\ attester = [s \in Sessions |-> [state |-> "idle", response |-> None,
                                       challenge |-> None, key |-> None]]
    /\ sent = {} /\ used = {} /\ accepted = {}

----
(* The CA issues a nonce, and a challenge when the request names a key *)

\* _load_rsa_public_key_from_spki returns a key: RSA, 2048 bits or more.
Encryptable(spki) == spki \in StrongRsa

\* rsa_encrypt returns a ciphertext; else TypeError, ValueError or UnsupportedAlgorithm.
Encrypts(spki, algorithm) == Encryptable(spki) /\ algorithm \in {"pkcs1v15", "oaep"}

\* The request's challengeParams name the key.
Ask(s, spki, algorithm) ==
    /\ session[s].state = "idle"
    /\ session' = [session EXCEPT ![s] =
                      IF Encrypts(spki, algorithm)
                      THEN [state |-> "challenged", spki |-> spki, algorithm |-> algorithm]
                      ELSE [@ EXCEPT !.state = "refused"]]
    /\ attester' = [attester EXCEPT ![s].state = "asked"]
    /\ UNCHANGED <<sent, used, accepted>>

\* No key in challengeParams: a nonce only, and at most the certificate request's key.
AskPlain(s, spki) ==
    /\ session[s].state = "idle"
    /\ session' = [session EXCEPT ![s].state = "plain", ![s].spki = spki]
    /\ attester' = [attester EXCEPT ![s].state = "asked"]
    /\ UNCHANGED <<sent, used, accepted>>

----
(* The attester recovers the challenge *)

\* Mutant: what cannot be decrypted is passed on.
CiphertextPassedOn(s, k) == IF k = session[s].spki THEN {s} ELSE {"ciphertext"}

\* rsa_decrypt with private key k: plaintexts it may return.  A wrong key is told from
\* the right one by the padding check; PKCS#1 v1.5 may pass it with random bytes.
Decrypted(s, k) ==
    IF k = session[s].spki THEN {s}
    ELSE IF session[s].algorithm = "pkcs1v15" THEN {Garbage, None} ELSE {None}

\* None: TypeError or RSADecryptError.
Plaintexts(s, k) == IF k \in Rsa THEN Decrypted(s, k) ELSE {None}

\* The response to session r arrives as the answer to s.
Recover(s, r, k) ==
    /\ attester[s].state = "asked" /\ session[r].state = "challenged"
    /\ \E plaintext \in Plaintexts(r, k) :
          attester' = [attester EXCEPT ![s] =
              IF plaintext = None THEN [@ EXCEPT !.state = "failed"]
              ELSE [state |-> "ready", response |-> r, challenge |-> plaintext, key |-> k]]
    /\ used' = IF k = session[r].spki THEN used \cup {<<r, k>>} ELSE used
    /\ UNCHANGED <<session, sent, accepted>>

\* A challenge that was damaged on its way does not decode: ValueError before any key is
\* used.  One that decodes but whose ciphertext was changed is left out.
ChallengeUndecodable(s, r) ==
    /\ attester[s].state = "asked" /\ session[r].state = "challenged"
    /\ attester' = [attester EXCEPT ![s].state = "failed"]
    /\ UNCHANGED <<session, sent, used, accepted>>

\* A response without a challenge: only a signature can be made from it.
NonceOnly(s, r, k) ==
    /\ attester[s].state = "asked" /\ session[r].state = "plain"
    /\ attester' = [attester EXCEPT ![s] = [state |-> "ready", response |-> r,
                                            challenge |-> None, key |-> k]]
    /\ UNCHANGED <<session, sent, used, accepted>>

----
(* The attester computes and sends the proof *)

Mac(challenge, nonce, salt, iterations) ==
    [NoValue EXCEPT !.kind = "mac", !.challenge = challenge, !.nonce = nonce,
                    !.salt = salt, !.iterations = iterations]

Signature(k, nonce) == [NoValue EXCEPT !.kind = "signature", !.nonce = nonce, !.key = k]

\* salt or os.urandom(16): an empty salt is replaced by one the other side cannot know.
compute_password_based_mac(challenge, nonce, salt, iterations, drawn) ==
    Mac(challenge, nonce, IF salt = "empty" THEN drawn ELSE salt, iterations)

\* Mutant: only the upper limit is checked.
SaltMayBeEmpty(salt, iterations) == salt # "long" /\ iterations >= 1

\* _prepare_pbm_parameter: salt of 1 to 128 bytes, at least one iteration.
PbmParameterValid(salt, iterations) == salt = "salt" /\ iterations >= 1

Made(s, by) == [by |-> by, from |-> attester[s].response, key |-> attester[s].key,
                damaged |-> {}]

PbmProof(s, salt, iterations, value, by) ==
    [der |-> "good", algorithm |-> "pbm",
     params |-> [kind |-> "PBMParameter", salt |-> salt, iterations |-> iterations],
     value |-> value, made |-> Made(s, by)]

RsaProof(s) ==
    [der |-> "good", algorithm |-> "rsa-sha256", params |-> NullParams,
     value |-> Signature(attester[s].key, attester[s].response), made |-> Made(s, "library")]

Send(s, extension) ==
    /\ Cardinality(sent) < MaxSent
    /\ sent' = sent \cup {extension}
    /\ UNCHANGED <<session, attester, accepted>>

\* ValueError or TypeError: no proof leaves.
Fail(s) ==
    /\ attester' = [attester EXCEPT ![s] = [state |-> "failed", response |-> None,
                                            challenge |-> None, key |-> None]]
    /\ UNCHANGED <<session, sent, used, accepted>>

ProvePbm(s, salt, iterations) ==
    /\ attester[s].state = "ready"
    /\ IF attester[s].challenge # None /\ PbmParameterValid(salt, iterations)
       THEN /\ Send(s, PbmProof(s, salt, iterations,
                          compute_password_based_mac(attester[s].challenge,
                              attester[s].response, salt, iterations, "drawn by prover"),
                          "library"))
            /\ UNCHANGED used
       ELSE Fail(s)

ProveRsa(s) ==
    /\ attester[s].state = "ready"
    /\ IF attester[s].key \in Rsa
       THEN /\ Send(s, RsaProof(s))
            /\ used' = used \cup {<<attester[s].response, attester[s].key>>}
       ELSE Fail(s)

\* compute_key_attest_pop_proof with a form it does not know.
ProveUnknownForm(s) == attester[s].state = "ready" /\ Fail(s)

\* Another implementation keeps to the structure but not to this library's limits.
OtherProver(s, salt, iterations) ==
    /\ attester[s].state = "ready" /\ attester[s].challenge # None /\ salt # "long"
    /\ Send(s, PbmProof(s, salt, iterations,
                  Mac(attester[s].challenge, attester[s].response, salt, iterations), "other"))
    /\ UNCHANGED used

\* What an extension may be after damage to one of its fields.
Spoiled(e, field) ==
    CASE field = "encoding" -> {[e EXCEPT !.der = "bad"]}
      [] field = "algorithm" -> {[e EXCEPT !.algorithm = form] : form \in Forms}
      [] field = "parameters" -> {[e EXCEPT !.params.kind = kind] :
                                     kind \in {"malformed", "unknown OID"}}
      [] field = "salt" -> {[e EXCEPT !.params.salt = "empty"]}
      [] OTHER -> {[e EXCEPT !.params.iterations = 0]}

\* An extension is changed on its way.
Damage(e, field) ==
    /\ \E d \in Spoiled(e, field) :
          Send(e.made.from, [d EXCEPT !.made.damaged = @ \cup {field}])
    /\ UNCHANGED used

----
(* The CA verifies *)

\* One KeyAttestPoPProof and nothing after it; any decoder error is made a ValueError.
decode_key_attest_pop_proof(e) == IF e.der = "good" THEN "proof" ELSE "ValueError"

\* A critical extension only causes a warning.
validate_key_attest_pop_extension(e) == decode_key_attest_pop_proof(e) # "ValueError"

\* recovered_challenge is not None
HasChallenge(s) == session[s].state = "challenged"

\* Mutant: whatever keyed the MAC will do.
MacMatchesAnyChallenge(s, e) ==
    e.value = compute_password_based_mac(e.value.challenge, s, e.params.salt,
                                         e.params.iterations, "drawn by verifier")

MacMatches(s, e) ==
    e.value = compute_password_based_mac(s, s, e.params.salt, e.params.iterations,
                                         "drawn by verifier")

\* Mutant: the decoder holds the parameters to the limits the prover keeps.
DecodesWithinLimits(e) ==
    e.params.kind \in {"PBMParameter", "unknown OID"} /\ PbmParameterValid(e.params.salt, e.params.iterations)

\* The parameters decode as a PBMParameter.
ParamsDecode(e) == e.params.kind \in {"PBMParameter", "unknown OID"}

\* owf and mac are SHA-256 and HMAC with SHA-256.
OidsKnown(e) == e.params.kind = "PBMParameter"

\* PBM: the decoder's PyAsn1Error is not among the exceptions that are caught; the
\* ValueError for an unknown OID is.
VerifyPbm(s, e) ==
    IF ~HasChallenge(s) THEN "rejected"
    ELSE IF ~ParamsDecode(e) THEN "raised"
    ELSE IF OidsKnown(e) /\ MacMatches(s, e) THEN "accepted"
    ELSE "rejected"

\* RSA: load_der_public_key raises UnsupportedAlgorithm for a key type it does not know.
VerifyRsa(s, e) ==
    LET spki == session[s].spki
    IN  IF spki \in Unsupported THEN "raised"
        ELSE IF spki \in Rsa /\ e.value = Signature(spki, s) THEN "accepted"
        ELSE "rejected"

verify_key_attest_pop_proof(s, e) ==
    CASE e.algorithm = "pbm" -> VerifyPbm(s, e)
      [] e.algorithm = "rsa-sha256" -> VerifyRsa(s, e)
      [] OTHER -> "rejected"

Verdict(s, e) == IF validate_key_attest_pop_extension(e) THEN verify_key_attest_pop_proof(s, e) ELSE "undecodable"

\* Any extension may come with the certificate request of any open session.
Open(s) == session[s].state \in {"plain", "challenged"}

Verify(s, e) ==
    /\ Open(s) /\ e \in sent
    /\ accepted' = IF Verdict(s, e) = "accepted" THEN accepted \cup {s} ELSE accepted
    /\ UNCHANGED <<session, attester, sent, used>>

----
Next ==
    \/ \E s \in Sessions, spki \in Spkis, algorithm \in ChallengeAlgs : Ask(s, spki, algorithm)
    \/ \E s \in Sessions, spki \in Spkis \cup {None} : AskPlain(s, spki)
    \/ \E s, r \in Sessions, k \in Holders : Recover(s, r, k) \/ NonceOnly(s, r, k)
    \/ \E s, r \in Sessions : ChallengeUndecodable(s, r)
    \/ \E s \in Sessions, salt \in Given, iterations \in Iterations :
          ProvePbm(s, salt, iterations) \/ OtherProver(s, salt, iterations)
    \/ \E s \in Sessions : ProveRsa(s) \/ ProveUnknownForm(s)
    \/ \E e \in sent, field \in Fields : Damage(e, field)
    \/ \E s \in Sessions, e \in sent : Verify(s, e)

Spec == Init /\ [][Next]_vars

----
(* What makes the proof of possession correct *)

\* A proof is accepted only for a session on which the key it asks about was used: not
\* with another session's nonce or challenge, nor with another key.
Abstract == INSTANCE Possession WITH
    asked <- [s \in Sessions |-> session[s].spki], Keys <- Spkis
ImplementsPossession == Abstract!Spec

\* A proof this library made, from the session's own response and with the key the
\* session asks about, verifies if it arrives undamaged.
HonestProofsVerify ==
    \A s \in Sessions, e \in sent :
        (/\ Open(s) /\ e.made.by = "library" /\ e.made.damaged = {}
         /\ e.made.from = s /\ e.made.key = session[s].spki)
        => Verdict(s, e) = "accepted"

\* An exception escapes verification only where a challenged session reads a MAC: from
\* parameters that were damaged as a whole, or from a signature whose algorithm identifier
\* was; and where a signature is to be checked with a key of unknown type.  So an extension
\* nobody damaged gets a verdict from every session that asks about a usable key, whoever
\* made it, and so does one with a damaged encoding, salt or iteration count.
EscapesNeedDamage ==
    \A s \in Sessions, e \in sent :
        (Open(s) /\ Verdict(s, e) = "raised") =>
            \/ /\ session[s].state = "challenged" /\ e.algorithm = "pbm"
               /\ \/ "parameters" \in e.made.damaged
                  \/ "algorithm" \in e.made.damaged /\ e.value.kind = "signature"
            \/ e.algorithm = "rsa-sha256" /\ session[s].spki \in Unsupported

\* "Returns ``False`` on any decode failure or unsupported algorithm"
\* (formats/key_attest_pop/pbmac.py:316): whatever reaches it, verification returns.
VerificationNeverRaises ==
    \A s \in Sessions, e \in sent : Open(s) => Verdict(s, e) # "raised"
====
