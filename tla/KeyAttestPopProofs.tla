---- MODULE KeyAttestPopProofs ----
(***************************************************************************)
(* The proof of possession, for any sessions and keys and any number of    *)
(* extensions.  A MAC that some session's challenge keys, and a signature, *)
(* are each evidence that a private key was used; the invariant follows    *)
(* them from the attester that makes them through the extensions that may  *)
(* reach the CA.  The abstract specification follows from it step by step. *)
(***************************************************************************)
EXTENDS KeyAttestPop, TLAPS

SessionOK(s) ==
    /\ session[s].state \in {"idle", "refused"} => session[s].spki = None
    /\ session[s].state = "challenged" => session[s].spki \in StrongRsa

\* What an attester has recovered is the challenge of the response it got, which took
\* that session's key, or it is no session's challenge.
AttesterOK(s) ==
    LET r == attester[s].response IN
    attester[s].state = "ready" =>
        /\ r \in Sessions /\ attester[s].key \in Holders /\ session[r].state # "idle"
        /\ attester[s].challenge # None =>
               /\ session[r].state = "challenged"
               /\ attester[s].key = session[r].spki => attester[s].challenge = r
        /\ attester[s].challenge \in Sessions =>
               attester[s].challenge = r /\ <<r, session[r].spki>> \in used

\* The value of an extension shows that a key was used, however damaged the rest of it.
Backed(e) ==
    LET c == e.value.challenge IN
    /\ c \in Sessions => session[c].state # "idle" /\ <<c, session[c].spki>> \in used
    /\ e.value.kind = "signature" => <<e.value.nonce, e.value.key>> \in used

\* The two kinds of proof that this library makes.
LibraryPbm(e) ==
    LET r == e.made.from IN
    /\ e.algorithm = "pbm" /\ session[r].state = "challenged"
    /\ e.params.salt = "salt" /\ e.params.kind = "PBMParameter"
    /\ e.value = Mac(e.value.challenge, r, "salt", e.params.iterations)
    /\ e.made.key = session[r].spki => e.value.challenge = r

LibraryRsa(e) ==
    /\ e.algorithm = "rsa-sha256" /\ e.made.key \in Rsa
    /\ e.value = Signature(e.made.key, e.made.from)

\* Undamaged extensions are as they were made.
AsMade(e) ==
    e.made.damaged = {} =>
        /\ e.der = "good"
        /\ e.made.by = "library" => LibraryPbm(e) \/ LibraryRsa(e)

\* A MAC came with parameters, and a signature with the algorithm identifier of one.
Fitting(e) ==
    /\ e.value.kind \in {"mac", "signature"}
    /\ e.value.kind = "mac" /\ "parameters" \notin e.made.damaged => e.params.kind = "PBMParameter"
    /\ e.value.kind = "signature" /\ "algorithm" \notin e.made.damaged => e.algorithm = "rsa-sha256"

IInv ==
    /\ TypeOK
    /\ \A s \in Sessions : SessionOK(s) /\ AttesterOK(s)
    /\ \A e \in sent : Backed(e) /\ AsMade(e) /\ Fitting(e)

\* Sessions are asked once.
Stable == \A s \in Sessions : session[s].state # "idle" => session'[s] = session[s]

LEMMA Settled ==
    ASSUME IInv, Stable, used \subseteq used'
    PROVE  /\ \A s \in Sessions : attester'[s] = attester[s] => AttesterOK(s)'
           /\ \A e \in Extensions : Backed(e) => Backed(e)'
           /\ \A e \in Extensions : AsMade(e) => AsMade(e)'
  <1>1. ASSUME NEW s \in Sessions, attester'[s] = attester[s]
        PROVE  AttesterOK(s)'
    <2>1. AttesterOK(s)
      BY DEF IInv
    <2>2. CASE attester[s].state = "ready"
      <3>1. attester[s].response \in Sessions /\ session[attester[s].response].state # "idle"
        BY <2>1, <2>2 DEF AttesterOK
      <3>2. session'[attester[s].response] = session[attester[s].response]
        BY <3>1 DEF Stable
      <3> QED
        BY <1>1, <2>1, <2>2, <3>2 DEF AttesterOK
    <2>3. CASE attester[s].state # "ready"
      BY <1>1, <2>3 DEF AttesterOK
    <2> QED
      BY <2>2, <2>3
  <1>2. ASSUME NEW e \in Extensions, Backed(e)
        PROVE  Backed(e)'
    BY <1>2 DEF Backed, Stable
  <1>3. ASSUME NEW e \in Extensions, AsMade(e)
        PROVE  AsMade(e)'
    <2>1. e.made.from \in Sessions
      BY DEF Extensions
    <2>2. LibraryPbm(e) => LibraryPbm(e)'
      BY <2>1 DEF LibraryPbm, Stable
    <2> QED
      BY <1>3, <2>2 DEF AsMade, LibraryRsa
  <1> QED
    BY <1>1, <1>2, <1>3

----
(* The steps *)

AttesterState ==
    [state : {"idle", "asked", "ready", "failed"}, response : Sessions \cup {None},
     challenge : Sessions \cup {None, Garbage}, key : Holders \cup {None}]

LEMMA AskInv ==
    ASSUME IInv, NEW s \in Sessions, NEW spki \in Spkis \cup {None},
           NEW algorithm \in ChallengeAlgs,
           (spki \in Spkis /\ Ask(s, spki, algorithm)) \/ AskPlain(s, spki)
    PROVE  IInv'
  <1> DEFINE State == [state : {"idle", "refused", "plain", "challenged"},
                       spki : Spkis \cup {None}, algorithm : ChallengeAlgs]
  <1>1. /\ session \in [Sessions -> State] /\ session[s].state = "idle" /\ session[s].spki = None
        /\ attester' = [attester EXCEPT ![s].state = "asked"]
        /\ UNCHANGED <<sent, used, accepted>>
    BY DEF IInv, TypeOK, SessionOK, Ask, AskPlain
  <1>2. \E x \in State :
            /\ session' = [session EXCEPT ![s] = x] /\ x.state # "idle"
            /\ x.state = "refused" => x.spki = None
            /\ x.state = "challenged" => x.spki \in StrongRsa
    <2>1. CASE Ask(s, spki, algorithm) /\ spki \in Spkis /\ Encrypts(spki, algorithm)
      <3> DEFINE x == [state |-> "challenged", spki |-> spki, algorithm |-> algorithm]
      <3>1. session' = [session EXCEPT ![s] = x] /\ x \in State /\ spki \in StrongRsa
        BY <2>1 DEF Ask, Encrypts, Encryptable
      <3> QED
        BY <3>1
    <2>2. CASE Ask(s, spki, algorithm) /\ ~Encrypts(spki, algorithm)
      <3> DEFINE x == [session[s] EXCEPT !.state = "refused"]
      <3>1. session' = [session EXCEPT ![s] = x] /\ x \in State /\ x.state = "refused" /\ x.spki = None
        BY <1>1, <2>2 DEF Ask
      <3> HIDE DEF x
      <3> QED
        BY <3>1
    <2>3. CASE AskPlain(s, spki)
      <3> DEFINE x == [session[s] EXCEPT !.state = "plain", !.spki = spki]
      <3>1. session' = [session EXCEPT ![s] = x] /\ x \in State /\ x.state = "plain"
        BY <1>1, <2>3 DEF AskPlain
      <3> HIDE DEF x
      <3> QED
        BY <3>1
    <2> QED
      BY <2>1, <2>2, <2>3
  <1>3. PICK x \in State :
            /\ session' = [session EXCEPT ![s] = x] /\ x.state # "idle"
            /\ x.state = "refused" => x.spki = None
            /\ x.state = "challenged" => x.spki \in StrongRsa
    BY <1>2
  <1>4. /\ session' \in [Sessions -> State] /\ session'[s] = x
        /\ \A z \in Sessions \ {s} : session'[z] = session[z]
    BY <1>1, <1>3
  <1>5. TypeOK'
    <2>1. attester' \in [Sessions -> AttesterState]
      BY <1>1 DEF IInv, TypeOK, AttesterState
    <2> QED
      BY <1>1, <1>4, <2>1 DEF IInv, TypeOK, AttesterState
  <1>6. \A z \in Sessions : SessionOK(z)'
    BY <1>3, <1>4 DEF IInv, SessionOK
  <1>7. Stable
    BY <1>1, <1>4 DEF Stable
  <1>8. /\ attester'[s].state = "asked"
        /\ \A z \in Sessions \ {s} : attester'[z] = attester[z]
    BY <1>1 DEF IInv, TypeOK
  <1>9. \A z \in Sessions : AttesterOK(z)'
    <2>1. AttesterOK(s)'
      BY <1>8 DEF AttesterOK
    <2> QED
      BY <1>1, <1>7, <1>8, <2>1, Settled
  <1>10. \A e \in sent' : Backed(e)' /\ AsMade(e)' /\ Fitting(e)'
    BY <1>1, <1>7, Settled DEF IInv, TypeOK, Fitting
  <1> QED
    BY <1>5, <1>6, <1>9, <1>10 DEF IInv

\* Steps of one attester.
LEMMA AttesterInv ==
    ASSUME IInv, NEW s \in Sessions, NEW a \in AttesterState,
           attester' = [attester EXCEPT ![s] = a],
           UNCHANGED <<session, sent, accepted>>,
           used \subseteq used', used' \subseteq Sessions \X Holders,
           AttesterOK(s)'
    PROVE  IInv'
  <1>1. Stable
    BY DEF Stable
  <1>2. /\ attester' \in [Sessions -> AttesterState]
        /\ \A z \in Sessions \ {s} : attester'[z] = attester[z]
    BY DEF IInv, TypeOK, AttesterState
  <1>3. TypeOK'
    BY <1>2 DEF IInv, TypeOK, AttesterState
  <1>4. \A z \in Sessions : SessionOK(z)' /\ AttesterOK(z)'
    BY <1>1, <1>2, Settled DEF IInv, SessionOK
  <1>5. \A e \in sent' : Backed(e)' /\ AsMade(e)' /\ Fitting(e)'
    BY <1>1, Settled DEF IInv, TypeOK, Fitting
  <1> QED
    BY <1>3, <1>4, <1>5 DEF IInv

LEMMA RecoverInv ==
    ASSUME IInv, NEW s \in Sessions, NEW r \in Sessions, NEW k \in Holders, Recover(s, r, k)
    PROVE  IInv'
  <1>1. /\ attester[s].state = "asked" /\ session[r].state = "challenged"
        /\ used' = IF k = session[r].spki THEN used \cup {<<r, k>>} ELSE used
        /\ UNCHANGED <<session, sent, accepted>>
    BY DEF Recover
  <1>2. used \subseteq used' /\ used' \subseteq Sessions \X Holders
    BY <1>1 DEF IInv, TypeOK
  <1>3. PICK plaintext \in Plaintexts(r, k) :
            attester' = [attester EXCEPT ![s] =
                IF plaintext = None THEN [attester[s] EXCEPT !.state = "failed"]
                ELSE [state |-> "ready", response |-> r, challenge |-> plaintext, key |-> k]]
    BY DEF Recover
  <1>4. attester[s] \in AttesterState /\ attester \in [Sessions -> AttesterState]
    BY DEF IInv, TypeOK, AttesterState
  <1>5. CASE plaintext = None
    <2> DEFINE a == [attester[s] EXCEPT !.state = "failed"]
    <2>1. a \in AttesterState /\ a.state = "failed" /\ attester' = [attester EXCEPT ![s] = a]
      BY <1>3, <1>4, <1>5 DEF AttesterState
    <2> HIDE DEF a
    <2>2. AttesterOK(s)'
      BY <1>4, <2>1 DEF AttesterOK
    <2> QED
      BY <1>1, <1>2, <2>1, <2>2, AttesterInv
  <1>6. CASE plaintext # None
    <2> DEFINE a == [state |-> "ready", response |-> r, challenge |-> plaintext, key |-> k]
    <2>1. /\ plaintext \in {r, Garbage}
          /\ plaintext = r <=> k = session[r].spki
      <3>1. r # Garbage /\ r # None /\ Garbage # None
        BY SpkiAssumption
      <3>2. session[r].spki \in StrongRsa
        BY <1>1 DEF IInv, SessionOK
      <3> QED
        BY <1>3, <1>6, <3>1, <3>2 DEF Plaintexts, Decrypted, Rsa
    <2>2. a \in AttesterState /\ attester' = [attester EXCEPT ![s] = a]
      BY <1>3, <1>6, <2>1 DEF AttesterState
    <2>3. attester'[s] = a
      BY <1>4, <2>2
    <2>4. AttesterOK(s)'
      BY <1>1, <2>1, <2>3, SpkiAssumption DEF AttesterOK
    <2> HIDE DEF a
    <2> QED
      BY <1>1, <1>2, <2>2, <2>4, AttesterInv
  <1> QED
    BY <1>5, <1>6

LEMMA ChallengeUndecodableInv ==
    ASSUME IInv, NEW s \in Sessions, NEW r \in Sessions, ChallengeUndecodable(s, r)
    PROVE  IInv'
  <1> DEFINE a == [attester[s] EXCEPT !.state = "failed"]
  <1>1. /\ attester' = [attester EXCEPT ![s] = a]
        /\ UNCHANGED <<session, sent, used, accepted>>
    BY DEF ChallengeUndecodable
  <1>2. attester \in [Sessions -> AttesterState]
    BY DEF IInv, TypeOK, AttesterState
  <1>3. a \in AttesterState /\ a.state = "failed"
    BY <1>2 DEF AttesterState
  <1> HIDE DEF a
  <1>4. AttesterOK(s)'
    BY <1>1, <1>2, <1>3 DEF AttesterOK
  <1>5. used \subseteq used' /\ used' \subseteq Sessions \X Holders
    BY <1>1 DEF IInv, TypeOK
  <1> QED
    BY <1>1, <1>3, <1>4, <1>5, AttesterInv

LEMMA NonceOnlyInv ==
    ASSUME IInv, NEW s \in Sessions, NEW r \in Sessions, NEW k \in Holders, NonceOnly(s, r, k)
    PROVE  IInv'
  <1> DEFINE a == [state |-> "ready", response |-> r, challenge |-> None, key |-> k]
  <1>1. /\ session[r].state = "plain" /\ attester' = [attester EXCEPT ![s] = a]
        /\ UNCHANGED <<session, sent, used, accepted>>
    BY DEF NonceOnly
  <1>2. a \in AttesterState /\ attester'[s] = a
    BY <1>1 DEF AttesterState, IInv, TypeOK
  <1>3. AttesterOK(s)'
    BY <1>1, <1>2, SpkiAssumption DEF AttesterOK
  <1>4. used \subseteq used' /\ used' \subseteq Sessions \X Holders
    BY <1>1 DEF IInv, TypeOK
  <1> HIDE DEF a
  <1> QED
    BY <1>1, <1>2, <1>3, <1>4, AttesterInv

LEMMA FailInv ==
    ASSUME IInv, NEW s \in Sessions, Fail(s)
    PROVE  IInv'
  <1> DEFINE a == [state |-> "failed", response |-> None, challenge |-> None, key |-> None]
  <1>1. /\ attester' = [attester EXCEPT ![s] = a]
        /\ UNCHANGED <<session, sent, used, accepted>>
    BY DEF Fail
  <1>2. a \in AttesterState /\ attester'[s] = a
    BY <1>1 DEF AttesterState, IInv, TypeOK
  <1>3. AttesterOK(s)'
    BY <1>2 DEF AttesterOK
  <1>4. used \subseteq used' /\ used' \subseteq Sessions \X Holders
    BY <1>1 DEF IInv, TypeOK
  <1> HIDE DEF a
  <1> QED
    BY <1>1, <1>2, <1>3, <1>4, AttesterInv

----
(* Extensions *)

LEMMA SendInv ==
    ASSUME IInv, NEW s, NEW e \in Extensions, Send(s, e),
           used \subseteq used', used' \subseteq Sessions \X Holders,
           Backed(e)', AsMade(e)', Fitting(e)
    PROVE  IInv'
  <1>1. sent' = sent \cup {e} /\ UNCHANGED <<session, attester, accepted>>
    BY DEF Send
  <1>2. Stable
    BY <1>1 DEF Stable
  <1>3. TypeOK'
    BY <1>1 DEF IInv, TypeOK
  <1>4. \A z \in Sessions : SessionOK(z)' /\ AttesterOK(z)'
    BY <1>1, <1>2, Settled DEF IInv, SessionOK
  <1>5. \A f \in sent' : Backed(f)' /\ AsMade(f)' /\ Fitting(f)'
    BY <1>1, <1>2, Settled DEF IInv, TypeOK, Fitting
  <1> QED
    BY <1>3, <1>4, <1>5 DEF IInv

LEMMA NoValueType ==
    NoValue \in Values /\ NoValue.challenge = None /\ None \notin Sessions
  BY SpkiAssumption DEF NoValue, Values, Salts, Given, Iterations

\* A PBM proof with the challenge of a ready attester.
LEMMA PbmProofInv ==
    ASSUME IInv, NEW s \in Sessions, NEW salt \in Given, NEW iterations \in Iterations,
           NEW by \in {"library", "other"}, by = "library" => salt = "salt",
           attester[s].state = "ready", attester[s].challenge # None,
           Send(s, PbmProof(s, salt, iterations,
                       Mac(attester[s].challenge, attester[s].response, salt, iterations), by)),
           UNCHANGED used
    PROVE  IInv'
  <1> DEFINE r == attester[s].response
             c == attester[s].challenge
             v == Mac(c, r, salt, iterations)
             e == PbmProof(s, salt, iterations, v, by)
  <1>1. attester[s] \in AttesterState
    BY DEF IInv, TypeOK, AttesterState
  <1>2. /\ r \in Sessions /\ attester[s].key \in Holders /\ session[r].state = "challenged"
        /\ attester[s].key = session[r].spki => c = r
        /\ c \in Sessions => c = r /\ <<r, session[r].spki>> \in used
        /\ c \in Sessions \cup {None, Garbage}
    BY <1>1 DEF IInv, AttesterOK, AttesterState
  <1>3. /\ v \in Values /\ v.challenge = c /\ v.kind = "mac"
    BY <1>2, NoValueType DEF Mac, Values, Salts
  <1>4. v = Mac(v.challenge, r, salt, iterations)
    BY <1>3
  <1> HIDE DEF v
  <1>5. /\ e \in Extensions /\ e.value = v /\ e.algorithm = "pbm" /\ e.der = "good"
        /\ e.params.kind = "PBMParameter" /\ e.params.salt = salt
        /\ e.params.iterations = iterations
        /\ e.made.from = r /\ e.made.key = attester[s].key /\ e.made.by = by
        /\ e.made.damaged = {}
    BY <1>2, <1>3 DEF PbmProof, Made, Extensions, Forms, Params, Salts
  <1>x. PICK x \in Extensions : x = e
    BY <1>5
  <1>6. Send(s, x)
    BY <1>x DEF v
  <1>7. UNCHANGED <<session, attester, used>> /\ used' \subseteq Sessions \X Holders
    BY <1>6 DEF Send, IInv, TypeOK
  <1> HIDE DEF e
  <1>8. Backed(x)'
    BY <1>2, <1>3, <1>5, <1>x, <1>7 DEF Backed
  <1>9. AsMade(x)'
    BY <1>2, <1>3, <1>4, <1>5, <1>x, <1>7 DEF AsMade, LibraryPbm
  <1>10. Fitting(x)
    BY <1>3, <1>5, <1>x DEF Fitting
  <1> QED
    BY <1>6, <1>7, <1>8, <1>9, <1>10, SendInv

LEMMA ProvePbmInv ==
    ASSUME IInv, NEW s \in Sessions, NEW salt \in Given, NEW iterations \in Iterations,
           ProvePbm(s, salt, iterations) \/ OtherProver(s, salt, iterations)
    PROVE  IInv'
  <1>1. CASE ProvePbm(s, salt, iterations)
    <2>1. CASE attester[s].challenge # None /\ PbmParameterValid(salt, iterations)
      <3>1. salt = "salt"
        BY <2>1 DEF PbmParameterValid
      <3>2. compute_password_based_mac(attester[s].challenge, attester[s].response, salt,
                iterations, "drawn by prover")
            = Mac(attester[s].challenge, attester[s].response, salt, iterations)
        BY <3>1 DEF compute_password_based_mac
      <3> QED
        BY <1>1, <2>1, <3>1, <3>2, PbmProofInv DEF ProvePbm
    <2>2. CASE ~(attester[s].challenge # None /\ PbmParameterValid(salt, iterations))
      BY <1>1, <2>2, FailInv DEF ProvePbm
    <2> QED
      BY <2>1, <2>2
  <1>2. CASE OtherProver(s, salt, iterations)
    BY <1>2, PbmProofInv DEF OtherProver
  <1> QED
    BY <1>1, <1>2

LEMMA ProveRsaInv ==
    ASSUME IInv, NEW s \in Sessions, ProveRsa(s)
    PROVE  IInv'
  <1> DEFINE r == attester[s].response
             k == attester[s].key
             v == Signature(k, r)
             e == RsaProof(s)
  <1>1. CASE k \notin Rsa
    BY <1>1, FailInv DEF ProveRsa
  <1>2. CASE k \in Rsa
    <2>1. /\ attester[s].state = "ready" /\ Send(s, e) /\ used' = used \cup {<<r, k>>}
      BY <1>2 DEF ProveRsa
    <2>2. r \in Sessions /\ k \in Holders
      BY <2>1 DEF IInv, AttesterOK
    <2>3. /\ v \in Values /\ v.kind = "signature" /\ v.nonce = r /\ v.key = k
          /\ v.challenge = None
      BY <2>2, NoValueType DEF Signature, Values
    <2>4. /\ e \in Extensions /\ e.value = v /\ e.algorithm = "rsa-sha256" /\ e.der = "good"
          /\ e.made.from = r /\ e.made.key = k
      <3> HIDE DEF v
      <3>1. v \in Values
        BY <2>3
      <3> QED
        BY <2>2, <3>1 DEF RsaProof, Made, Extensions, Forms, Params, NullParams, Salts, Given,
                          Iterations, v
    <2>x. PICK x \in Extensions : x = e
      BY <2>4
    <2>5. used \subseteq used' /\ used' \subseteq Sessions \X Holders
      BY <2>1, <2>2 DEF IInv, TypeOK
    <2>6. Backed(x)'
      <3>1. x.value.challenge \notin Sessions /\ <<x.value.nonce, x.value.key>> \in used'
        BY <2>1, <2>3, <2>4, <2>x, NoValueType
      <3> QED
        BY <3>1 DEF Backed
    <2>7. AsMade(x)'
      BY <1>2, <2>4, <2>x DEF AsMade, LibraryRsa
    <2>8. Fitting(x)
      BY <2>3, <2>4, <2>x DEF Fitting
    <2> HIDE DEF e
    <2> QED
      BY <2>1, <2>x, <2>5, <2>6, <2>7, <2>8, SendInv
  <1> QED
    BY <1>1, <1>2

\* The value of an extension survives every damage, and the other fields the damage to
\* one of them.
LEMMA SpoiledSound ==
    ASSUME NEW e \in Extensions, NEW field \in Fields, NEW d \in Spoiled(e, field)
    PROVE  /\ d \in Extensions /\ d.value = e.value /\ d.made = e.made
           /\ field # "parameters" => d.params.kind = e.params.kind
           /\ field # "algorithm" => d.algorithm = e.algorithm
  <1>1. CASE field = "encoding"
    <2>1. d = [e EXCEPT !.der = "bad"]
      BY <1>1 DEF Spoiled
    <2> QED
      BY <2>1 DEF Extensions
  <1>2. CASE field = "algorithm"
    <2>1. PICK form \in Forms : d = [e EXCEPT !.algorithm = form]
      BY <1>2 DEF Spoiled
    <2> QED
      BY <1>2, <2>1 DEF Extensions
  <1>3. CASE field = "parameters"
    <2>1. PICK kind \in {"malformed", "unknown OID"} : d = [e EXCEPT !.params.kind = kind]
      BY <1>3 DEF Spoiled
    <2> QED
      BY <1>3, <2>1 DEF Extensions, Params
  <1>4. CASE field = "salt"
    <2>1. d = [e EXCEPT !.params.salt = "empty"]
      BY <1>4 DEF Spoiled
    <2> QED
      BY <2>1 DEF Extensions, Params, Salts, Given
  <1>5. CASE field = "iterations"
    <2>1. d = [e EXCEPT !.params.iterations = 0]
      BY <1>5 DEF Spoiled
    <2> QED
      BY <2>1 DEF Extensions, Params, Iterations
  <1> QED
    BY <1>1, <1>2, <1>3, <1>4, <1>5 DEF Fields

LEMMA DamageInv ==
    ASSUME IInv, NEW e \in sent, NEW field \in Fields, Damage(e, field)
    PROVE  IInv'
  <1>1. e \in Extensions /\ Backed(e) /\ Fitting(e)
    BY DEF IInv, TypeOK
  <1>2. PICK d \in Spoiled(e, field) :
            Send(e.made.from, [d EXCEPT !.made.damaged = d.made.damaged \cup {field}])
    BY DEF Damage
  <1>3. /\ d \in Extensions /\ d.value = e.value /\ d.made = e.made
        /\ field # "parameters" => d.params.kind = e.params.kind
        /\ field # "algorithm" => d.algorithm = e.algorithm
    BY <1>1, SpoiledSound
  <1>4. PICK x \in Extensions :
            /\ x = [d EXCEPT !.made.damaged = d.made.damaged \cup {field}]
            /\ x.made.damaged = e.made.damaged \cup {field}
            /\ x.value = e.value /\ x.params = d.params /\ x.algorithm = d.algorithm
    <2> DEFINE m == [d.made EXCEPT !.damaged = d.made.damaged \cup {field}]
               x == [d EXCEPT !.made = m]
    <2>1. x = [d EXCEPT !.made.damaged = d.made.damaged \cup {field}]
      OBVIOUS
    <2>2. /\ m \in [by : {"library", "other"}, from : Sessions, key : Holders, damaged : SUBSET Fields]
          /\ m.damaged = e.made.damaged \cup {field}
      BY <1>3 DEF Extensions
    <2> HIDE DEF m
    <2>3. x \in Extensions /\ x.made = m /\ x.value = d.value /\ x.params = d.params
          /\ x.algorithm = d.algorithm
      BY <1>3, <2>2 DEF Extensions
    <2> HIDE DEF x
    <2> QED
      BY <1>3, <2>1, <2>2, <2>3
  <1>5. Send(e.made.from, x) /\ UNCHANGED <<session, used>>
    BY <1>2, <1>4 DEF Damage, Send
  <1>6. Backed(x)'
    <2>1. Backed(x)
      BY <1>1, <1>4 DEF Backed
    <2> QED
      BY <1>5, <2>1 DEF Backed
  <1>7. AsMade(x)'
    BY <1>4 DEF AsMade
  <1>8. Fitting(x)
    BY <1>1, <1>3, <1>4 DEF Fitting
  <1>9. used \subseteq used' /\ used' \subseteq Sessions \X Holders
    BY <1>5 DEF IInv, TypeOK
  <1> QED
    BY <1>5, <1>6, <1>7, <1>8, <1>9, SendInv

LEMMA VerifyInv ==
    ASSUME IInv, NEW s \in Sessions, NEW e \in sent, Verify(s, e)
    PROVE  IInv'
  <1>1. accepted' \subseteq Sessions /\ UNCHANGED <<session, attester, sent, used>>
    BY DEF Verify, IInv, TypeOK
  <1>2. TypeOK'
    BY <1>1 DEF IInv, TypeOK
  <1>3. Stable /\ used \subseteq used'
    BY <1>1 DEF Stable
  <1> QED
    BY <1>1, <1>2, <1>3, Settled DEF IInv, SessionOK, TypeOK, Fitting

LEMMA InitInv == Init => IInv
  <1> SUFFICES ASSUME Init PROVE IInv
    OBVIOUS
  <1>1. /\ \A s \in Sessions : session[s].state = "idle" /\ session[s].spki = None
        /\ \A s \in Sessions : attester[s].state = "idle"
        /\ sent = {}
    BY DEF Init
  <1>2. TypeOK
    BY DEF Init, TypeOK, ChallengeAlgs
  <1>3. \A s \in Sessions : SessionOK(s) /\ AttesterOK(s)
    BY <1>1 DEF SessionOK, AttesterOK
  <1> QED
    BY <1>1, <1>2, <1>3 DEF IInv

LEMMA NextInv ==
    ASSUME IInv, Next
    PROVE  IInv'
  <1>1. CASE \/ \E s \in Sessions, spki \in Spkis, algorithm \in ChallengeAlgs :
                    Ask(s, spki, algorithm)
             \/ \E s \in Sessions, spki \in Spkis \cup {None} : AskPlain(s, spki)
    BY <1>1, AskInv DEF ChallengeAlgs
  <1>2. CASE \E s, r \in Sessions, k \in Holders : Recover(s, r, k) \/ NonceOnly(s, r, k)
    BY <1>2, RecoverInv, NonceOnlyInv
  <1>7. CASE \E s, r \in Sessions : ChallengeUndecodable(s, r)
    BY <1>7, ChallengeUndecodableInv
  <1>3. CASE \E s \in Sessions, salt \in Given, iterations \in Iterations :
                 ProvePbm(s, salt, iterations) \/ OtherProver(s, salt, iterations)
    BY <1>3, ProvePbmInv
  <1>4. CASE \E s \in Sessions : ProveRsa(s) \/ ProveUnknownForm(s)
    BY <1>4, ProveRsaInv, FailInv DEF ProveUnknownForm
  <1>5. CASE \E e \in sent, field \in Fields : Damage(e, field)
    BY <1>5, DamageInv
  <1>6. CASE \E s \in Sessions, e \in sent : Verify(s, e)
    BY <1>6, VerifyInv
  <1> QED
    BY <1>1, <1>2, <1>3, <1>4, <1>5, <1>6, <1>7 DEF Next

LEMMA Inductive == Spec => []IInv
  <1>1. IInv /\ UNCHANGED vars => IInv'
    <2> SUFFICES ASSUME IInv, UNCHANGED vars PROVE IInv'
      OBVIOUS
    <2>1. Stable /\ used \subseteq used' /\ UNCHANGED <<session, attester, sent, used, accepted>>
      BY DEF Stable, vars
    <2> QED
      BY <2>1, Settled DEF IInv, SessionOK, TypeOK, Fitting
  <1> QED
    BY <1>1, InitInv, NextInv, PTL DEF Spec

----
(* The refinement *)

LEMMA InitMaps == Init => Abstract!Init
  BY DEF Init, Abstract!Init

\* A request that names a key makes the session ask about it; without one it asks nothing.
LEMMA AskMaps ==
    ASSUME IInv, NEW s \in Sessions, NEW spki \in Spkis \cup {None},
           NEW algorithm \in ChallengeAlgs,
           (spki \in Spkis /\ Ask(s, spki, algorithm)) \/ AskPlain(s, spki)
    PROVE  Abstract!Ask(s) \/ UNCHANGED Abstract!vars
  <1> DEFINE asked == [z \in Sessions |-> session[z].spki]
  <1>1. session[s].spki = None /\ UNCHANGED <<used, accepted>>
    BY DEF Ask, AskPlain, IInv, SessionOK
  <1>2. \/ asked' = asked
        \/ spki \in Spkis /\ asked' = [asked EXCEPT ![s] = spki]
    <2>1. CASE Ask(s, spki, algorithm) /\ spki \in Spkis /\ Encrypts(spki, algorithm)
      BY <2>1 DEF Ask, IInv, TypeOK
    <2>2. CASE Ask(s, spki, algorithm) /\ ~Encrypts(spki, algorithm)
      BY <2>2 DEF Ask, IInv, TypeOK
    <2>3. CASE AskPlain(s, spki)
      <3>1. asked' = [asked EXCEPT ![s] = spki]
        BY <2>3 DEF AskPlain, IInv, TypeOK
      <3>2. spki = None => asked' = asked
        BY <1>1, <3>1
      <3> QED
        BY <3>1, <3>2
    <2> QED
      BY <2>1, <2>2, <2>3
  <1> QED
    BY <1>1, <1>2 DEF Abstract!Ask, Abstract!vars

LEMMA RecoverMaps ==
    ASSUME IInv, NEW s \in Sessions, NEW r \in Sessions, NEW k \in Holders, Recover(s, r, k)
    PROVE  Abstract!Use(r) \/ UNCHANGED Abstract!vars
  BY DEF Recover, Abstract!Use, Abstract!vars, Spkis

LEMMA ProveRsaMaps ==
    ASSUME IInv, NEW s \in Sessions, ProveRsa(s)
    PROVE  (\E r \in Sessions : Abstract!Use(r)) \/ UNCHANGED Abstract!vars
  <1>1. attester[s].response \in Sessions /\ attester[s].key \in Spkis
    BY DEF ProveRsa, IInv, AttesterOK, Spkis
  <1> QED
    BY <1>1 DEF ProveRsa, Send, Fail, Abstract!Use, Abstract!vars

\* What the CA accepts is backed by a use of the key that the session asks about.
LEMMA VerifyMaps ==
    ASSUME IInv, NEW s \in Sessions, NEW e \in sent, Verify(s, e)
    PROVE  Abstract!Accept(s) \/ UNCHANGED Abstract!vars
  <1>1. UNCHANGED <<session, used>> /\ Backed(e)
    BY DEF Verify, IInv
  <1>2. CASE Verdict(s, e) # "accepted"
    BY <1>1, <1>2 DEF Verify, Abstract!vars
  <1>3. CASE Verdict(s, e) = "accepted"
    <2>1. verify_key_attest_pop_proof(s, e) = "accepted"
      BY <1>3 DEF Verdict
    <2>2. ASSUME e.algorithm = "pbm" PROVE <<s, session[s].spki>> \in used
      <3>1. MacMatches(s, e)
        BY <2>1, <2>2 DEF verify_key_attest_pop_proof, VerifyPbm
      <3>2. e.value.challenge = s
        BY <3>1 DEF MacMatches, compute_password_based_mac, Mac, NoValue
      <3> QED
        BY <1>1, <3>2 DEF Backed
    <2>3. ASSUME e.algorithm = "rsa-sha256" PROVE <<s, session[s].spki>> \in used
      <3>1. e.value = Signature(session[s].spki, s)
        BY <2>1, <2>3 DEF verify_key_attest_pop_proof, VerifyRsa
      <3>2. e.value.kind = "signature" /\ e.value.nonce = s /\ e.value.key = session[s].spki
        BY <3>1 DEF Signature, NoValue
      <3> QED
        BY <1>1, <3>2 DEF Backed
    <2>4. e.algorithm \in {"pbm", "rsa-sha256"}
      BY <2>1 DEF verify_key_attest_pop_proof
    <2> QED
      BY <1>1, <1>3, <2>2, <2>3, <2>4 DEF Verify, Abstract!Accept
  <1> QED
    BY <1>2, <1>3

LEMMA NextMaps ==
    ASSUME IInv, Next
    PROVE  Abstract!Next \/ UNCHANGED Abstract!vars
  <1>1. CASE \/ \E s \in Sessions, spki \in Spkis, algorithm \in ChallengeAlgs :
                    Ask(s, spki, algorithm)
             \/ \E s \in Sessions, spki \in Spkis \cup {None} : AskPlain(s, spki)
    BY <1>1, AskMaps DEF ChallengeAlgs, Abstract!Next
  <1>2. CASE \E s, r \in Sessions, k \in Holders : Recover(s, r, k)
    BY <1>2, RecoverMaps DEF Abstract!Next
  <1>3. CASE \E s, r \in Sessions, k \in Holders : NonceOnly(s, r, k)
    BY <1>3 DEF NonceOnly, Abstract!vars
  <1>9. CASE \E s, r \in Sessions : ChallengeUndecodable(s, r)
    BY <1>9 DEF ChallengeUndecodable, Abstract!vars
  <1>4. CASE \E s \in Sessions, salt \in Given, iterations \in Iterations :
                 ProvePbm(s, salt, iterations) \/ OtherProver(s, salt, iterations)
    BY <1>4 DEF ProvePbm, OtherProver, Send, Fail, Abstract!vars
  <1>5. CASE \E s \in Sessions : ProveRsa(s)
    BY <1>5, ProveRsaMaps DEF Abstract!Next
  <1>6. CASE \E s \in Sessions : ProveUnknownForm(s)
    BY <1>6 DEF ProveUnknownForm, Fail, Abstract!vars
  <1>7. CASE \E e \in sent, field \in Fields : Damage(e, field)
    BY <1>7 DEF Damage, Send, Abstract!vars
  <1>8. CASE \E s \in Sessions, e \in sent : Verify(s, e)
    BY <1>8, VerifyMaps DEF Abstract!Next
  <1> QED
    BY <1>1, <1>2, <1>3, <1>4, <1>5, <1>6, <1>7, <1>8, <1>9 DEF Next

----
(* Theorems *)

\* Sessions, attesters and extensions keep their types through damage and mix-ups.
THEOREM PopTypes == Spec => []TypeOK
  <1>1. IInv => TypeOK
    BY DEF IInv
  <1> QED
    BY <1>1, Inductive, PTL

\* The exchange implements its promise: a session is accepted only after the key it asks
\* about was used on it.
THEOREM PossessionImplemented == Spec => ImplementsPossession
  <1>1. IInv /\ [Next]_vars => [Abstract!Next]_(Abstract!vars)
    BY NextMaps DEF vars, Abstract!vars
  <1> QED
    BY <1>1, InitMaps, Inductive, PTL DEF Spec, ImplementsPossession, Abstract!Spec

\* The library's own proofs verify.
THEOREM HonestProofsAccepted == Spec => []HonestProofsVerify
  <1>1. IInv => HonestProofsVerify
    <2> SUFFICES ASSUME IInv, NEW s \in Sessions, NEW e \in sent,
                        e.made.by = "library", e.made.damaged = {},
                        e.made.from = s, e.made.key = session[s].spki
                 PROVE  Verdict(s, e) = "accepted"
      BY DEF HonestProofsVerify
    <2>1. e.der = "good" /\ (LibraryPbm(e) \/ LibraryRsa(e))
      BY DEF IInv, AsMade
    <2>2. Verdict(s, e) = verify_key_attest_pop_proof(s, e)
      BY <2>1 DEF Verdict, validate_key_attest_pop_extension, decode_key_attest_pop_proof
    <2>3. CASE LibraryPbm(e)
      <3>1. /\ e.algorithm = "pbm" /\ HasChallenge(s) /\ ParamsDecode(e) /\ OidsKnown(e)
            /\ e.value = Mac(s, s, "salt", e.params.iterations) /\ e.params.salt = "salt"
        BY <2>3 DEF LibraryPbm, HasChallenge, ParamsDecode, OidsKnown
      <3>2. MacMatches(s, e)
        BY <3>1 DEF MacMatches, compute_password_based_mac
      <3> QED
        BY <2>2, <3>1, <3>2 DEF verify_key_attest_pop_proof, VerifyPbm
    <2>4. CASE LibraryRsa(e)
      <3>1. /\ e.algorithm = "rsa-sha256" /\ session[s].spki \in Rsa
            /\ e.value = Signature(session[s].spki, s)
        BY <2>4 DEF LibraryRsa
      <3>2. session[s].spki \notin Unsupported
        BY <3>1, SpkiAssumption DEF Rsa
      <3> QED
        BY <2>2, <3>1, <3>2 DEF verify_key_attest_pop_proof, VerifyRsa
    <2> QED
      BY <2>1, <2>3, <2>4
  <1> QED
    BY <1>1, Inductive, PTL

\* Verification raises only for a MAC read from parameters that were damaged as a whole or
\* from a signature with a damaged algorithm identifier, and for a key of unknown type.
THEOREM EscapesAreDamage == Spec => []EscapesNeedDamage
  <1>1. IInv => EscapesNeedDamage
    <2> SUFFICES ASSUME IInv, NEW s \in Sessions, NEW e \in sent, Verdict(s, e) = "raised"
                 PROVE  \/ /\ session[s].state = "challenged" /\ e.algorithm = "pbm"
                           /\ \/ "parameters" \in e.made.damaged
                              \/ "algorithm" \in e.made.damaged /\ e.value.kind = "signature"
                        \/ e.algorithm = "rsa-sha256" /\ session[s].spki \in Unsupported
      BY DEF EscapesNeedDamage
    <2>1. verify_key_attest_pop_proof(s, e) = "raised"
      BY DEF Verdict
    <2>2. CASE e.algorithm = "pbm"
      <3>1. HasChallenge(s) /\ ~ParamsDecode(e)
        BY <2>1, <2>2 DEF verify_key_attest_pop_proof, VerifyPbm
      <3>2. Fitting(e)
        BY DEF IInv
      <3>3. CASE e.value.kind = "mac"
        BY <2>2, <3>1, <3>2, <3>3 DEF Fitting, ParamsDecode, HasChallenge
      <3>4. CASE e.value.kind = "signature"
        BY <2>2, <3>1, <3>2, <3>4 DEF Fitting, HasChallenge
      <3> QED
        BY <3>2, <3>3, <3>4 DEF Fitting
    <2>3. CASE e.algorithm = "rsa-sha256"
      BY <2>1, <2>3 DEF verify_key_attest_pop_proof, VerifyRsa
    <2>4. e.algorithm \in {"pbm", "rsa-sha256"}
      BY <2>1 DEF verify_key_attest_pop_proof
    <2> QED
      BY <2>2, <2>3, <2>4
  <1> QED
    BY <1>1, Inductive, PTL
====
