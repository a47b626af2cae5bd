---- MODULE RelyingPartyProofs ----
(***************************************************************************)
(* The relying party, for any clients, verifiers, payloads and faults, and *)
(* any number of sessions and restarts.  What a client holds was true of   *)
(* its answer when the answer was made; the invariant says so of answers   *)
(* under way and of what the client has kept of them.                      *)
(***************************************************************************)
EXTENDS RelyingParty, TLAPS

\* A request is made for the handle at hand, and a newSession for base_url.
CallsMatch ==
    \A c \in Clients :
        /\ call[c].op = "new_session" => call[c].host = base_url[c]
        /\ call[c].op = "submit" => call[c].evidence.nonce = handle[c].nonce

\* A host's session with that nonce, unless the host is none that can be reached.
Names(nonces, host, session, nonce) ==
    host \in Verifiers =>
        /\ session \in DOMAIN nonces[host]
        /\ nonces[host][session] = nonce

\* Only an answer that new_session does not refuse needs to name a session.
AnswersName ==
    \A c \in Clients :
        LET answer == call[c].answer IN
        call[c].op = "new_session" /\ call[c].answered
            /\ "status" \notin answer.faults /\ "no_location" \notin answer.faults
        => Names(issued, SessionHost(c, answer), answer.session, answer.nonce)

\* What the signature on a token stands for.  No token is not affirming.
Earned(t, nonce) ==
    /\ t.signer = t.appraisal.key
    /\ Affirms(t.signed) =>
           /\ t.appraisal.evidence.good
           /\ t.appraisal.evidence.nonce = t.appraisal.nonce
           /\ t.appraisal.nonce = nonce
    /\ ~t.damaged /\ Affirms(t.signed) =>
           t.parts = 3 /\ t.form = "raw" /\ t.payload = t.signed

TokensEarned ==
    \A c \in Clients :
        /\ Earned(token[c], handle[c].nonce)
        /\ call[c].op = "submit" => Earned(call[c].answer.token, handle[c].nonce)

\* A decision is about the token and the key that are still there.
DecisionsStand ==
    \A c \in Clients : decision[c].looked =>
        /\ decision[c].verified = verify_ear_jwt(token[c], pem[c])
        /\ decision[c].affirming = ear_is_affirming(token[c])

CInv == ClientTypeOK /\ HandlesNameTheirSession /\ CallsMatch /\ AnswersName /\ TokensEarned

IInv == CInv /\ TypeOK /\ DecisionsStand

----
(* Types and the checks of an answer *)

LEMMA Nothing ==
    /\ NoKey \in Keys /\ NoNonce \in Nonces /\ NoHandle \in Handles
    /\ NoEvidence \in Evidences /\ NoToken \in Tokens /\ NoAnswer \in Replies
    /\ NoCall \in Calls
  <1>1. NoKey \in Keys /\ NoNonce \in Nonces
    BY DEF NoKey, Keys, Hosts, NoNonce, Nonce, Nonces
  <1>2. NoHandle \in Handles /\ NoEvidence \in Evidences
    BY <1>1 DEF NoHandle, Handles, Hosts, NoEvidence, Evidences
  <1>3. NoAppraisal \in Appraisals
    BY <1>1, <1>2 DEF NoAppraisal, Appraisals
  <1>4. NoToken \in Tokens
    BY <1>1, <1>3 DEF NoToken, Tokens
  <1>5. NoAnswer \in Replies
    BY <1>1, <1>4 DEF NoAnswer, Replies, Hosts
  <1>6. NoCall \in Calls
    BY <1>2, <1>5 DEF NoCall, Calls, Hosts
  <1> QED
    BY <1>1, <1>2, <1>4, <1>5, <1>6

\* No payload is affirming by default.
LEMMA NothingEarned == \A nonce : Earned(NoToken, nonce)
  <1>1. ~Affirms(NoPayload)
    BY DEF Affirms, NoPayload, Payload
  <1> QED
    BY <1>1 DEF Earned, NoToken, NoAppraisal

LEMMA Least ==
    ASSUME NEW failing, failing \subseteq 1..8, failing # {}
    PROVE  \E i \in failing : \A j \in failing : i <= j
  <1>1. CASE 1 \in failing
    BY <1>1
  <1>2. CASE 1 \notin failing /\ 2 \in failing
    BY <1>2
  <1>3. CASE failing \cap {1, 2} = {} /\ 3 \in failing
    BY <1>3
  <1>4. CASE failing \cap {1, 2, 3} = {} /\ 4 \in failing
    BY <1>4
  <1>5. CASE failing \cap {1, 2, 3, 4} = {} /\ 5 \in failing
    BY <1>5
  <1>6. CASE failing \cap 1..5 = {} /\ 6 \in failing
    BY <1>6
  <1>7. CASE failing \cap 1..6 = {} /\ 7 \in failing
    BY <1>7
  <1>8. CASE failing \subseteq {8}
    <2>1. failing = {8}
      BY <1>8
    <2> QED
      BY <2>1
  <1> QED
    BY <1>1, <1>2, <1>3, <1>4, <1>5, <1>6, <1>7, <1>8

\* Of no failing check the exception is "none", so "none" means that no check failed.
LEMMA FirstFailureSound ==
    ASSUME NEW checks, DOMAIN checks \subseteq 1..8,
           \A i \in DOMAIN checks : checks[i][2] \in Exceptions \ {"none"},
           NEW faults
    PROVE  /\ FirstFailure(checks, faults) \in Exceptions
           /\ FirstFailure(checks, faults) = "none" =>
                  \A i \in DOMAIN checks : checks[i][1] \notin faults
  <1> DEFINE failing == {i \in DOMAIN checks : checks[i][1] \in faults}
             least == CHOOSE i \in failing : \A j \in failing : i <= j
  <1>1. CASE failing = {}
    BY <1>1 DEF FirstFailure, Exceptions
  <1>2. CASE failing # {}
    <2>1. least \in failing
      BY <1>2, Least
    <2>2. FirstFailure(checks, faults) = checks[least][2]
      BY <1>2 DEF FirstFailure
    <2> QED
      BY <2>1, <2>2
  <1> QED
    BY <1>1, <1>2

LEMMA ChecksSound ==
    ASSUME NEW faults
    PROVE  /\ FirstFailure(NewSessionChecks, faults) \in Exceptions
           /\ FirstFailure(NewSessionChecks, faults) = "none" =>
                  "status" \notin faults /\ "no_location" \notin faults
           /\ FirstFailure(SubmitChecks, faults) \in Exceptions
           /\ FirstFailure(KeyChecks, faults) \in Exceptions
  <1>1. /\ DOMAIN NewSessionChecks = 1..8
        /\ \A i \in 1..8 : NewSessionChecks[i][2] \in Exceptions \ {"none"}
        /\ NewSessionChecks[1][1] = "status" /\ NewSessionChecks[7][1] = "no_location"
    BY DEF NewSessionChecks, Exceptions
  <1>2. /\ DOMAIN SubmitChecks = 1..2
        /\ \A i \in 1..2 : SubmitChecks[i][2] \in Exceptions \ {"none"}
    BY DEF SubmitChecks, Exceptions
  <1>3. /\ DOMAIN KeyChecks = 1..2
        /\ \A i \in 1..2 : KeyChecks[i][2] \in Exceptions \ {"none"}
    BY DEF KeyChecks, Exceptions
  <1> QED
    BY <1>1, <1>2, <1>3, FirstFailureSound

----
(* The steps of a call *)

\* Sessions keep their nonces, so what is known of them stays true.
Grows == \A v \in Verifiers : \A s \in DOMAIN issued[v] :
             s \in DOMAIN issued'[v] /\ issued'[v][s] = issued[v][s]

LEMMA RequestInv ==
    ASSUME CInv, NEW c \in Clients,
           NEW op \in {"new_session", "submit", "ear_verification_key"},
           NEW host \in Hosts, NEW session \in Nat, NEW evidence \in Evidences,
           Requests(c, op, host, session, evidence),
           op = "new_session" => host = base_url[c],
           op = "submit" => evidence.nonce = handle[c].nonce,
           NEW t \in Tokens, Earned(t, handle[c].nonce), token' = [token EXCEPT ![c] = t],
           UNCHANGED <<issued, live, key, late, base_url, handle, pem>>
    PROVE  CInv'
  <1> DEFINE e == [NoCall EXCEPT !.op = op, !.host = host,
                                 !.session = session, !.evidence = evidence]
  <1>1. call' = [call EXCEPT ![c] = e] /\ raised' = [raised EXCEPT ![c] = "none"]
    BY DEF Requests
  <1>2. /\ e \in Calls /\ e.op = op /\ e.host = host /\ e.evidence = evidence
        /\ ~e.answered /\ e.answer.token = NoToken
    <2>1. /\ NoCall \in Calls /\ ~NoCall.answered /\ NoCall.answer = NoAnswer
          /\ NoAnswer.token = NoToken
      BY Nothing DEF NoCall, NoAnswer
    <2> QED
      BY <2>1 DEF Calls
  <1> HIDE DEF e
  <1>3. /\ call \in [Clients -> Calls] /\ token \in [Clients -> Tokens]
        /\ raised \in [Clients -> Exceptions]
    BY DEF CInv, ClientTypeOK
  <1>4. /\ call'[c] = e /\ token'[c] = t
        /\ \A d \in Clients \ {c} : call'[d] = call[d] /\ token'[d] = token[d]
        /\ call' \in [Clients -> Calls] /\ token' \in [Clients -> Tokens]
        /\ raised' \in [Clients -> Exceptions]
    BY <1>1, <1>2, <1>3 DEF Exceptions
  <1>5. ClientTypeOK'
    BY <1>2, <1>4 DEF CInv, ClientTypeOK
  <1>6. HandlesNameTheirSession'
    BY DEF CInv, HandlesNameTheirSession
  <1>7. CallsMatch'
    BY <1>2, <1>4 DEF CInv, CallsMatch
  <1>8. AnswersName'
    BY <1>2, <1>4 DEF CInv, AnswersName, SessionHost, Names
  <1>9. TokensEarned'
    BY <1>2, <1>4, NothingEarned DEF CInv, TokensEarned
  <1> QED
    BY <1>5, <1>6, <1>7, <1>8, <1>9 DEF CInv

LEMMA EndInv ==
    ASSUME CInv, NEW c \in Clients, NEW exception \in Exceptions, Ends(c, exception),
           NEW h \in Handles, handle' = [handle EXCEPT ![c] = h],
           NEW t \in Tokens, token' = [token EXCEPT ![c] = t],
           NEW k \in Keys, pem' = [pem EXCEPT ![c] = k],
           Earned(t, h.nonce), Names(issued, h.host, h.session, h.nonce),
           late' \in Hosts, UNCHANGED <<issued, live, key, base_url>>
    PROVE  CInv'
  <1>1. call' = [call EXCEPT ![c] = NoCall] /\ raised' = [raised EXCEPT ![c] = exception]
    BY DEF Ends
  <1>2. /\ call \in [Clients -> Calls] /\ token \in [Clients -> Tokens]
        /\ raised \in [Clients -> Exceptions] /\ handle \in [Clients -> Handles]
        /\ pem \in [Clients -> Keys]
    BY DEF CInv, ClientTypeOK
  <1>3. /\ call'[c] = NoCall /\ token'[c] = t /\ handle'[c] = h
        /\ \A d \in Clients \ {c} :
               call'[d] = call[d] /\ token'[d] = token[d] /\ handle'[d] = handle[d]
        /\ call' \in [Clients -> Calls] /\ token' \in [Clients -> Tokens]
        /\ raised' \in [Clients -> Exceptions] /\ handle' \in [Clients -> Handles]
        /\ pem' \in [Clients -> Keys]
    BY <1>1, <1>2, Nothing
  <1>4. NoCall.op = "none"
    BY DEF NoCall
  <1>5. ClientTypeOK'
    BY <1>3 DEF CInv, ClientTypeOK
  <1>6. HandlesNameTheirSession'
    BY <1>3 DEF CInv, HandlesNameTheirSession, Names
  <1>7. CallsMatch'
    BY <1>3, <1>4 DEF CInv, CallsMatch
  <1>8. AnswersName'
    BY <1>3, <1>4 DEF CInv, AnswersName, SessionHost, Names
  <1>9. TokensEarned'
    BY <1>3, <1>4 DEF CInv, TokensEarned
  <1> QED
    BY <1>5, <1>6, <1>7, <1>8, <1>9 DEF CInv

\* What verifiers do, with no call answered by it.
LEMMA GrowsInv ==
    ASSUME CInv, Grows, UNCHANGED <<base_url, call, handle, token, pem, raised>>,
           issued' \in [Verifiers -> Seq(Nonces)], live' \in [Verifiers -> SUBSET Nat],
           \A v \in Verifiers : live'[v] \subseteq DOMAIN issued'[v],
           key' \in [Verifiers -> Nat], late' \in Hosts
    PROVE  CInv'
  <1>1. ClientTypeOK'
    BY DEF CInv, ClientTypeOK
  <1>2. HandlesNameTheirSession'
    BY DEF CInv, HandlesNameTheirSession, Grows
  <1>3. CallsMatch'
    BY DEF CInv, CallsMatch
  <1>4. AnswersName'
    BY DEF CInv, AnswersName, SessionHost, Names, Grows
  <1>5. TokensEarned'
    BY DEF CInv, TokensEarned
  <1> QED
    BY <1>1, <1>2, <1>3, <1>4, <1>5 DEF CInv

LEMMA AnswerInv ==
    ASSUME CInv, Grows, NEW c \in Clients, NEW answer \in Replies, Answers(c, answer),
           call[c].op # "none",
           call[c].op = "new_session" /\ "status" \notin answer.faults
               /\ "no_location" \notin answer.faults
             => Names(issued', SessionHost(c, answer), answer.session, answer.nonce),
           call[c].op = "submit" => Earned(answer.token, handle[c].nonce),
           UNCHANGED <<base_url, handle, token, pem, raised>>,
           issued' \in [Verifiers -> Seq(Nonces)], live' \in [Verifiers -> SUBSET Nat],
           \A v \in Verifiers : live'[v] \subseteq DOMAIN issued'[v],
           key' \in [Verifiers -> Nat], late' \in Hosts
    PROVE  CInv'
  <1>1. call' = [call EXCEPT ![c].answered = TRUE, ![c].answer = answer]
    BY DEF Answers
  <1>2. call \in [Clients -> Calls]
    BY DEF CInv, ClientTypeOK
  <1>3. /\ call'[c].op = call[c].op /\ call'[c].host = call[c].host
        /\ call'[c].evidence = call[c].evidence
        /\ call'[c].answer = answer
        /\ \A d \in Clients \ {c} : call'[d] = call[d]
        /\ call' \in [Clients -> Calls]
    BY <1>1, <1>2 DEF Calls
  <1>4. ClientTypeOK'
    BY <1>3 DEF CInv, ClientTypeOK
  <1>5. HandlesNameTheirSession'
    BY DEF CInv, HandlesNameTheirSession, Grows
  <1>6. CallsMatch'
    BY <1>3 DEF CInv, CallsMatch
  <1>7. AnswersName'
    BY <1>3 DEF CInv, AnswersName, SessionHost, Names, Grows
  <1>8. TokensEarned'
    BY <1>3 DEF CInv, TokensEarned
  <1> QED
    BY <1>4, <1>5, <1>6, <1>7, <1>8 DEF CInv

----
(* The client's calls *)

LEMMA NewClientInv ==
    ASSUME CInv, NEW c \in Clients, NEW v \in Verifiers, NewClient(c, v)
    PROVE  CInv'
  <1>1. /\ call[c].op = "none" /\ base_url' = [base_url EXCEPT ![c] = v]
        /\ UNCHANGED <<issued, live, key, late, call, handle, token, pem, raised>>
    BY DEF NewClient, verifierVars, Requests
  <1>2. base_url \in [Clients -> Verifiers] /\ raised' = raised
    BY <1>1 DEF CInv, ClientTypeOK
  <1>3. base_url' \in [Clients -> Verifiers] /\ \A d \in Clients \ {c} : base_url'[d] = base_url[d]
    BY <1>1, <1>2
  <1>4. ClientTypeOK'
    BY <1>1, <1>3 DEF CInv, ClientTypeOK
  <1>5. HandlesNameTheirSession' /\ TokensEarned'
    BY <1>1 DEF CInv, HandlesNameTheirSession, TokensEarned
  <1>6. CallsMatch'
    BY <1>1, <1>3 DEF CInv, CallsMatch
  <1>7. AnswersName'
    BY <1>1, <1>3 DEF CInv, AnswersName, SessionHost, Names
  <1> QED
    BY <1>4, <1>5, <1>6, <1>7 DEF CInv

LEMMA new_sessionInv ==
    ASSUME CInv, NEW c \in Clients,
           new_session(c) \/ ear_verification_key(c)
    PROVE  CInv'
  <1>1. base_url[c] \in Hosts /\ token[c] \in Tokens /\ token = [token EXCEPT ![c] = token[c]]
    BY DEF CInv, ClientTypeOK, Hosts
  <1>2. Earned(token[c], handle[c].nonce)
    BY DEF CInv, TokensEarned
  <1>3. /\ UNCHANGED <<issued, live, key, late, base_url, handle, token, pem>>
        /\ \/ Requests(c, "new_session", base_url[c], 0, NoEvidence)
           \/ Requests(c, "ear_verification_key", base_url[c], 0, NoEvidence)
    BY DEF new_session, ear_verification_key, verifierVars, answerVars
  <1> QED
    BY <1>1, <1>2, <1>3, Nothing, RequestInv

LEMMA submitInv ==
    ASSUME CInv, NEW c \in Clients, NEW good \in BOOLEAN, submit(c, good)
    PROVE  CInv'
  <1> DEFINE evidence == [nonce |-> handle[c].nonce, good |-> good]
  <1>1. handle[c] \in Handles
    BY DEF CInv, ClientTypeOK
  <1>2. /\ handle[c].host \in Hosts /\ handle[c].session \in Nat
        /\ evidence \in Evidences /\ evidence.nonce = handle[c].nonce
    BY <1>1 DEF Handles, Evidences
  <1>3. /\ Requests(c, "submit", handle[c].host, handle[c].session, evidence)
        /\ token' = [token EXCEPT ![c] = NoToken]
        /\ UNCHANGED <<issued, live, key, late, base_url, handle, pem>>
    BY DEF submit, verifierVars
  <1> HIDE DEF evidence
  <1> QED
    BY <1>2, <1>3, Nothing, NothingEarned, RequestInv

\* What the client has is as good as any answer.
LEMMA Kept ==
    ASSUME CInv, NEW c \in Clients
    PROVE  /\ handle[c] \in Handles /\ handle = [handle EXCEPT ![c] = handle[c]]
           /\ token[c] \in Tokens /\ token = [token EXCEPT ![c] = token[c]]
           /\ pem[c] \in Keys /\ pem = [pem EXCEPT ![c] = pem[c]]
           /\ Earned(token[c], handle[c].nonce)
           /\ Names(issued, handle[c].host, handle[c].session, handle[c].nonce)
           /\ late \in Hosts /\ call[c] \in Calls /\ call[c].answer \in Replies
  <1>1. ClientTypeOK
    BY DEF CInv
  <1>2. call[c].answer \in Replies /\ call[c] \in Calls
    BY <1>1 DEF ClientTypeOK, Calls
  <1>3. Earned(token[c], handle[c].nonce)
    BY DEF CInv, TokensEarned
  <1>4. Names(issued, handle[c].host, handle[c].session, handle[c].nonce)
    BY DEF CInv, HandlesNameTheirSession, Names
  <1> QED
    BY <1>1, <1>2, <1>3, <1>4 DEF ClientTypeOK

LEMMA NewSessionReturnsInv ==
    ASSUME CInv, NEW c \in Clients, NewSessionReturns(c)
    PROVE  CInv'
  <1> DEFINE answer == call[c].answer
             exception == FirstFailure(NewSessionChecks, answer.faults)
             h == [nonce |-> answer.nonce, host |-> SessionHost(c, answer),
                   session |-> answer.session]
  <1>1. /\ call[c].op = "new_session" /\ call[c].answered /\ Ends(c, exception)
        /\ UNCHANGED <<issued, live, key, late, base_url, pem>>
    BY DEF NewSessionReturns, verifierVars
  <1>2. exception \in Exceptions
    BY ChecksSound
  <1>3. CASE exception # "none"
    <2>1. UNCHANGED <<handle, token>>
      BY <1>3 DEF NewSessionReturns
    <2> HIDE DEF exception
    <2> QED
      BY <1>1, <1>2, <2>1, Kept, EndInv
  <1>4. CASE exception = "none"
    <2>1. /\ handle' = [handle EXCEPT ![c] = h]
          /\ token' = [token EXCEPT ![c] = NoToken]
      BY <1>4 DEF NewSessionReturns
    <2>2. answer \in Replies /\ base_url[c] \in Hosts
      BY Kept DEF CInv, ClientTypeOK, Hosts
    <2>3. /\ h \in Handles /\ h.nonce = answer.nonce /\ h.session = answer.session
          /\ h.host = SessionHost(c, answer)
      BY <2>2 DEF Replies, Handles, SessionHost
    <2>4. "status" \notin answer.faults /\ "no_location" \notin answer.faults
      BY <1>4, ChecksSound
    <2>5. Names(issued, h.host, h.session, h.nonce)
      BY <1>1, <2>3, <2>4 DEF CInv, AnswersName
    <2>6. /\ late' \in Hosts /\ pem[c] \in Keys /\ pem' = [pem EXCEPT ![c] = pem[c]]
          /\ NoToken \in Tokens /\ Earned(NoToken, h.nonce)
      BY <1>1, Kept, Nothing, NothingEarned
    <2> HIDE DEF exception, h
    <2> QED
      BY <1>1, <1>2, <2>1, <2>3, <2>5, <2>6, EndInv
  <1> QED
    BY <1>3, <1>4

LEMMA SubmitReturnsInv ==
    ASSUME CInv, NEW c \in Clients, SubmitReturns(c)
    PROVE  CInv'
  <1> DEFINE exception == FirstFailure(SubmitChecks, call[c].answer.faults)
  <1>1. /\ call[c].op = "submit" /\ Ends(c, exception)
        /\ token' = token \/ token' = [token EXCEPT ![c] = call[c].answer.token]
        /\ UNCHANGED <<issued, live, key, late, base_url, handle, pem>>
    BY DEF SubmitReturns, verifierVars
  <1>2. exception \in Exceptions
    BY ChecksSound
  <1>3. call[c].answer.token \in Tokens
    BY Kept DEF Replies
  <1>4. Earned(call[c].answer.token, handle[c].nonce)
    BY <1>1 DEF CInv, TokensEarned
  <1> HIDE DEF exception
  <1> QED
    BY <1>1, <1>2, <1>3, <1>4, Kept, EndInv

LEMMA KeyReturnsInv ==
    ASSUME CInv, NEW c \in Clients, KeyReturns(c)
    PROVE  CInv'
  <1> DEFINE exception == FirstFailure(KeyChecks, call[c].answer.faults)
  <1>1. /\ Ends(c, exception)
        /\ pem' = pem \/ pem' = [pem EXCEPT ![c] = call[c].answer.key]
        /\ UNCHANGED <<issued, live, key, late, base_url, handle, token>>
    BY DEF KeyReturns, verifierVars
  <1>2. exception \in Exceptions
    BY ChecksSound
  <1>3. call[c].answer.key \in Keys
    BY Kept DEF Replies
  <1> HIDE DEF exception
  <1> QED
    BY <1>1, <1>2, <1>3, Kept, EndInv

LEMMA TimeoutInv ==
    ASSUME CInv, NEW c \in Clients, Timeout(c) \/ Unresolved(c)
    PROVE  CInv'
  <1>1. /\ Ends(c, "RequestException")
        /\ UNCHANGED <<issued, live, key, base_url, handle, token, pem>>
    BY DEF Timeout, Unresolved, verifierVars, answerVars
  <1>2. late' \in {late, call[c].host}
    BY DEF Timeout, Unresolved, verifierVars
  <1>3. late' \in Hosts
    BY <1>2, Kept DEF Calls
  <1> QED
    BY <1>1, <1>3, Kept, EndInv DEF Exceptions

LEMMA ClientStepInv ==
    ASSUME CInv, NEW c \in Clients, ClientStep(c)
    PROVE  CInv'
  BY NewClientInv, new_sessionInv, submitInv, NewSessionReturnsInv, SubmitReturnsInv,
     KeyReturnsInv, TimeoutInv DEF ClientStep

----
(* The verifiers *)

LEMMA SameSessions ==
    ASSUME CInv, UNCHANGED <<issued, live, key, late>>
    PROVE  /\ Grows /\ issued' \in [Verifiers -> Seq(Nonces)] /\ live' \in [Verifiers -> SUBSET Nat]
           /\ \A v \in Verifiers : live'[v] \subseteq DOMAIN issued'[v]
           /\ key' \in [Verifiers -> Nat] /\ late' \in Hosts
  BY DEF CInv, ClientTypeOK, Grows

LEMMA OpensGrows ==
    ASSUME CInv, NEW v \in Verifiers, Opens(v)
    PROVE  /\ Grows /\ issued' \in [Verifiers -> Seq(Nonces)] /\ live' \in [Verifiers -> SUBSET Nat]
           /\ \A w \in Verifiers : live'[w] \subseteq DOMAIN issued'[w]
           /\ Len(issued'[v]) \in Nat /\ Len(issued'[v]) \in DOMAIN issued'[v]
           /\ issued'[v][Len(issued'[v])] \in Nonces
  <1>1. /\ issued \in [Verifiers -> Seq(Nonces)] /\ live \in [Verifiers -> SUBSET Nat]
        /\ \A w \in Verifiers : live[w] \subseteq DOMAIN issued[w]
    BY DEF CInv, ClientTypeOK
  <1> DEFINE n == Len(issued[v])
             nonce == Nonce(v, n + 1)
  <1>2. /\ issued[v] \in Seq(Nonces) /\ n \in Nat /\ DOMAIN issued[v] = 1..n
    BY <1>1
  <1>3. nonce \in Nonces
    BY <1>2 DEF Nonce, Nonces, Hosts
  <1> HIDE DEF nonce
  <1>4. /\ issued' = [issued EXCEPT ![v] = Append(issued[v], nonce)]
        /\ live' = [live EXCEPT ![v] = live[v] \cup {n + 1}]
    BY DEF Opens, nonce
  <1>5. /\ Append(issued[v], nonce) \in Seq(Nonces) /\ Len(Append(issued[v], nonce)) = n + 1
        /\ DOMAIN Append(issued[v], nonce) = 1..(n + 1)
        /\ Append(issued[v], nonce)[n + 1] = nonce
        /\ \A s \in 1..n : Append(issued[v], nonce)[s] = issued[v][s]
    BY <1>2, <1>3
  <1>6. /\ issued'[v] = Append(issued[v], nonce) /\ live'[v] = live[v] \cup {n + 1}
        /\ \A w \in Verifiers \ {v} : issued'[w] = issued[w] /\ live'[w] = live[w]
        /\ issued' \in [Verifiers -> Seq(Nonces)]
    BY <1>1, <1>4, <1>5
  <1>7. live' \in [Verifiers -> SUBSET Nat]
    BY <1>1, <1>2, <1>4
  <1>8. live'[v] \subseteq DOMAIN issued'[v]
    BY <1>1, <1>2, <1>5, <1>6
  <1>9. \A w \in Verifiers : live'[w] \subseteq DOMAIN issued'[w]
    BY <1>1, <1>6, <1>8
  <1>10. Grows
    BY <1>2, <1>5, <1>6 DEF Grows
  <1> QED
    BY <1>2, <1>3, <1>5, <1>6, <1>7, <1>9, <1>10

LEMMA OpenSessionInv ==
    ASSUME CInv, NEW c \in Clients, NEW v \in Verifiers, NEW w \in Verifiers,
           NEW faults \in Faults, OpenSession(c, v, w, faults)
    PROVE  CInv'
  <1> DEFINE session == Len(issued'[w])
             nonce == issued'[w][session]
             plain == SessionAnswer(v, w, faults, nonce, session)
             astray == [plain EXCEPT !.location = "absolute", !.host = Unreachable]
  <1>1. /\ call[c].op = "new_session" /\ call[c].host = v
        /\ Opens(w)
        /\ Answers(c, plain) \/ (v \notin Frameworks /\ Answers(c, astray))
        /\ UNCHANGED <<key, late, base_url, handle, token, pem, raised>>
    BY DEF OpenSession, Awaited, answerVars
  <1>2. base_url[c] = v
    BY <1>1 DEF CInv, CallsMatch
  <1>3. /\ Grows /\ issued' \in [Verifiers -> Seq(Nonces)] /\ live' \in [Verifiers -> SUBSET Nat]
        /\ \A x \in Verifiers : live'[x] \subseteq DOMAIN issued'[x]
        /\ session \in Nat /\ session \in DOMAIN issued'[w] /\ nonce \in Nonces
    BY <1>1, OpensGrows
  <1>4. key' \in [Verifiers -> Nat] /\ late' \in Hosts
    BY <1>1 DEF CInv, ClientTypeOK
  <1>5. faults \in SUBSET FaultKinds /\ "no_location" \in FaultKinds
    BY FaultsAssumption DEF FaultKinds
  <1>6. Misread(nonce) \in Nonces
    BY <1>3 DEF Misread, Nonces
  <1>7. plain \in Replies
    BY <1>3, <1>5, <1>6, Nothing DEF SessionAnswer, Replies, Hosts
  <1>8. /\ v \in Frameworks => "no_location" \in plain.faults
        /\ v \notin Frameworks =>
               /\ plain.nonce = nonce /\ plain.session = session /\ plain.host = w
               /\ plain.location = IF v = w THEN "path" ELSE "absolute"
    BY Nothing DEF SessionAnswer, Replies
  <1>9. Names(issued', w, session, nonce)
    BY <1>3 DEF Names
  <1> HIDE DEF plain, session, nonce
  <1>10. CASE Answers(c, plain)
    <2>1. "no_location" \notin plain.faults =>
              Names(issued', SessionHost(c, plain), plain.session, plain.nonce)
      BY <1>2, <1>8, <1>9 DEF SessionHost
    <2> QED
      BY <1>1, <1>3, <1>4, <1>7, <1>10, <2>1, AnswerInv
  <1>11. CASE v \notin Frameworks /\ Answers(c, astray)
    <2>1. astray \in Replies /\ astray.location = "absolute" /\ astray.host = Unreachable
      BY <1>7 DEF Replies, Hosts
    <2> HIDE DEF astray
    <2>2. Names(issued', SessionHost(c, astray), astray.session, astray.nonce)
      BY <2>1, VerifiersAssumption DEF SessionHost, Names
    <2> QED
      BY <1>1, <1>3, <1>4, <1>11, <2>1, <2>2, AnswerInv
  <1> QED
    BY <1>1, <1>10, <1>11

LEMMA AppraiseInv ==
    ASSUME CInv, NEW c \in Clients, NEW v \in Verifiers, NEW payload \in Payloads,
           NEW faults \in Faults, Appraise(c, v, payload, faults)
    PROVE  CInv'
  <1> DEFINE evidence == call[c].evidence
             nonce == issued[v][call[c].session]
             mine == [owner |-> v, generation |-> key[v]]
             appraisal == [key |-> mine, nonce |-> nonce, evidence |-> evidence]
             t == [parts |-> 3, payload |-> payload, form |-> "raw", signer |-> mine,
                   signed |-> payload, appraisal |-> appraisal, damaged |-> FALSE]
             answer == [NoAnswer EXCEPT !.faults = faults, !.token = t]
  <1>1. /\ call[c].op = "submit" /\ call[c].session \in live[v]
        /\ Affirms(payload) => evidence.good /\ evidence.nonce = nonce
        /\ Answers(c, answer)
        /\ UNCHANGED <<issued, live, key, late, base_url, handle, token, pem, raised>>
    BY DEF Appraise, Awaited, verifierVars, answerVars
  <1>2. nonce \in Nonces /\ mine \in Keys
    BY <1>1 DEF CInv, ClientTypeOK, Keys, Hosts
  <1>3. evidence \in Evidences
    BY Kept DEF Calls
  <1>4. appraisal \in Appraisals /\ appraisal.key = mine
        /\ appraisal.evidence = evidence /\ appraisal.nonce = nonce
    BY <1>2, <1>3 DEF Appraisals
  <1> HIDE DEF appraisal
  <1>5. t \in Tokens
    BY <1>2, <1>4 DEF Tokens
  <1>6. evidence.nonce = handle[c].nonce
    BY <1>1 DEF CInv, CallsMatch
  <1>7. Earned(t, handle[c].nonce)
    BY <1>1, <1>4, <1>6 DEF Earned
  <1> HIDE DEF t
  <1>8. answer \in Replies /\ answer.token = t
    <2>1. faults \in SUBSET FaultKinds
      BY FaultsAssumption
    <2> QED
      BY <1>5, <2>1, Nothing DEF Replies
  <1> HIDE DEF answer
  <1> QED
    BY <1>1, <1>7, <1>8, SameSessions, AnswerInv

LEMMA GiveKeyInv ==
    ASSUME CInv, NEW c \in Clients, NEW v \in Verifiers, NEW faults \in Faults,
           GiveKey(c, v, faults)
    PROVE  CInv'
  <1> DEFINE mine == [owner |-> v, generation |-> key[v]]
             given == IF v \in Frameworks THEN {"status"} ELSE faults
             answer == [NoAnswer EXCEPT !.faults = given, !.key = mine]
  <1>1. /\ call[c].op = "ear_verification_key" /\ Answers(c, answer)
        /\ UNCHANGED <<issued, live, key, late, base_url, handle, token, pem, raised>>
    BY DEF GiveKey, Awaited, verifierVars, answerVars
  <1>2. mine \in Keys /\ given \in SUBSET FaultKinds
    BY FaultsAssumption DEF CInv, ClientTypeOK, Keys, Hosts, FaultKinds
  <1> HIDE DEF mine, given
  <1>3. answer \in Replies
    BY <1>2, Nothing DEF Replies
  <1> HIDE DEF answer
  <1> QED
    BY <1>1, <1>3, SameSessions, AnswerInv

LEMMA RefuseRequestInv ==
    ASSUME CInv, NEW c \in Clients, NEW v \in Verifiers, RefuseRequest(c, v)
    PROVE  CInv'
  <1> DEFINE answer == [NoAnswer EXCEPT !.faults = {"status"}]
  <1>1. /\ call[c].op # "none" /\ Answers(c, answer)
        /\ UNCHANGED <<issued, live, key, late, base_url, handle, token, pem, raised>>
    BY DEF RefuseRequest, verifierVars, answerVars
  <1>2. answer \in Replies /\ "status" \in answer.faults /\ answer.token = NoToken
    <2>1. NoAnswer.token = NoToken
      BY DEF NoAnswer
    <2> QED
      BY <2>1, Nothing DEF Replies, FaultKinds
  <1> HIDE DEF answer
  <1> QED
    BY <1>1, <1>2, NothingEarned, SameSessions, AnswerInv

LEMMA VerifierStepInv ==
    ASSUME CInv, NEW c \in Clients, NEW v \in Verifiers, VerifierStep(c, v)
    PROVE  CInv'
  BY OpenSessionInv, AppraiseInv, GiveKeyInv, RefuseRequestInv DEF VerifierStep

LEMMA OpenLateInv ==
    ASSUME CInv, NEW v \in Verifiers, OpenLate(v) \/ Restart(v)
    PROVE  CInv'
  <1>1. CASE OpenLate(v)
    <2>1. /\ late' \in Hosts /\ (Opens(v) \/ UNCHANGED <<issued, live>>)
          /\ UNCHANGED <<key, call, base_url, handle, token, pem, raised>>
      BY <1>1 DEF OpenLate, answerVars, Hosts
    <2>2. key' \in [Verifiers -> Nat]
      BY <2>1 DEF CInv, ClientTypeOK
    <2>3. CASE UNCHANGED <<issued, live>>
      <3>1. /\ Grows /\ issued' \in [Verifiers -> Seq(Nonces)]
            /\ live' \in [Verifiers -> SUBSET Nat]
            /\ \A w \in Verifiers : live'[w] \subseteq DOMAIN issued'[w]
        BY <2>3 DEF CInv, ClientTypeOK, Grows
      <3> QED
        BY <2>1, <2>2, <3>1, GrowsInv
    <2>4. CASE Opens(v)
      BY <2>1, <2>2, <2>4, OpensGrows, GrowsInv
    <2> QED
      BY <2>1, <2>3, <2>4
  <1>2. CASE Restart(v)
    <2>1. /\ key' = [key EXCEPT ![v] = key[v] + 1] /\ live' = [live EXCEPT ![v] = {}]
          /\ UNCHANGED <<issued, call, late, base_url, handle, token, pem, raised>>
      BY <1>2 DEF Restart, answerVars
    <2>2. /\ key \in [Verifiers -> Nat] /\ live \in [Verifiers -> SUBSET Nat]
          /\ issued \in [Verifiers -> Seq(Nonces)] /\ late \in Hosts
          /\ \A w \in Verifiers : live[w] \subseteq DOMAIN issued[w]
      BY DEF CInv, ClientTypeOK
    <2>3. key' \in [Verifiers -> Nat] /\ live' \in [Verifiers -> SUBSET Nat]
      BY <2>1, <2>2
    <2>4. \A w \in Verifiers : live'[w] \subseteq DOMAIN issued'[w]
      BY <2>1, <2>2
    <2>5. Grows
      BY <2>1 DEF Grows
    <2> QED
      BY <2>1, <2>2, <2>3, <2>4, <2>5, GrowsInv
  <1> QED
    BY <1>1, <1>2

\* Damage leaves what the signature was made over, and says that the token is damaged.
LEMMA DamageInv ==
    ASSUME CInv, NEW c \in Clients, Damage(c)
    PROVE  CInv'
  <1> DEFINE arrived == [call[c].answer.token EXCEPT !.damaged = TRUE]
  <1>1. call[c] \in Calls /\ call[c].answer \in Replies /\ call[c].answer.token \in Tokens
    BY Kept DEF Replies
  <1>2. /\ arrived \in Tokens /\ arrived.damaged /\ arrived.signed = call[c].answer.token.signed
        /\ arrived.signer = call[c].answer.token.signer
        /\ arrived.appraisal = call[c].answer.token.appraisal
    BY <1>1 DEF Tokens
  <1> HIDE DEF arrived
  <1>3. /\ call[c].op = "submit" /\ call[c].answered
        /\ \E other \in {[arrived EXCEPT !.parts = n] : n \in {1, 2, 4}}
                     \cup {[arrived EXCEPT !.payload = p] : p \in Contrary(arrived.payload)}
                     \cup {[arrived EXCEPT !.form = "der"]} :
               call' = [call EXCEPT ![c].answer.token = other]
        /\ UNCHANGED <<issued, live, key, late, base_url, handle, token, pem, raised>>
    BY DEF Damage, verifierVars, answerVars, arrived
  <1>4. PICK other \in {[arrived EXCEPT !.parts = n] : n \in {1, 2, 4}}
                     \cup {[arrived EXCEPT !.payload = p] : p \in Contrary(arrived.payload)}
                     \cup {[arrived EXCEPT !.form = "der"]} :
               call' = [call EXCEPT ![c].answer.token = other]
    BY <1>3
  <1>5. /\ other \in Tokens /\ other.damaged /\ other.signed = call[c].answer.token.signed
        /\ other.signer = call[c].answer.token.signer
        /\ other.appraisal = call[c].answer.token.appraisal
    BY <1>2, <1>4 DEF Tokens, Contrary
  <1> DEFINE answer == [call[c].answer EXCEPT !.token = other]
  <1>6. answer \in Replies /\ answer.token = other
    BY <1>1, <1>5 DEF Replies
  <1>7. Answers(c, answer)
    <2>1. [call[c] EXCEPT !.answer.token = other]
              = [call[c] EXCEPT !.answered = TRUE, !.answer = answer]
      BY <1>1, <1>3, <1>6 DEF Calls, Replies
    <2> QED
      BY <1>3, <1>4, <2>1 DEF Answers, CInv, ClientTypeOK
  <1>8. Earned(other, handle[c].nonce)
    BY <1>3, <1>5 DEF CInv, TokensEarned, Earned
  <1> HIDE DEF answer
  <1> QED
    BY <1>3, <1>6, <1>7, <1>8, SameSessions, AnswerInv

LEMMA ClientNextInv ==
    ASSUME CInv, ClientNext
    PROVE  CInv'
  BY ClientStepInv, VerifierStepInv, OpenLateInv, DamageInv DEF ClientNext

----
(* Decisions *)

\* What the two functions of ear.py say of a token that was made from its payload.
LEMMA EarSound ==
    ASSUME NEW t \in Tokens
    PROVE  /\ ear_is_affirming(t) \in [raises : Exceptions, value : BOOLEAN]
           /\ ear_is_affirming(t).value => Affirms(t.payload)
           /\ t.parts = 3 /\ Affirms(t.payload) => ear_is_affirming(t).value
  <1> DEFINE shape == t.payload.shape
             status == t.payload.status
             verdict == parse_ear_verdict(t)
             verdicts == [name \in DOMAIN status |->
                             IF status[name] = "absent" THEN "unknown" ELSE status[name]]
  <1>1. /\ t.payload \in Payloads \cup {NoPayload} /\ t.parts \in Nat
    BY DEF Tokens
  <1>2. shape \in Shapes /\ status \in [DOMAIN status -> Statuses]
    <2>1. CASE t.payload \in Payloads
      BY <2>1, PayloadsAssumption
    <2>2. CASE t.payload = NoPayload
      BY <2>2 DEF NoPayload, Payload, NoVerdicts, Shapes, Statuses
    <2> QED
      BY <1>1, <2>1, <2>2
  <1>3. CASE t.parts < 2 \/ shape = "undecodable"
    <2>1. verdict.raises = "ValueError"
      BY <1>3 DEF parse_ear_verdict, Raised
    <2>2. ear_is_affirming(t) = [raises |-> "none", value |-> FALSE]
      BY <2>1 DEF ear_is_affirming, Returned
    <2>3. ~(t.parts = 3 /\ Affirms(t.payload))
      BY <1>3 DEF Affirms
    <2> QED
      BY <2>2, <2>3 DEF Exceptions
  <1>4. CASE /\ ~(t.parts < 2 \/ shape = "undecodable")
             /\ shape \in {"no_object", "submods_no_object"} \/ "no_object" \in Range(status)
    <2>1. verdict.raises = "AttributeError"
      BY <1>4 DEF parse_ear_verdict, Raised
    <2>2. ear_is_affirming(t) = [raises |-> "AttributeError", value |-> FALSE]
      BY <2>1 DEF ear_is_affirming, Raised
    <2>3. ~Affirms(t.payload)
      BY <1>4 DEF Affirms
    <2> QED
      BY <2>2, <2>3 DEF Exceptions
  <1>5. CASE /\ ~(t.parts < 2 \/ shape = "undecodable")
             /\ ~(shape \in {"no_object", "submods_no_object"} \/ "no_object" \in Range(status))
    <2>1. verdict.raises = "none" /\ verdict.value = verdicts
      BY <1>5 DEF parse_ear_verdict, Returned
    <2>2. ear_is_affirming(t) = [raises |-> "none", value |-> AllAffirming(verdicts)]
      BY <2>1 DEF ear_is_affirming, Returned
    <2>3. shape = "submods"
      BY <1>2, <1>5 DEF Shapes
    <2>4. AllAffirming(verdicts) <=>
              /\ DOMAIN status # {}
              /\ \A name \in DOMAIN status : status[name] = "affirming"
      BY DEF AllAffirming
    <2>5. Affirms(t.payload) <=> status # NoVerdicts /\ Range(status) = {"affirming"}
      BY <2>3 DEF Affirms
    <2>6. AllAffirming(verdicts) => Affirms(t.payload)
      <3> SUFFICES ASSUME DOMAIN status # {},
                          \A name \in DOMAIN status : status[name] = "affirming"
                   PROVE  status # NoVerdicts /\ Range(status) = {"affirming"}
        BY <2>4, <2>5
      <3>1. PICK name \in DOMAIN status : status[name] = "affirming"
        OBVIOUS
      <3>2. Range(status) = {"affirming"}
        BY <3>1 DEF Range
      <3>3. DOMAIN NoVerdicts = {}
        BY DEF NoVerdicts
      <3> QED
        BY <3>2, <3>3
    <2>7. Affirms(t.payload) => AllAffirming(verdicts)
      BY <2>4, <2>5 DEF Range
    <2>8. AllAffirming(verdicts) \in BOOLEAN
      BY DEF AllAffirming
    <2> QED
      BY <2>2, <2>6, <2>7, <2>8 DEF Exceptions
  <1> QED
    BY <1>3, <1>4, <1>5

LEMMA JudgeInv ==
    ASSUME IInv, NEW c \in Clients, Judge(c)
    PROVE  IInv'
  <1> DEFINE said == [looked |-> TRUE, verified |-> verify_ear_jwt(token[c], pem[c]),
                      affirming |-> ear_is_affirming(token[c])]
  <1>1. /\ decision' = [decision EXCEPT ![c] = said]
        /\ UNCHANGED <<issued, live, key, base_url, call, late, handle, token, pem, raised>>
    BY DEF Judge, clientVars
  <1>2. CInv'
    BY <1>1 DEF IInv, CInv, ClientTypeOK, HandlesNameTheirSession, CallsMatch, AnswersName,
                SessionHost, Names, TokensEarned
  <1>3. /\ said.verified = verify_ear_jwt(token[c], pem[c])
        /\ said.affirming = ear_is_affirming(token[c])
        /\ said \in [looked : BOOLEAN, verified : BOOLEAN,
                     affirming : [raises : Exceptions, value : BOOLEAN]]
    <2>1. verify_ear_jwt(token[c], pem[c]) \in BOOLEAN
      BY DEF verify_ear_jwt
    <2>2. token[c] \in Tokens
      BY DEF IInv, CInv, ClientTypeOK
    <2> QED
      BY <2>1, <2>2, EarSound
  <1> HIDE DEF said
  <1>4. TypeOK'
    BY <1>1, <1>2, <1>3 DEF IInv, TypeOK, CInv
  <1>5. DecisionsStand'
    BY <1>1, <1>3 DEF IInv, TypeOK, DecisionsStand
  <1> QED
    BY <1>2, <1>4, <1>5 DEF IInv

\* A token, key or handle that is new is undecided.
LEMMA ClientKeepsDecisions ==
    ASSUME IInv, ClientNext,
           decision' = [c \in Clients |->
               IF token'[c] = token[c] /\ pem'[c] = pem[c] /\ handle'[c] = handle[c]
               THEN decision[c] ELSE Undecided]
    PROVE  IInv'
  <1>1. CInv'
    BY ClientNextInv DEF IInv
  <1>2. Undecided \in [looked : BOOLEAN, verified : BOOLEAN,
                       affirming : [raises : Exceptions, value : BOOLEAN]]
    BY DEF Undecided, Returned, Exceptions
  <1>3. TypeOK'
    BY <1>1, <1>2 DEF IInv, TypeOK, CInv
  <1>4. ~Undecided.looked
    BY DEF Undecided
  <1>5. DecisionsStand'
    BY <1>4 DEF IInv, DecisionsStand
  <1> QED
    BY <1>1, <1>3, <1>5 DEF IInv

LEMMA InitInv == Init => IInv
  <1> SUFFICES ASSUME Init PROVE IInv
    OBVIOUS
  <1>1. ClientTypeOK
    <2>1. /\ issued \in [Verifiers -> Seq(Nonces)] /\ live \in [Verifiers -> SUBSET Nat]
          /\ key \in [Verifiers -> Nat] /\ base_url \in [Clients -> Verifiers]
          /\ \A v \in Verifiers : live[v] \subseteq DOMAIN issued[v]
      BY DEF Init, ClientInit
    <2>2. late \in Hosts /\ raised \in [Clients -> Exceptions]
      BY DEF Init, ClientInit, Hosts, Exceptions
    <2>3. /\ call \in [Clients -> Calls] /\ handle \in [Clients -> Handles]
          /\ token \in [Clients -> Tokens] /\ pem \in [Clients -> Keys]
          /\ \A c \in Clients : call[c] = NoCall
      BY Nothing DEF Init, ClientInit
    <2> QED
      BY <2>1, <2>2, <2>3 DEF ClientTypeOK
  <1>2. NoHandle.host \notin Verifiers /\ NoCall.op = "none"
    BY VerifiersAssumption DEF NoHandle, NoCall
  <1>3. \A c \in Clients : handle[c] = NoHandle /\ token[c] = NoToken /\ call[c] = NoCall
    BY DEF Init, ClientInit
  <1>4. HandlesNameTheirSession
    BY <1>2, <1>3 DEF HandlesNameTheirSession
  <1>5. CallsMatch /\ AnswersName
    BY <1>2, <1>3 DEF CallsMatch, AnswersName
  <1>6. TokensEarned
    BY <1>2, <1>3, NothingEarned DEF TokensEarned
  <1>7. ~Undecided.looked /\ Undecided \in [looked : BOOLEAN, verified : BOOLEAN,
                       affirming : [raises : Exceptions, value : BOOLEAN]]
    BY DEF Undecided, Returned, Exceptions
  <1>8. DecisionsStand /\ TypeOK
    BY <1>1, <1>7 DEF Init, DecisionsStand, TypeOK
  <1> QED
    BY <1>1, <1>4, <1>5, <1>6, <1>8 DEF IInv, CInv

LEMMA Inductive == Spec => []IInv
  <1>1. IInv /\ [Next]_vars => IInv'
    <2> SUFFICES ASSUME IInv, [Next]_vars PROVE IInv'
      OBVIOUS
    <2>1. CASE Next
      BY <2>1, ClientKeepsDecisions, JudgeInv DEF Next
    <2>2. CASE UNCHANGED vars
      BY <2>2 DEF vars, clientVars, IInv, CInv, TypeOK, ClientTypeOK, HandlesNameTheirSession,
                  CallsMatch, AnswersName, SessionHost, Names, TokensEarned, DecisionsStand
    <2> QED
      BY <2>1, <2>2
  <1> QED
    BY <1>1, InitInv, PTL DEF Spec

----
(* Theorems *)

\* The state of client and verifiers keeps its types, and live sessions have been opened.
THEOREM RelyingPartyTypes == Spec => []TypeOK
  <1>1. IInv => TypeOK
    BY DEF IInv
  <1> QED
    BY <1>1, Inductive, PTL

\* The nonce and the URL that new_session returns are always those of one session.
THEOREM HandlesAreSessions == Spec => []HandlesNameTheirSession
  <1>1. IInv => HandlesNameTheirSession
    BY DEF IInv, CInv
  <1> QED
    BY <1>1, Inductive, PTL

\* A token that verifies and affirms was signed with the key at hand, after an appraisal
\* that found good evidence for the nonce of the client's session.
THEOREM AcceptanceMeansAppraisal == Spec => []AcceptanceIsEarned
  <1>1. IInv => AcceptanceIsEarned
    <2> SUFFICES ASSUME IInv, NEW c \in Clients, Accepts(c)
                 PROVE  LET appraisal == token[c].appraisal IN
                        /\ appraisal.key = pem[c]
                        /\ appraisal.evidence.good
                        /\ appraisal.evidence.nonce = appraisal.nonce
                        /\ appraisal.nonce = handle[c].nonce
      BY DEF AcceptanceIsEarned
    <2>1. verify_ear_jwt(token[c], pem[c]) /\ ear_is_affirming(token[c]).value
      BY DEF Accepts, IInv, DecisionsStand
    <2>2. token[c].signer = pem[c] /\ token[c].signed = token[c].payload
      BY <2>1 DEF verify_ear_jwt
    <2>3. token[c] \in Tokens
      BY DEF IInv, CInv, ClientTypeOK
    <2>4. Affirms(token[c].signed)
      BY <2>1, <2>2, <2>3, EarSound
    <2>5. Earned(token[c], handle[c].nonce)
      BY DEF IInv, CInv, TokensEarned
    <2> QED
      BY <2>2, <2>4, <2>5 DEF Earned
  <1> QED
    BY <1>1, Inductive, PTL

\* A token that affirms everything and arrives as it was sent is accepted.
THEOREM AppraisalMeansAcceptance == Spec => []EarnedIsAccepted
  <1>1. IInv => EarnedIsAccepted
    <2> SUFFICES ASSUME IInv, NEW c \in Clients, decision[c].looked, ~token[c].damaged,
                        token[c].appraisal.key = pem[c], Affirms(token[c].signed)
                 PROVE  Accepts(c)
      BY DEF EarnedIsAccepted
    <2>1. Earned(token[c], handle[c].nonce)
      BY DEF IInv, CInv, TokensEarned
    <2>2. /\ token[c].parts = 3 /\ token[c].form = "raw" /\ token[c].signer = pem[c]
          /\ token[c].payload = token[c].signed
      BY <2>1 DEF Earned
    <2>3. verify_ear_jwt(token[c], pem[c])
      BY <2>2 DEF verify_ear_jwt, SignatureForm
    <2>4. token[c] \in Tokens
      BY DEF IInv, CInv, ClientTypeOK
    <2>5. ear_is_affirming(token[c]).value
      BY <2>2, <2>4, EarSound
    <2> QED
      BY <2>3, <2>5 DEF Accepts, IInv, DecisionsStand
  <1> QED
    BY <1>1, Inductive, PTL
====
