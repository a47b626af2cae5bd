---- MODULE VerifierClient ----
(***************************************************************************)
(* VerifierClient (simulator/verifier_client.py): new_session, submit and  *)
(* ear_verification_key, each a request, an answer and what the client     *)
(* makes of it.  Answers are lost or come too late.                        *)
(*                                                                         *)
(* The verifiers are external.  One hands out numbered sessions with fresh *)
(* nonces, may open them at another verifier (it then says so with an      *)
(* absolute Location), and signs with a key that a restart replaces.       *)
(* Those in Frameworks are built on VeraisonServiceBase, as its docstring  *)
(* shows: the nonce is written in hex, there is no Location header and no  *)
(* route to a verification key.                                            *)
(***************************************************************************)
EXTENDS EarVerdict, FiniteSetsExt, Sequences

CONSTANTS Clients,      \* callers, each with one VerifierClient at a time
          Verifiers,
          Frameworks,   \* the verifiers built on VeraisonServiceBase
          Unreachable,  \* a host that a Location names and the client cannot resolve
          Payloads,     \* the payloads that verifiers put into tokens
          Faults,       \* sets of things wrong with one answer
          MaxSessions,  \* bound: sessions opened
          MaxRestarts   \* bound: restarts of verifiers

ASSUME VerifiersAssumption == Frameworks \subseteq Verifiers /\ Unreachable \notin Verifiers
ASSUME PayloadsAssumption ==
    \A p \in Payloads :
        /\ p = Payload(p.shape, p.status) /\ p.shape \in Shapes
        /\ p.status \in [DOMAIN p.status -> Statuses]

VARIABLES issued,  \* verifier -> its sessions' nonces, session by session
          live,    \* verifier -> sessions that exist
          key,     \* verifier -> the generation of its signing key
          base_url,  \* client -> the verifier its VerifierClient was made for
          call,    \* client -> the request it waits for, and the answer
          late,    \* where a newSession that nobody waits for is under way to, if one is
          handle,  \* client -> the NewSession returned last
          token,   \* client -> the result of the last submit
          pem,     \* client -> the key fetched last
          raised   \* client -> how its last call ended, until the next one

clientVars == <<issued, live, key, base_url, call, late, handle, token, pem, raised>>
verifierVars == <<issued, live, key, late>>
answerVars == <<base_url, handle, token, pem>>

NoKey == [owner |-> Unreachable, generation |-> 0]

\* A nonce is its session's; one that is decoded wrongly is some other bytes.
Nonce(v, session) == [opener |-> v, session |-> session, misread |-> FALSE]
NoNonce == Nonce(Unreachable, 0)
Misread(nonce) == [nonce EXCEPT !.misread = TRUE]

NoHandle == [nonce |-> NoNonce, host |-> Unreachable, session |-> 0]
NoEvidence == [nonce |-> NoNonce, good |-> FALSE]
NoPayload == Payload("undecodable", NoVerdicts)
NoAppraisal == [key |-> NoKey, nonce |-> NoNonce, evidence |-> NoEvidence]

\* `appraisal` and `damaged` are history: where the token comes from.
NoToken == [parts |-> 1, payload |-> NoPayload, form |-> "raw", signer |-> NoKey,
            signed |-> NoPayload, appraisal |-> NoAppraisal, damaged |-> FALSE]

NoAnswer == [faults |-> {}, nonce |-> NoNonce, location |-> "path", host |-> Unreachable,
             session |-> 0, token |-> NoToken, key |-> NoKey]
NoCall == [op |-> "none", host |-> Unreachable, session |-> 0, evidence |-> NoEvidence,
           answered |-> FALSE, answer |-> NoAnswer]

Hosts == Verifiers \cup {Unreachable}
Keys == [owner : Hosts, generation : Nat]
Nonces == [opener : Hosts, session : Nat, misread : BOOLEAN]
Evidences == [nonce : Nonces, good : BOOLEAN]
Handles == [nonce : Nonces, host : Hosts, session : Nat]
Appraisals == [key : Keys, nonce : Nonces, evidence : Evidences]
Tokens == [parts : Nat, payload : Payloads \cup {NoPayload}, form : {"raw", "der"},
           signer : Keys, signed : Payloads \cup {NoPayload}, appraisal : Appraisals,
           damaged : BOOLEAN]
FaultKinds == {"status", "no_json", "no_object", "no_nonce", "no_string", "bad_base64",
               "no_location", "bad_accept", "bad_pem"}

ASSUME FaultsAssumption == Faults \subseteq SUBSET FaultKinds

Replies == [faults : SUBSET FaultKinds, nonce : Nonces, location : {"path", "absolute"},
            host : Hosts, session : Nat, token : Tokens, key : Keys]
Calls == [op : {"none", "new_session", "submit", "ear_verification_key"}, host : Hosts,
          session : Nat, evidence : Evidences, answered : BOOLEAN, answer : Replies]

\* By the classes of requests and Python: a failed status, a timeout and a failed connection
\* are RequestExceptions, what cannot be decoded is a ValueError.
Exceptions == {"none", "RequestException", "ValueError", "AttributeError", "RuntimeError",
               "TypeError"}

ClientTypeOK ==
    /\ issued \in [Verifiers -> Seq(Nonces)]
    /\ live \in [Verifiers -> SUBSET Nat]
    /\ \A v \in Verifiers : live[v] \subseteq DOMAIN issued[v]
    /\ key \in [Verifiers -> Nat]
    /\ base_url \in [Clients -> Verifiers]
    /\ call \in [Clients -> Calls]
    /\ \A c \in Clients : call[c].op = "none" => call[c] = NoCall
    /\ late \in Hosts
    /\ handle \in [Clients -> Handles]
    /\ token \in [Clients -> Tokens]
    /\ pem \in [Clients -> Keys]
    /\ raised \in [Clients -> Exceptions]

ClientInit ==
    /\ issued = [v \in Verifiers |-> <<>>] /\ live = [v \in Verifiers |-> {}]
    /\ key = [v \in Verifiers |-> 0] /\ late = Unreachable
    /\ base_url \in [Clients -> Verifiers]
    /\ call = [c \in Clients |-> NoCall]
    /\ handle = [c \in Clients |-> NoHandle] /\ token = [c \in Clients |-> NoToken]
    /\ pem = [c \in Clients |-> NoKey] /\ raised = [c \in Clients |-> "none"]

Requests(c, op, host, session, evidence) ==
    /\ call[c].op = "none"
    /\ call' = [call EXCEPT ![c] = [NoCall EXCEPT !.op = op, !.host = host,
                                                  !.session = session, !.evidence = evidence]]
    /\ raised' = [raised EXCEPT ![c] = "none"]

----
(* The client's calls *)

\* A VerifierClient for another verifier; the caller keeps what it has.
NewClient(c, v) ==
    /\ call[c].op = "none" /\ base_url[c] # v
    /\ base_url' = [base_url EXCEPT ![c] = v]
    /\ UNCHANGED <<verifierVars, call, handle, token, pem, raised>>

new_session(c) ==
    /\ Requests(c, "new_session", base_url[c], 0, NoEvidence)
    /\ UNCHANGED <<verifierVars, answerVars>>

\* Evidence for the handle's nonce; that it is good is what the verifier finds out.
submit(c, good) ==
    /\ handle[c] # NoHandle
    /\ Requests(c, "submit", handle[c].host, handle[c].session,
                [nonce |-> handle[c].nonce, good |-> good])
    /\ token' = [token EXCEPT ![c] = NoToken]
    /\ UNCHANGED <<verifierVars, base_url, handle, pem>>

ear_verification_key(c) ==
    /\ Requests(c, "ear_verification_key", base_url[c], 0, NoEvidence)
    /\ UNCHANGED <<verifierVars, answerVars>>

\* Mutant: the answer of the last call is still there.
EndsWithAnswer(c, exception) ==
    /\ call' = [call EXCEPT ![c].op = "none"]
    /\ raised' = [raised EXCEPT ![c] = exception]

Ends(c, exception) ==
    /\ call' = [call EXCEPT ![c] = NoCall]
    /\ raised' = [raised EXCEPT ![c] = exception]

\* The checks of an answer in their order, each with its exception.
NewSessionChecks == <<
    <<"status", "RequestException">>, <<"no_json", "ValueError">>,
    <<"no_object", "AttributeError">>, <<"no_nonce", "RuntimeError">>,
    <<"no_string", "TypeError">>, <<"bad_base64", "ValueError">>,
    <<"no_location", "RuntimeError">>, <<"bad_accept", "TypeError">> >>
SubmitChecks == << <<"status", "RequestException">>, <<"no_json", "ValueError">> >>
KeyChecks == << <<"status", "RequestException">>, <<"bad_pem", "ValueError">> >>

May(checks, faults) == faults \subseteq {checks[i][1] : i \in DOMAIN checks}

FirstFailure(checks, faults) ==
    LET failing == {i \in DOMAIN checks : checks[i][1] \in faults} IN
    IF failing = {} THEN "none"
    ELSE checks[CHOOSE i \in failing : \A j \in failing : i <= j][2]

\* Mutant: only the path of a Location is used.
PathOfLocation(c, answer) == base_url[c]

\* An absolute Location is used as it is, a path is appended to base_url.
SessionHost(c, answer) == IF answer.location = "absolute" THEN answer.host ELSE base_url[c]

NewSessionReturns(c) ==
    /\ call[c].op = "new_session" /\ call[c].answered
    /\ LET answer == call[c].answer
           exception == FirstFailure(NewSessionChecks, answer.faults)
       IN /\ Ends(c, exception)
          /\ IF exception # "none" THEN UNCHANGED <<handle, token>>
             ELSE /\ handle' = [handle EXCEPT ![c] = [nonce |-> answer.nonce,
                                                      host |-> SessionHost(c, answer),
                                                      session |-> answer.session]]
                  /\ token' = [token EXCEPT ![c] = NoToken]
    /\ UNCHANGED <<verifierVars, base_url, pem>>

SubmitReturns(c) ==
    /\ call[c].op = "submit" /\ call[c].answered
    /\ LET exception == FirstFailure(SubmitChecks, call[c].answer.faults)
       IN /\ Ends(c, exception)
          /\ token' = IF exception # "none" THEN token
                      ELSE [token EXCEPT ![c] = call[c].answer.token]
    /\ UNCHANGED <<verifierVars, base_url, handle, pem>>

KeyReturns(c) ==
    /\ call[c].op = "ear_verification_key" /\ call[c].answered
    /\ LET exception == FirstFailure(KeyChecks, call[c].answer.faults)
       IN /\ Ends(c, exception)
          /\ pem' = IF exception # "none" THEN pem
                    ELSE [pem EXCEPT ![c] = call[c].answer.key]
    /\ UNCHANGED <<verifierVars, base_url, handle, token>>

\* requests raises when the timeout has passed; a request the verifier has not seen yet
\* may still reach it (one such request is followed at a time).
Timeout(c) ==
    /\ call[c].op # "none"
    /\ Ends(c, "RequestException")
    /\ late' \in {late} \cup IF call[c].op = "new_session" /\ ~call[c].answered
                                 /\ late = Unreachable
                              THEN {call[c].host} ELSE {}
    /\ UNCHANGED <<issued, live, key, answerVars>>

Unresolved(c) ==
    /\ call[c].op # "none" /\ call[c].host = Unreachable
    /\ Ends(c, "RequestException")
    /\ UNCHANGED <<verifierVars, answerVars>>

----
(* The verifiers *)

Answers(c, answer) ==
    call' = [call EXCEPT ![c].answered = TRUE, ![c].answer = answer]

Awaited(c, op, v) == call[c].op = op /\ call[c].host = v /\ ~call[c].answered

Opened == MapThenSumSet(LAMBDA v : Len(issued[v]), Verifiers)

Opens(v) ==
    /\ Opened < MaxSessions
    /\ issued' = [issued EXCEPT ![v] = Append(@, Nonce(v, Len(@) + 1))]
    /\ live' = [live EXCEPT ![v] = @ \cup {Len(issued[v]) + 1}]

\* What a session's opener writes.  A nonce in hex is base64 too, of other bytes.
SessionAnswer(v, w, faults, nonce, session) ==
    IF v \in Frameworks
    THEN [NoAnswer EXCEPT !.faults = faults \cup {"no_location"}, !.nonce = Misread(nonce),
                          !.session = session]
    ELSE [NoAnswer EXCEPT !.faults = faults, !.nonce = nonce, !.session = session,
                          !.location = IF v = w THEN "path" ELSE "absolute",
                          !.host = w]

\* v opens the session itself, or at w; the host name it gives for w may be of no use.
OpenSession(c, v, w, faults) ==
    /\ Awaited(c, "new_session", v) /\ May(NewSessionChecks, faults)
    /\ v = w \/ {v, w} \cap Frameworks = {}
    /\ Opens(w)
    /\ LET answer == SessionAnswer(v, w, faults, issued'[w][Len(issued'[w])], Len(issued'[w]))
       IN \/ Answers(c, answer)
          \/ v \notin Frameworks
             /\ Answers(c, [answer EXCEPT !.location = "absolute", !.host = Unreachable])
    /\ UNCHANGED <<key, late, answerVars, raised>>

OpenLate(v) ==
    /\ late = v
    /\ late' = Unreachable
    /\ Opens(v) \/ UNCHANGED <<issued, live>>
    /\ UNCHANGED <<key, call, answerVars, raised>>

Affirms(payload) ==
    /\ payload.shape = "submods" /\ payload.status # NoVerdicts
    /\ Range(payload.status) = {"affirming"}

\* A verifier affirms everything only of good evidence made for the session's nonce.
Appraise(c, v, payload, faults) ==
    /\ Awaited(c, "submit", v) /\ May(SubmitChecks, faults)
    /\ call[c].session \in live[v]
    /\ LET evidence == call[c].evidence
           nonce == issued[v][call[c].session]
           mine == [owner |-> v, generation |-> key[v]]
           appraisal == [key |-> mine, nonce |-> nonce, evidence |-> evidence]
       IN /\ Affirms(payload) => evidence.good /\ evidence.nonce = nonce
          /\ Answers(c, [NoAnswer EXCEPT
                 !.faults = faults,
                 !.token = [parts |-> 3, payload |-> payload, form |-> "raw", signer |-> mine,
                            signed |-> payload, appraisal |-> appraisal, damaged |-> FALSE]])
    /\ UNCHANGED <<verifierVars, answerVars, raised>>

GiveKey(c, v, faults) ==
    /\ Awaited(c, "ear_verification_key", v) /\ May(KeyChecks, faults)
    /\ Answers(c, [NoAnswer EXCEPT
           !.faults = IF v \in Frameworks THEN {"status"} ELSE faults,
           !.key = [owner |-> v, generation |-> key[v]]])
    /\ UNCHANGED <<verifierVars, answerVars, raised>>

\* An unknown session, or anything else the verifier refuses.
RefuseRequest(c, v) ==
    /\ call[c].op # "none" /\ call[c].host = v /\ ~call[c].answered
    /\ Answers(c, [NoAnswer EXCEPT !.faults = {"status"}])
    /\ UNCHANGED <<verifierVars, answerVars, raised>>

\* The sessions are gone and there is a new signing key.
Restart(v) ==
    /\ MapThenSumSet(LAMBDA w : key[w], Verifiers) < MaxRestarts
    /\ key' = [key EXCEPT ![v] = @ + 1]
    /\ live' = [live EXCEPT ![v] = {}]
    /\ UNCHANGED <<issued, call, late, answerVars, raised>>

Contrary(payload) == {p \in Payloads : Affirms(p) # Affirms(payload)}

\* A token on its way: parts cut off or added, a contrary payload, or another form.
Damage(c) ==
    /\ call[c].op = "submit" /\ call[c].answered /\ ~call[c].answer.token.damaged
    /\ LET arrived == [call[c].answer.token EXCEPT !.damaged = TRUE]
       IN /\ arrived.parts = 3
          /\ \E other \in {[arrived EXCEPT !.parts = n] : n \in {1, 2, 4}}
                       \cup {[arrived EXCEPT !.payload = p] : p \in Contrary(arrived.payload)}
                       \cup {[arrived EXCEPT !.form = "der"]} :
                 call' = [call EXCEPT ![c].answer.token = other]
    /\ UNCHANGED <<verifierVars, answerVars, raised>>

----
ClientStep(c) ==
    \/ \E v \in Verifiers : NewClient(c, v)
    \/ new_session(c) \/ (\E good \in BOOLEAN : submit(c, good)) \/ ear_verification_key(c)
    \/ NewSessionReturns(c) \/ SubmitReturns(c) \/ KeyReturns(c)
    \/ Timeout(c) \/ Unresolved(c)

VerifierStep(c, v) ==
    \/ \E faults \in Faults :
        \/ \E w \in Verifiers : OpenSession(c, v, w, faults)
        \/ \E payload \in Payloads : Appraise(c, v, payload, faults)
        \/ GiveKey(c, v, faults)
    \/ RefuseRequest(c, v)

ClientNext ==
    \/ \E c \in Clients :
        \/ ClientStep(c)
        \/ \E v \in Verifiers : VerifierStep(c, v)
        \/ Damage(c)
    \/ \E v \in Verifiers : OpenLate(v) \/ Restart(v)

----
(* What makes the client correct *)

\* The nonce and the URL that new_session returns belong to one and the same session of
\* the verifier the URL names, however the Location was written, whoever opened the
\* session, and whatever other sessions were opened or lost in between.
HandlesNameTheirSession ==
    \A c \in Clients : handle[c].host \in Verifiers =>
        /\ handle[c].session \in DOMAIN issued[handle[c].host]
        /\ issued[handle[c].host][handle[c].session] = handle[c].nonce
====
