---- MODULE VeraisonService ----
(***************************************************************************)
(* VeraisonServiceBase (verifier_service.py): one event loop that runs a   *)
(* coroutine per request.  The two submissions await the request body, so  *)
(* other requests are handled between their arrival and their work; the    *)
(* others run in one piece.  The session store is the subclass's: it is    *)
(* modelled from what the base class asks of it.                           *)
(***************************************************************************)
EXTENDS HttpWire

VARIABLES sessions,  \* live session -> its API and its state
          created,   \* the session identifiers given out so far
          handled    \* history only: the submissions that were worked on

serviceVars == <<sessions, created, handled>>

Session == [api : {"verification", "provisioning"},
            state : {"waiting", "processing", "complete"}]
Submission == [id : 1 .. MaxRequests, op : BodyOps, session : Sessions, payload : Evidence]

ServiceTypeOK ==
    /\ created \subseteq Sessions
    /\ DOMAIN sessions \subseteq created
    /\ \A s \in DOMAIN sessions : sessions[s] \in Session
    /\ handled \subseteq Submission

ServiceInit ==
    /\ sessions = [s \in {} |-> 0]
    /\ created = {}
    /\ handled = {}

\* body = await request.body(): the handler yields to the event loop.
AwaitBody(m) ==
    /\ m.stage = "sent" /\ m.op \in BodyOps
    /\ Becomes(m, [m EXCEPT !.stage = "body"])
    /\ UNCHANGED <<sent, sessions, created, handled>>

\* The rest of the handler runs without an await.
Runs(m, op) == m.op = op /\ m.stage = IF op \in BodyOps THEN "body" ELSE "sent"

Answer(m, ok) ==
    /\ Becomes(m, [m EXCEPT !.stage = "answered", !.ok = ok])
    /\ UNCHANGED sent

\* json.dumps may refuse the document the method has returned: 500, after the work.
AnswerDocument(m) == \E ok \in BOOLEAN : Answer(m, ok)

\* The handler raises: HTTPException, or any other exception answered with 500.
Refuse(m) == Answer(m, FALSE) /\ UNCHANGED serviceVars

\* Mutant: the session is the one found when the request arrived.
FoundOnArrival(m, api) == m.session \in created

\* The session a request names, looked up by the method its handler calls.
Found(m, api) == m.session \in DOMAIN sessions /\ sessions[m.session].api = api

Opened(s, api, state) ==
    /\ created' = created \cup {s}
    /\ sessions' = [t \in DOMAIN sessions \cup {s} |->
                       IF t = s THEN [api |-> api, state |-> state] ELSE sessions[t]]

GetVerificationInfo(m) ==
    /\ Runs(m, "get_verification_info")
    /\ Answer(m, TRUE) /\ UNCHANGED serviceVars

NewSession(m, s) ==
    /\ Runs(m, "new_session")
    /\ s \notin created
    /\ Opened(s, "verification", "waiting")
    /\ AnswerDocument(m) /\ UNCHANGED handled

\* The appraisal may be done in the call or go on after it.
SubmitEvidence(m, state) ==
    /\ Runs(m, "submit_evidence")
    /\ Found(m, "verification")
    /\ state \in {"processing", "complete"}
    /\ sessions' = [sessions EXCEPT ![m.session].state = state]
    /\ handled' = handled \cup {[id |-> m.id, op |-> m.op, session |-> m.session,
                                 payload |-> m.payload]}
    /\ AnswerDocument(m) /\ UNCHANGED created

SubmitCorim(m, s, state) ==
    /\ Runs(m, "submit_corim")
    /\ s \notin created
    /\ state \in {"processing", "complete"}
    /\ Opened(s, "provisioning", state)
    /\ handled' = handled \cup {[id |-> m.id, op |-> m.op, session |-> s,
                                 payload |-> m.payload]}
    /\ AnswerDocument(m)

GetSession(m) ==
    /\ \/ Runs(m, "get_session") /\ Found(m, "verification")
       \/ Runs(m, "get_provisioning_session") /\ Found(m, "provisioning")
    /\ Answer(m, TRUE) /\ UNCHANGED serviceVars

DeleteSession(m) ==
    /\ \/ Runs(m, "delete_session") /\ Found(m, "verification")
       \/ Runs(m, "delete_provisioning_session") /\ Found(m, "provisioning")
    /\ sessions' = [t \in DOMAIN sessions \ {m.session} |-> sessions[t]]
    /\ Answer(m, TRUE) /\ UNCHANGED <<created, handled>>

Raises(m) == (\E op \in Ops : Runs(m, op)) /\ Refuse(m)

\* The store on its own: an appraisal ends, a session expires.
Completes(s) ==
    /\ sessions[s].state = "processing"
    /\ sessions' = [sessions EXCEPT ![s].state = "complete"]
    /\ UNCHANGED <<wire, sent, created, handled>>

Expires(s) ==
    /\ sessions' = [t \in DOMAIN sessions \ {s} |-> sessions[t]]
    /\ UNCHANGED <<wire, sent, created, handled>>

Serves(m) ==
    \/ AwaitBody(m)
    \/ GetVerificationInfo(m) \/ GetSession(m) \/ DeleteSession(m)
    \/ \E s \in Sessions : NewSession(m, s)
    \/ \E state \in {"processing", "complete"} :
           SubmitEvidence(m, state) \/ \E s \in Sessions : SubmitCorim(m, s, state)
    \/ Raises(m)

ServiceNext ==
    \/ \E m \in wire : Serves(m)
    \/ \E s \in DOMAIN sessions : Completes(s) \/ Expires(s)
====
