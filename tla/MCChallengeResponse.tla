---- MODULE MCChallengeResponse ----
(* A small instance of the client, the service and the network between them. *)
EXTENDS ChallengeResponse

CONSTANTS o1, o2, n1, s1, s2

Makes(oid, media) == [oid |-> oid, media |-> media]
Challenge(oid, type, nonce) == [oid |-> oid, type |-> type, nonce |-> nonce]

\* The providers of o1 and o2, and one registered under an OID that is not its own.
MCProviders == {Makes(o1, "token"), Makes(o2, "corim")}
MCRegistrations == {<<o1, Makes(o1, "token")>>, <<o2, Makes(o2, "corim")>>,
                    <<o1, Makes(o2, "corim")>>}
MCEvidence == [oid |-> o1, nonce |-> n1, media |-> "token"]
MCApiCalls == {[op |-> op, session |-> None, payload |-> None] :
                   op \in {"get_verification_info", "new_session"}}
    \cup {[op |-> op, session |-> s1, payload |-> None] : op \in SessionOps \cup ProvisioningOps}
    \cup {[op |-> "submit_evidence", session |-> s1, payload |-> MCEvidence],
          [op |-> "submit_corim", session |-> None, payload |-> MCEvidence]}
MCItems == {Challenge(o1, None, n1)}
MCCmpLists == {<<Challenge(None, None, n1), Challenge(o1, o2, n1)>>,
               <<Challenge(None, o2, Empty)>>,
               <<Challenge(None, o2, n1), Challenge(None, o1, n1)>>}

----
(* The bound on what is mixed in one behaviour *)

\* The calls of the REST API other than the one a dispatch needs before it.
Plain == {a.op : a \in MCApiCalls} \ {"new_session"}

\* Evidence is dispatched for any providers, among new sessions and whatever became of
\* earlier dispatches.
Dispatches ==
    /\ call.op \notin Plain
    /\ \A m \in wire : m.op \in {"new_session"} \cup BodyOps

\* The second session is the one a CoRIM of a dispatch is put into.
SecondIsCorim ==
    /\ s1 \in created /\ \E h \in handled : h.session = s2
    /\ call.op \in {"none"} \cup Distributing

\* Every call and every dispatch but the CMP ones, with at most the token provider of o1.
OneProvider ==
    /\ providers \in {<<>>, <<<<o1, Makes(o1, "token")>>>>}
    /\ call.op # "cmp"
    /\ s2 \notin created

Focus ==
    /\ call.session # s2
    /\ \/ Dispatches /\ (s2 \in created => SecondIsCorim)
       \/ OneProvider
====
