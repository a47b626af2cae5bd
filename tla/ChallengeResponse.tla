---- MODULE ChallengeResponse ----
(***************************************************************************)
(* AttestClient and a service on VeraisonServiceBase, over a network that  *)
(* loses requests and responses, with a client that gives up on requests   *)
(* still under way and then goes on with other calls.                      *)
(***************************************************************************)
EXTENDS AttestClient, VeraisonService

VARIABLE deleted  \* history only: sessions whose deletion the client saw succeed

clientVars == <<providers, call>>
vars == <<wire, sent, providers, call, sessions, created, handled, deleted>>

TypeOK == WireTypeOK /\ ClientTypeOK /\ ServiceTypeOK /\ deleted \subseteq created

Init == WireInit /\ ClientInit /\ ServiceInit /\ deleted = {}

Returns == call.outcome = "pending" /\ call'.outcome = "returned"

CallStep ==
    /\ CallGoesOn
    /\ deleted' = IF Returns /\ call.op \in {"delete_session", "delete_provisioning_session"}
                  THEN deleted \cup {call.session} ELSE deleted
    /\ UNCHANGED serviceVars

CallerStep == (CallBegins \/ Registers) /\ UNCHANGED <<serviceVars, deleted>>

ServiceStep == ServiceNext /\ UNCHANGED <<providers, call, deleted>>

Loss ==
    /\ \E m \in wire : Lose(m)
    /\ UNCHANGED <<clientVars, serviceVars, deleted>>

Next == CallStep \/ CallerStep \/ ServiceStep \/ Loss

Spec == Init /\ [][Next]_vars

\* The client is not stopped, providers return or raise, and requests time out.
FairSpec == Spec /\ WF_vars(CallStep)

----
(* What makes the exchange correct *)

Distributed(entry) ==
    \E h \in handled :
        /\ h.id = entry.id
        /\ h.payload = entry.result
        /\ h.op = IF entry.result.media = "corim" THEN "submit_corim" ELSE "submit_evidence"
        /\ entry.result.media = "token" => h.session = call.session

\* A response in the result of a distribute call is the service's to this very
\* evidence: it was handled by the endpoint of its media type and, a token, in the
\* session of the call, whatever was lost, refused or late in earlier calls.
ResponsesAreEarned ==
    call.op \in Distributing => \A i \in DOMAIN call.out : Distributed(call.out[i])

\* Evidence of every provider: if distribute_all_provider_evidence or
\* generate_all_evidence returns, each OID registered at that moment is in the result
\* once, also if providers were registered or replaced during the call.
AllProvidersAnswer ==
    [][(Returns /\ call.op \in Loops) =>
           /\ {call.out[i].result.oid : i \in DOMAIN call.out} = Registered
           /\ Len(call.out) = Cardinality(Registered)
           /\ \A i \in DOMAIN call.out : call.out[i].result.nonce = call.nonce]_vars

\* Once the client has seen a session deleted, nothing is worked on in it any more: not
\* even a submission that was under way when the client gave up on it and deleted the
\* session.
DeletedSessionsRest ==
    [][\A h \in handled' \ handled : h.session \notin deleted]_vars

\* The result of the CMP calls is parallel to the nonce responses: evidence i covers
\* nonce i, which is not empty, and has the OID asked for.  A response that asks for none
\* is answered by the provider that was the only one, which is the first from then on,
\* whatever is registered while the list is worked through.
CmpEvidenceIsParallel ==
    [][(Returns /\ call.op = "cmp") =>
        /\ Len(call.out) = Len(call.items)
        /\ \A i \in DOMAIN call.out :
               LET item == call.items[i]
               IN  /\ call.out[i].result.nonce = item.nonce
                   /\ item.nonce # Empty
                   /\ item.oid # None => call.out[i].result.oid = item.oid
                   /\ (item.oid = None /\ item.type # None) =>
                          call.out[i].result.oid = item.type
                   /\ (item.oid = None /\ item.type = None) =>
                          call.out[i].result.oid = providers[1][1]]_vars

\* Every call ends, also when requests or answers are lost, the service is silent or
\* a session is gone, and over all the requests of a loop.  The timeout of requests is
\* one per connection and per read: a service that trickles an answer could hold a call
\* for longer, and is left out.
CallsEnd == []<>(call.outcome # "pending")
====
