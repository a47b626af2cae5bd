---- MODULE HttpWire ----
(***************************************************************************)
(* The HTTP requests under way between an AttestClient and a service built *)
(* on VeraisonServiceBase.  A request or its response may be lost, and the *)
(* client may give up on a request that is still on its way: it is handled *)
(* all the same.  requests' adapters do not retry, so nothing is sent      *)
(* twice.                                                                  *)
(***************************************************************************)
EXTENDS Naturals, Sequences, FiniteSets

CONSTANTS Oids,         \* evidence-format OIDs
          Nonces,       \* non-empty nonces
          Empty,        \* the empty nonce
          Sessions,     \* session identifiers
          MaxRequests,  \* bound: requests of one behaviour
          None          \* Python's None

\* What an evidence provider makes, and what a submission carries.
Evidence == [oid : Oids, nonce : Nonces \cup {Empty, None}, media : {"corim", "token"}]

ASSUME WireAssumption ==
    /\ MaxRequests \in Nat
    /\ None \notin Oids \cup Nonces \cup Sessions \cup {Empty}
    /\ None \notin Evidence
    /\ Empty \notin Nonces

VARIABLES wire,  \* the requests under way
          sent   \* number of requests sent so far

\* The operations of the two REST APIs, by the name of their handler.
BodyOps == {"submit_evidence", "submit_corim"}
SessionOps == {"get_session", "delete_session"}
ProvisioningOps == {"get_provisioning_session", "delete_provisioning_session"}
SessionArgument == {"submit_evidence"} \cup SessionOps \cup ProvisioningOps
Ops == BodyOps \cup SessionOps \cup ProvisioningOps
       \cup {"get_verification_info", "new_session"}

Message == [id : 1 .. MaxRequests, op : Ops, session : Sessions \cup {None},
            payload : Evidence \cup {None},
            stage : {"sent", "body", "answered"}, ok : BOOLEAN, awaited : BOOLEAN]

WireTypeOK ==
    /\ wire \subseteq Message
    /\ \A m \in wire : (m.op \in SessionArgument <=> m.session # None)
                      /\ (m.op \in BodyOps <=> m.payload # None)
    /\ sent \in 0 .. MaxRequests

WireInit == wire = {} /\ sent = 0

\* A request leaves; its id is sent'.
Send(op, session, payload) ==
    /\ sent < MaxRequests
    /\ sent' = sent + 1
    /\ wire' = wire \cup {[id |-> sent + 1, op |-> op, session |-> session,
                           payload |-> payload, stage |-> "sent", ok |-> FALSE,
                           awaited |-> TRUE]}

\* Message m goes on as new; an answer nobody waits for goes nowhere.
Becomes(m, new) ==
    wire' = (wire \ {m}) \cup (IF new.awaited \/ new.stage # "answered" THEN {new} ELSE {})

Lose(m) == wire' = wire \ {m} /\ UNCHANGED sent
====
