---- MODULE AttestClient ----
(***************************************************************************)
(* AttestClient (attest_client.py): evidence providers registered by OID,  *)
(* the calls that ask them for evidence, one after another, and submit it  *)
(* to the endpoint its media type belongs to, and the plain HTTP calls.    *)
(* Providers take any time; they, or other threads, may register providers *)
(* meanwhile.  Each request is answered, refused, or given up on.          *)
(***************************************************************************)
EXTENDS HttpWire

CONSTANTS Providers,      \* provider objects
          Registrations,  \* <<oid, provider>> pairs register_provider may be called with
          ApiCalls,       \* arguments of the plain calls of the REST API
          Items,          \* OID and nonce arguments of calls for one provider
          CmpLists        \* arguments of the CMP calls: nonce responses, or one and an OID

\* A challenge to answer: the oid argument, the type of the CMP response and its
\* nonce.
Item == [oid : Oids \cup {None}, type : Oids \cup {None}, nonce : Nonces \cup {Empty, None}]

\* What provider p puts into its results.
Provider == [oid : Oids, media : {"corim", "token"}]

ASSUME ClientAssumption ==
    /\ Providers \subseteq Provider
    /\ Registrations \subseteq Oids \X Providers
    /\ ApiCalls \subseteq [op : Ops, session : Sessions \cup {None},
                            payload : Evidence \cup {None}]
    /\ \A a \in ApiCalls :
           /\ a.payload # None <=> a.op \in BodyOps
           /\ a.session # None <=> a.op \in SessionArgument
    /\ Items \subseteq {i \in Item : i.oid # None /\ i.type = None}
    /\ CmpLists \subseteq Seq(Item)

VARIABLES providers,  \* self._providers as a sequence of <<oid, provider>>, in dict order
          call        \* the call in progress, or the last one

Registered == {providers[i][1] : i \in DOMAIN providers}
Lookup(oid) == (CHOOSE i \in DOMAIN providers : providers[i][1] = oid)

Loops == {"generate_all", "distribute_all"}  \* for oid in self._providers
Lists == {"generate", "distribute", "cmp"}   \* one item, or one per CMP response
Distributing == {"distribute", "distribute_all"}

\* size: of the dict when the loop began; at: the round; asked: the provider asked,
\* for which OID and with which nonce; wait: id of the request waited for; out: the
\* results so far, with the id of the request that submitted them.
Call == [op : {"none"} \cup Ops \cup Loops \cup Lists,
         items : Seq(Item), nonce : Nonces \cup {Empty, None}, session : Sessions \cup {None},
         size : Nat, at : Nat \ {0}, phase : {"next", "provider", "http"},
         asked : [oid : Oids, nonce : Nonces \cup {Empty, None}, provider : Providers]
                 \cup {None},
         wait : 0 .. MaxRequests, out : Seq([result : Evidence, id : 0 .. MaxRequests]),
         outcome : {"pending", "returned", "raised"}]

NoCall == [op |-> "none", items |-> <<>>, nonce |-> None, session |-> None, size |-> 0,
           at |-> 1, phase |-> "next", asked |-> None, wait |-> 0, out |-> <<>>,
           outcome |-> "returned"]

ClientTypeOK ==
    /\ providers \in Seq(Oids \X Providers)
    /\ \A i, j \in DOMAIN providers : providers[i][1] = providers[j][1] => i = j
    /\ call \in Call

ClientInit == providers = <<>> /\ call = NoCall

\* providers[oid] = provider: in place, or at the end of the dict.
RegisterProvider(oid, provider) ==
    /\ providers' = IF oid \in Registered
                    THEN [providers EXCEPT ![Lookup(oid)] = <<oid, provider>>]
                    ELSE Append(providers, <<oid, provider>>)
    /\ UNCHANGED <<call, wire, sent>>

----
(* Calls begin *)

Idle == call.outcome # "pending"

Begin(op) == [NoCall EXCEPT !.op = op, !.outcome = "pending"]

\* A plain call of the REST API; submissions of given evidence among them.
CallApi(a) ==
    /\ Idle
    /\ Send(a.op, a.session, a.payload)
    /\ call' = [Begin(a.op) EXCEPT !.session = a.session, !.phase = "http", !.wait = sent']
    /\ UNCHANGED providers

CallLoop(op, nonce, session) ==
    /\ Idle
    /\ call' = [Begin(op) EXCEPT !.nonce = nonce, !.session = session,
                                 !.size = Len(providers)]
    /\ UNCHANGED <<providers, wire, sent>>

CallList(op, items, session) ==
    /\ Idle
    /\ call' = [Begin(op) EXCEPT !.items = items, !.session = session]
    /\ UNCHANGED <<providers, wire, sent>>

----
(* Calls go on *)

Running(phase) == call.outcome = "pending" /\ call.phase = phase

Over(outcome) == [NoCall EXCEPT !.outcome = outcome]

Ends(outcome) ==
    /\ call' = Over(outcome)
    /\ UNCHANGED <<providers, wire, sent>>

Ask(oid, nonce) ==
    /\ call' = [call EXCEPT !.phase = "provider",
                            !.asked = [oid |-> oid, nonce |-> nonce,
                                       provider |-> providers[Lookup(oid)][2]]]
    /\ UNCHANGED <<providers, wire, sent>>

\* Mutant: the loop runs over a copy of the keys.
NeverChanged == FALSE

\* An iterator over a dict raises RuntimeError once the dict has another size, even
\* if it has already returned every key.
SizeChanged == Len(providers) # call.size

NextProvider ==
    /\ Running("next") /\ call.op \in Loops
    /\ IF SizeChanged THEN Ends("raised")
       ELSE IF call.at > call.size THEN Ends("returned")
       ELSE Ask(providers[call.at][1], call.nonce)

\* The OID an item selects, as a singleton; {} where the code raises.
Selected(item) ==
    IF item.oid # None THEN {item.oid}
    ELSE IF item.type # None THEN {item.type}
    ELSE IF Cardinality(Registered) = 1 THEN Registered
    ELSE {}

\* Mutant: a response with an empty nonce is passed over.
EmptySkipped(item) ==
    /\ call' = [call EXCEPT !.at = @ + 1]
    /\ UNCHANGED <<providers, wire, sent>>

\* CMP response with an empty nonce: ValueError.
EmptyNonce(item) == Ends("raised")

NextItem ==
    /\ Running("next") /\ call.op \in Lists
    /\ IF call.at > Len(call.items) THEN Ends("returned")
       ELSE LET item == call.items[call.at]
            IN  IF call.op = "cmp" /\ item.nonce = Empty THEN EmptyNonce(item)
                ELSE IF Selected(item) \cap Registered = {} THEN Ends("raised")
                ELSE \E oid \in Selected(item) : Ask(oid, item.nonce)

\* The round is over with this result.
Collected(result, id) ==
    [call EXCEPT !.out = Append(@, [result |-> result, id |-> id]), !.at = @ + 1,
                 !.phase = "next", !.asked = None, !.wait = 0]

\* Mutant: a token goes out without a session.
DistributeAnyway(result) ==
    /\ IF result.media = "corim" THEN Send("submit_corim", None, result)
       ELSE Send("submit_evidence", call.session, result)
    /\ call' = [call EXCEPT !.phase = "http", !.wait = sent']
    /\ UNCHANGED providers

\* distribute_attest_result: by media type; a token needs a session.
Distribute(result) ==
    IF result.media = "token" /\ call.session = None THEN Ends("raised")
    ELSE /\ IF result.media = "corim" THEN Send("submit_corim", None, result)
            ELSE Send("submit_evidence", call.session, result)
         /\ call' = [call EXCEPT !.phase = "http", !.wait = sent']
         /\ UNCHANGED providers

\* The nonce a result covers is the one its provider was asked with.
ProviderReturns ==
    /\ Running("provider")
    /\ LET p == call.asked.provider
           result == [oid |-> p.oid, nonce |-> call.asked.nonce, media |-> p.media]
       IN  IF p.oid # call.asked.oid THEN Ends("raised")
           ELSE IF call.op \in Distributing THEN Distribute(result)
           ELSE /\ call' = Collected(result, 0)
                /\ UNCHANGED <<providers, wire, sent>>

ProviderRaises == Running("provider") /\ Ends("raised")

\* What was submitted: the evidence of the provider that was asked.
Submitted == [oid |-> call.asked.oid, nonce |-> call.asked.nonce,
              media |-> call.asked.provider.media]

\* Mutant: no raise_for_status.
AnyStatus(m) == TRUE

\* raise_for_status does not raise.
Successful(m) == m.ok

ResponseArrives(m) ==
    /\ Running("http")
    /\ m.id = call.wait /\ m.stage = "answered"
    /\ wire' = wire \ {m}
    /\ call' = IF ~Successful(m) THEN Over("raised")
               ELSE IF call.op \in Distributing THEN Collected(Submitted, m.id)
               ELSE Over("returned")
    /\ UNCHANGED <<providers, sent>>

\* Mutant: requests without a timeout.
NeverGivesUp == FALSE

\* Timeout, connection error, or a response that is no JSON; the request may still be
\* on its way, but its connection is closed.
GivesUp ==
    /\ Running("http")
    /\ call' = Over("raised")
    /\ \/ \E m \in wire : m.id = call.wait /\ Becomes(m, [m EXCEPT !.awaited = FALSE])
       \/ (\A m \in wire : m.id # call.wait) /\ UNCHANGED wire
    /\ UNCHANGED <<providers, sent>>

CallGoesOn ==
    \/ NextProvider \/ NextItem
    \/ ProviderReturns \/ ProviderRaises
    \/ \E m \in wire : ResponseArrives(m)
    \/ GivesUp

CallBegins ==
    \/ \E a \in ApiCalls : CallApi(a)
    \/ \E n \in Nonces \cup {None} :
           \/ CallLoop("generate_all", n, None)
           \/ \E s \in Sessions \cup {None} : CallLoop("distribute_all", n, s)
    \/ \E i \in Items :
           \/ CallList("generate", <<i>>, None)
           \/ \E s \in Sessions \cup {None} : CallList("distribute", <<i>>, s)
    \/ \E items \in CmpLists : CallList("cmp", items, None)

Registers == \E r \in Registrations : RegisterProvider(r[1], r[2])
====
