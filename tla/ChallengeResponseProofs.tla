---- MODULE ChallengeResponseProofs ----
(***************************************************************************)
(* The challenge-response exchange, for any OIDs, providers, registrations *)
(* and calls, any number of sessions and requests, and a network that      *)
(* loses what it likes: what the results of a call stand for.              *)
(***************************************************************************)
EXTENDS ChallengeResponse, FiniteSetTheorems, TLAPS

Pending == call.outcome = "pending"
Asking == [oid : Oids, nonce : Nonces \cup {Empty, None}, provider : Providers]
Deletions == {"delete_session", "delete_provisioning_session"}

----
(* The inductive invariant *)

\* No request has a number that has not been given out, so a new one is told apart.
Numbered == \A m \in wire : m.id <= sent

\* A submission has been worked on, if its answer says so, and in the session it named.
Worked(m) ==
    \E h \in handled :
        /\ h.id = m.id /\ h.op = m.op /\ h.payload = m.payload
        /\ m.op = "submit_evidence" => h.session = m.session

\* A successful answer on its way is true, and will still be when it arrives: what was
\* worked on stays so, and a session that is gone does not come back.
AnswersTrue ==
    \A m \in wire : (m.stage = "answered" /\ m.ok) =>
        /\ m.op \in BodyOps => Worked(m)
        /\ m.op \in Deletions => m.session \in created \ DOMAIN sessions

\* The request that the call sent in this round.
OwnRequest(m) ==
    IF call.op \in Distributing
    THEN /\ m.payload = Submitted
         /\ m.op = IF Submitted.media = "corim" THEN "submit_corim" ELSE "submit_evidence"
         /\ Submitted.media = "token" => m.session = call.session
    ELSE m.op = call.op /\ m.session = call.session

\* The call waits for its own request and not for one it gave up on earlier.
WaitsForOwn == Running("http") => \A m \in wire : m.id = call.wait => OwnRequest(m)

\* Where a call can be.  One that is over holds nothing.
CallShape ==
    /\ ~Pending => call = Over(call.outcome)
    /\ Pending =>
           /\ call.op \in Ops \cup Loops \cup Lists
           /\ call.phase = "http" => call.op \in Ops \cup Distributing
           /\ call.op \in Ops => call.phase = "http"
           /\ (call.op \in Loops \cup Lists /\ call.phase # "next") => call.asked \in Asking

\* The rounds of a loop over the providers: round i was about the i-th key of the dict,
\* and the keys the dict had when the loop began are still where they were.
LoopRounds ==
    (Pending /\ call.op \in Loops) =>
        /\ call.size <= Len(providers)
        /\ call.at <= call.size + 1
        /\ Len(call.out) = call.at - 1
        /\ \A i \in 1 .. Len(call.out) : /\ call.out[i].result.oid = providers[i][1]
                                         /\ call.out[i].result.nonce = call.nonce
        /\ call.phase # "next" => /\ call.at <= call.size
                                  /\ call.asked.oid = providers[call.at][1]
                                  /\ call.asked.nonce = call.nonce

\* Evidence with this OID and nonce answers the item.
Fulfils(oid, nonce, item) ==
    /\ nonce = item.nonce /\ item.nonce # Empty
    /\ item.oid # None => oid = item.oid
    /\ (item.oid = None /\ item.type # None) => oid = item.type
    /\ (item.oid = None /\ item.type = None) => providers # <<>> /\ oid = providers[1][1]

\* The rounds of a CMP call: round i was about the i-th nonce response.
CmpRounds ==
    (Pending /\ call.op = "cmp") =>
        /\ call.at <= Len(call.items) + 1
        /\ Len(call.out) = call.at - 1
        /\ \A i \in 1 .. Len(call.out) :
               Fulfils(call.out[i].result.oid, call.out[i].result.nonce, call.items[i])
        /\ call.phase # "next" =>
               /\ call.at <= Len(call.items)
               /\ Fulfils(call.asked.oid, call.asked.nonce, call.items[call.at])

DeletedGone == deleted \cap DOMAIN sessions = {}

IInv == /\ TypeOK /\ Numbered /\ AnswersTrue /\ WaitsForOwn /\ CallShape
        /\ LoopRounds /\ CmpRounds /\ ResponsesAreEarned /\ DeletedGone

----
(* What a step does to the requests under way *)

\* A new request: typed, and the only one with its number.
LEMMA SendKeeps ==
    ASSUME WireTypeOK, Numbered, NEW op \in Ops, NEW session \in Sessions \cup {None},
           NEW payload \in Evidence \cup {None},
           op \in SessionArgument <=> session # None, op \in BodyOps <=> payload # None,
           Send(op, session, payload)
    PROVE  /\ WireTypeOK' /\ Numbered'
           /\ sent' \in 1 .. MaxRequests
           /\ \A m \in wire : m \in wire' /\ m.id # sent'
           /\ \A m \in wire' \ wire : /\ m.id = sent' /\ m.op = op /\ m.session = session
                                     /\ m.payload = payload /\ m.stage = "sent"
<1> DEFINE new == [id |-> sent + 1, op |-> op, session |-> session, payload |-> payload,
                   stage |-> "sent", ok |-> FALSE, awaited |-> TRUE]
<1>1. /\ sent < MaxRequests /\ sent' = sent + 1 /\ wire' = wire \cup {new}
      /\ sent \in Nat /\ sent' \in 1 .. MaxRequests
  BY WireAssumption DEF Send, WireTypeOK
<1>2. new \in Message
  BY <1>1 DEF Message
<1>3. /\ new.id = sent' /\ new.op = op /\ new.session = session /\ new.payload = payload
      /\ new.stage = "sent"
  BY <1>1
<1> HIDE DEF new
<1>4. \A m \in wire : m.id \in Nat /\ m.id <= sent
  BY WireAssumption DEF WireTypeOK, Message, Numbered
<1>5. \A m \in wire : m.id # sent'
  BY <1>1, <1>4
<1>6. WireTypeOK'
  BY <1>1, <1>2, <1>3, WireAssumption DEF WireTypeOK
<1>7. Numbered'
  BY <1>1, <1>3, <1>4 DEF Numbered
<1> QED BY <1>1, <1>3, <1>5, <1>6, <1>7

\* Nothing is sent: whatever is under way was so, with the same number and contents.
Carried ==
    /\ sent' = sent
    /\ \A k \in wire' : \E m \in wire : /\ k.id = m.id /\ k.op = m.op
                                       /\ k.session = m.session /\ k.payload = m.payload

LEMMA BecomesCarries ==
    ASSUME WireTypeOK, NEW m \in wire, NEW new \in Message, new.id = m.id, new.op = m.op,
           new.session = m.session, new.payload = m.payload, sent' = sent, Becomes(m, new)
    PROVE  /\ WireTypeOK' /\ Carried
           /\ \A k \in wire' \ wire : k = new
<1>1. m \in Message
  BY DEF WireTypeOK
<1>3. \A k \in wire' : k \in wire \/ k = new
  BY DEF Becomes
<1>4. WireTypeOK'
  BY <1>3 DEF WireTypeOK
<1>5. Carried
  BY <1>3 DEF Carried
<1> QED BY <1>3, <1>4, <1>5

\* A message is lost, or its answer has arrived.
LEMMA LossCarries ==
    ASSUME WireTypeOK, NEW m, wire' = wire \ {m}, sent' = sent
    PROVE  WireTypeOK' /\ Carried /\ wire' \subseteq wire
BY DEF WireTypeOK, Carried

LEMMA CarriedNumbers ==
    ASSUME Numbered, Carried
    PROVE  Numbered'
BY DEF Numbered, Carried

\* A step of the service or the network leaves the call waiting for its own request.
LEMMA CarriedOwn ==
    ASSUME WaitsForOwn, Carried, UNCHANGED call
    PROVE  WaitsForOwn'
<1> SUFFICES ASSUME Running("http"), NEW k \in wire', k.id = call.wait
             PROVE  OwnRequest(k)
  BY DEF WaitsForOwn, OwnRequest, Running, Submitted
<1>1. PICK m \in wire : /\ k.id = m.id /\ k.op = m.op
                       /\ k.session = m.session /\ k.payload = m.payload
  BY DEF Carried
<1>2. OwnRequest(m)
  BY <1>1 DEF WaitsForOwn
<1> QED BY <1>1, <1>2 DEF OwnRequest

----
(* What a step of the client does to its call *)

\* What the client's own steps need and keep.
ClientInv == /\ WireTypeOK /\ ClientTypeOK /\ Numbered /\ WaitsForOwn /\ CallShape
             /\ LoopRounds /\ CmpRounds

NonceArgument == Nonces \cup {Empty, None}
Entries == [result : Evidence, id : 0 .. MaxRequests]

\* Fields of a call may be replaced by values of their types.
LEMMA FieldsTyped ==
    ASSUME NEW c \in Call
    PROVE  /\ \A asked \in Asking :
                  [c EXCEPT !.phase = "provider", !.asked = asked] \in Call
           /\ \A id \in 0 .. MaxRequests : [c EXCEPT !.phase = "http", !.wait = id] \in Call
           /\ \A out \in Seq(Entries), at \in Nat \ {0} :
                  [c EXCEPT !.out = out, !.at = at, !.phase = "next", !.asked = None,
                            !.wait = 0] \in Call
<1>1. 0 \in 0 .. MaxRequests
  BY WireAssumption
<1>2. ASSUME NEW asked \in Asking
      PROVE  [c EXCEPT !.phase = "provider", !.asked = asked] \in Call
  BY <1>2 DEF Call, Asking
<1>3. ASSUME NEW id \in 0 .. MaxRequests
      PROVE  [c EXCEPT !.phase = "http", !.wait = id] \in Call
  BY <1>3 DEF Call
<1>4. ASSUME NEW out \in Seq(Entries), NEW at \in Nat \ {0}
      PROVE  [c EXCEPT !.out = out, !.at = at, !.phase = "next", !.asked = None,
                       !.wait = 0] \in Call
  BY <1>1, <1>4 DEF Call, Entries
<1> QED BY <1>2, <1>3, <1>4

LEMMA NoCallTyped == NoCall \in Call
<1>1. 0 \in 0 .. MaxRequests
  BY WireAssumption
<1> QED BY <1>1 DEF NoCall, Call

LEMMA OverTyped ==
    ASSUME NEW outcome \in {"returned", "raised"}
    PROVE  /\ Over(outcome) \in Call /\ Over(outcome).op = "none"
           /\ Over(outcome).outcome = outcome /\ Over(outcome).out = <<>>
<1>1. NoCall.op = "none" /\ NoCall.out = <<>>
  BY DEF NoCall
<1> QED BY <1>1, NoCallTyped DEF Over, Call

LEMMA BeginTyped ==
    ASSUME NEW op \in Ops \cup Loops \cup Lists
    PROVE  /\ Begin(op) \in Call /\ Begin(op).op = op /\ Begin(op).outcome = "pending"
           /\ Begin(op).out = <<>> /\ Begin(op).at = 1 /\ Begin(op).phase = "next"
<1>1. NoCall.out = <<>> /\ NoCall.at = 1 /\ NoCall.phase = "next"
  BY DEF NoCall
<1> QED BY <1>1, NoCallTyped DEF Begin, Call

\* The call is over: nothing is left of it.
LEMMA EndInv ==
    ASSUME ClientInv, NEW outcome \in {"returned", "raised"}, call' = Over(outcome),
           UNCHANGED providers, WireTypeOK', Numbered'
    PROVE  ClientInv' /\ ResponsesAreEarned'
<1>1. /\ call' \in Call /\ call'.op = "none" /\ call'.outcome = outcome
      /\ call'.outcome # "pending"
  BY OverTyped
<1>2. ClientTypeOK'
  BY <1>1 DEF ClientInv, ClientTypeOK
<1>3. CallShape' /\ WaitsForOwn' /\ LoopRounds' /\ CmpRounds'
  BY <1>1 DEF CallShape, WaitsForOwn, LoopRounds, CmpRounds, Pending, Running
<1>4. ResponsesAreEarned'
  BY <1>1 DEF ResponsesAreEarned, Distributing
<1> QED BY <1>2, <1>3, <1>4 DEF ClientInv

\* A provider is asked in this round.
LEMMA AskInv ==
    ASSUME ClientInv, Running("next"), call.op \in Loops \cup Lists,
           NEW oid \in Registered, NEW nonce \in NonceArgument, Ask(oid, nonce),
           call.op \in Loops => /\ call.at <= call.size
                                /\ oid = providers[call.at][1] /\ nonce = call.nonce,
           call.op = "cmp" => /\ call.at <= Len(call.items)
                              /\ Fulfils(oid, nonce, call.items[call.at])
    PROVE  /\ ClientInv'
           /\ ResponsesAreEarned /\ UNCHANGED handled => ResponsesAreEarned'
<1> DEFINE asked == [oid |-> oid, nonce |-> nonce, provider |-> providers[Lookup(oid)][2]]
<1>1. /\ call' = [call EXCEPT !.phase = "provider", !.asked = asked]
      /\ UNCHANGED <<providers, wire, sent>> /\ call \in Call
      /\ providers \in Seq(Oids \X Providers)
  BY DEF Ask, ClientInv, ClientTypeOK
<1>2. asked \in Asking /\ asked.oid = oid /\ asked.nonce = nonce
  <2>1. \E i \in DOMAIN providers : providers[i][1] = oid
    BY DEF Registered
  <2>2. Lookup(oid) \in DOMAIN providers
    BY <2>1 DEF Lookup
  <2>3. providers[Lookup(oid)] \in Oids \X Providers
    BY <1>1, <2>2
  <2>4. oid \in Oids
    BY <1>1, <2>1
  <2> QED BY <2>3, <2>4 DEF Asking, NonceArgument
<1> HIDE DEF asked
<1>a. call' \in Call
  BY <1>1, <1>2, FieldsTyped
<1>3. /\ call' \in Call /\ call'.phase = "provider" /\ call'.asked = asked
      /\ call'.op = call.op /\ call'.outcome = call.outcome /\ call'.out = call.out
      /\ call'.at = call.at /\ call'.size = call.size /\ call'.items = call.items
      /\ call'.nonce = call.nonce /\ call'.session = call.session
  BY <1>1, <1>a DEF Call
<1>4. call.outcome = "pending"
  BY DEF Running
<1>5. CallShape' /\ WaitsForOwn'
  BY <1>1, <1>2, <1>3, <1>4
  DEF ClientInv, CallShape, WaitsForOwn, Pending, Running, Loops, Lists, Ops, BodyOps,
      SessionOps, ProvisioningOps
<1>6. LoopRounds'
  BY <1>1, <1>2, <1>3, <1>4 DEF ClientInv, LoopRounds, Pending
<1>7. CmpRounds'
  BY <1>1, <1>2, <1>3, <1>4 DEF ClientInv, CmpRounds, Pending, Fulfils
<1>8. WireTypeOK' /\ Numbered' /\ ClientTypeOK'
  BY <1>1, <1>3 DEF ClientInv, WireTypeOK, Numbered, ClientTypeOK
<1>9. ResponsesAreEarned /\ UNCHANGED handled => ResponsesAreEarned'
  BY <1>3 DEF ResponsesAreEarned, Distributed
<1> QED BY <1>5, <1>6, <1>7, <1>8, <1>9 DEF ClientInv

\* The round is over with a result for the OID and the nonce that were asked for.
LEMMA CollectInv ==
    ASSUME ClientInv, Pending, call.phase # "next", call.op \in Loops \cup Lists,
           NEW result \in Evidence, NEW id \in 0 .. MaxRequests,
           result.oid = call.asked.oid, result.nonce = call.asked.nonce,
           call' = Collected(result, id), UNCHANGED providers, WireTypeOK', Numbered'
    PROVE  /\ ClientInv'
           /\ \A i \in 1 .. Len(call.out) : call'.out[i] = call.out[i]
           /\ call'.out = Append(call.out, [result |-> result, id |-> id])
           /\ call'.op = call.op /\ call'.session = call.session
<1> DEFINE entry == [result |-> result, id |-> id]
<1> DEFINE out == Append(call.out, entry)
<1> DEFINE n == Len(call.out)
<1>1. /\ entry \in Entries /\ entry.result.oid = call.asked.oid
      /\ entry.result.nonce = call.asked.nonce
      /\ call \in Call /\ call.out \in Seq(Entries) /\ call.at \in Nat \ {0}
      /\ call.items \in Seq(Item)
  BY DEF ClientInv, ClientTypeOK, Call, Entries
<1>2. call' = [call EXCEPT !.out = out, !.at = call.at + 1, !.phase = "next",
                           !.asked = None, !.wait = 0]
  BY <1>1 DEF Collected, Call
<1> HIDE DEF entry
<1>3. /\ out \in Seq(Entries) /\ n \in Nat /\ Len(out) = n + 1
      /\ out[n + 1] = entry /\ \A i \in 1 .. n : out[i] = call.out[i]
      /\ call.at + 1 \in Nat \ {0}
  BY <1>1
<1> HIDE DEF out, n
<1>4. /\ call' \in Call /\ call'.phase = "next" /\ call'.out = out /\ call'.at = call.at + 1
      /\ call'.op = call.op /\ call'.outcome = call.outcome
      /\ call'.size = call.size /\ call'.items = call.items
      /\ call'.nonce = call.nonce /\ call'.session = call.session
  <2>1. \A o \in Seq(Entries), at \in Nat \ {0} :
            [call EXCEPT !.out = o, !.at = at, !.phase = "next", !.asked = None, !.wait = 0]
                \in Call
    BY <1>1, FieldsTyped
  <2>2. call' \in Call
    BY <1>2, <1>3, <2>1, Zenon
  <2> QED BY <1>1, <1>2, <2>2 DEF Call
<1>5. ClientTypeOK'
  BY <1>4 DEF ClientInv, ClientTypeOK
<1>6. CallShape' /\ WaitsForOwn'
  BY <1>4 DEF CallShape, WaitsForOwn, Pending, Running, ClientInv, Loops, Lists, Ops, BodyOps,
              SessionOps, ProvisioningOps
<1>7. LoopRounds'
  <2> SUFFICES ASSUME call.op \in Loops
               PROVE  LoopRounds'
    BY <1>4 DEF LoopRounds
  <2>1. /\ call.size \in Nat /\ call.at <= call.size /\ n = call.at - 1
        /\ call.size <= Len(providers)
        /\ \A i \in 1 .. n : /\ call.out[i].result.oid = providers[i][1]
                             /\ call.out[i].result.nonce = call.nonce
        /\ call.asked.oid = providers[call.at][1] /\ call.asked.nonce = call.nonce
    BY <1>1 DEF ClientInv, LoopRounds, n, Call
  <2>2. n + 1 = call.at
    BY <1>1, <1>3, <2>1
  <2>3. \A i \in 1 .. n + 1 : /\ out[i].result.oid = providers[i][1]
                              /\ out[i].result.nonce = call.nonce
    <3>1. ASSUME NEW i \in 1 .. n + 1 PROVE i \in 1 .. n \/ (i = call.at /\ i = n + 1)
      BY <1>3, <2>2
    <3> QED BY <1>1, <1>3, <2>1, <3>1
  <2>4. /\ call'.size <= Len(providers') /\ call'.at <= call'.size + 1
        /\ Len(call'.out) = call'.at - 1
    <3>1. providers' = providers /\ call'.size = call.size /\ call'.at = call.at + 1
          /\ Len(call'.out) = n + 1
      BY <1>3, <1>4
    <3> QED BY <1>1, <1>3, <2>1, <2>2, <3>1
  <2>5. \A i \in 1 .. Len(call'.out) : /\ call'.out[i].result.oid = providers'[i][1]
                                       /\ call'.out[i].result.nonce = call'.nonce
    BY <1>3, <1>4, <2>3
  <2> QED BY <1>4, <2>4, <2>5 DEF LoopRounds
<1>8. CmpRounds'
  <2> SUFFICES ASSUME call.op = "cmp"
               PROVE  CmpRounds'
    BY <1>4 DEF CmpRounds
  <2>1. /\ Len(call.items) \in Nat /\ call.at <= Len(call.items) /\ n = call.at - 1
        /\ \A i \in 1 .. n :
               Fulfils(call.out[i].result.oid, call.out[i].result.nonce, call.items[i])
        /\ Fulfils(call.asked.oid, call.asked.nonce, call.items[call.at])
    <3>1. Pending /\ call.op = "cmp" /\ CmpRounds
      BY <1>1 DEF ClientInv
    <3>2. Len(call.items) \in Nat
      BY <1>1
    <3> QED BY <1>1, <3>1, <3>2 DEF CmpRounds, n
  <2>2. n + 1 = call.at
    BY <1>1, <1>3, <2>1
  <2>3. \A i \in 1 .. n + 1 : Fulfils(out[i].result.oid, out[i].result.nonce, call.items[i])
    <3>1. ASSUME NEW i \in 1 .. n + 1 PROVE i \in 1 .. n \/ (i = call.at /\ i = n + 1)
      BY <1>3, <2>2
    <3> QED BY <1>1, <1>3, <2>1, <3>1
  <2> QED BY <1>1, <1>3, <1>4, <2>1, <2>2, <2>3 DEF CmpRounds, Fulfils
<1> QED BY <1>3, <1>4, <1>5, <1>6, <1>7, <1>8 DEF ClientInv, n, out, entry

\* A provider's answer has the type and the OID asked for, or the call ends.
LEMMA ProviderReturnsInv ==
    ASSUME ClientInv, ProviderReturns
    PROVE  /\ ClientInv'
           /\ ResponsesAreEarned /\ UNCHANGED handled => ResponsesAreEarned'
           /\ wire' \subseteq wire \/ \A m \in wire' \ wire : m.stage = "sent"
<1> DEFINE p == call.asked.provider
<1> DEFINE result == [oid |-> p.oid, nonce |-> call.asked.nonce, media |-> p.media]
<1>1. /\ Pending /\ call.phase = "provider" /\ call \in Call
      /\ call.op \in Loops \cup Lists /\ call.asked \in Asking
  BY DEF ProviderReturns, Running, Pending, ClientInv, ClientTypeOK, CallShape, Distributing,
         Lists
<1>2. p \in Provider /\ result \in Evidence
  <2>1. p \in Provider
    BY <1>1, ClientAssumption DEF Asking
  <2> QED BY <1>1, <2>1 DEF Asking, Evidence, Provider
<1>3. CASE Ends("raised")
  BY <1>3, EndInv DEF Ends, ClientInv, WireTypeOK, Numbered
<1>4. CASE call.op \notin Distributing /\ p.oid = call.asked.oid
  <2>1. call' = Collected(result, 0) /\ UNCHANGED <<providers, wire, sent>>
    BY <1>4 DEF ProviderReturns
  <2>2. 0 \in 0 .. MaxRequests /\ WireTypeOK' /\ Numbered'
    BY <2>1, WireAssumption DEF ClientInv, WireTypeOK, Numbered
  <2>3. result.oid = call.asked.oid /\ result.nonce = call.asked.nonce
    BY <1>4
  <2> HIDE DEF result
  <2>4. ClientInv' /\ call'.op = call.op
    BY <1>1, <1>2, <2>1, <2>2, <2>3, CollectInv
  <2> QED BY <1>4, <2>1, <2>4 DEF ResponsesAreEarned
<1>5. CASE /\ call.op \in Distributing /\ p.oid = call.asked.oid
           /\ ~(result.media = "token" /\ call.session = None)
  <2> DEFINE op == IF result.media = "corim" THEN "submit_corim" ELSE "submit_evidence"
  <2> DEFINE session == IF result.media = "corim" THEN None ELSE call.session
  <2>1. /\ Send(op, session, result) /\ UNCHANGED providers
        /\ call' = [call EXCEPT !.phase = "http", !.wait = sent']
    BY <1>5 DEF ProviderReturns, Distribute
  <2>2. /\ op \in Ops /\ session \in Sessions \cup {None} /\ result.media \in {"corim", "token"}
        /\ op \in SessionArgument <=> session # None
        /\ op \in BodyOps <=> result # None
    BY <1>1, <1>2, <1>5, WireAssumption
    DEF Ops, BodyOps, SessionArgument, Call, Evidence, SessionOps, ProvisioningOps
  <2>3. Submitted = result
    BY <1>5 DEF Submitted
  <2> HIDE DEF result, op, session, p
  <2>4. /\ WireTypeOK' /\ Numbered' /\ sent' \in 1 .. MaxRequests
        /\ \A m \in wire : m \in wire' /\ m.id # sent'
        /\ \A m \in wire' \ wire : /\ m.id = sent' /\ m.op = op /\ m.session = session
                                   /\ m.payload = result /\ m.stage = "sent"
    BY <1>2, <2>1, <2>2, SendKeeps DEF ClientInv
  <2>5. sent' \in 0 .. MaxRequests
    BY <2>4, WireAssumption
  <2>6. /\ call' \in Call /\ call'.phase = "http" /\ call'.wait = sent'
        /\ call'.asked = call.asked /\ call'.items = call.items
        /\ call'.op = call.op /\ call'.outcome = call.outcome /\ call'.out = call.out
        /\ call'.at = call.at /\ call'.size = call.size
        /\ call'.nonce = call.nonce /\ call'.session = call.session
    <3>1. call' \in Call
      BY <1>1, <2>1, <2>5, FieldsTyped
    <3> QED BY <1>1, <2>1, <3>1 DEF Call
  <2>7. ClientTypeOK' /\ CallShape'
    BY <1>1, <1>5, <2>1, <2>6 DEF ClientInv, ClientTypeOK, CallShape, Pending, Ops, BodyOps,
       SessionOps, ProvisioningOps, Loops, Lists
  <2>8. WaitsForOwn'
    <3> SUFFICES ASSUME NEW m \in wire', m.id = sent'
                 PROVE  OwnRequest(m)'
      BY <2>6 DEF WaitsForOwn
    <3>1. m \in wire' \ wire
      BY <2>4
    <3>2. Submitted' = result
      BY <2>3, <2>6 DEF Submitted
    <3> QED BY <1>5, <2>2, <2>4, <2>6, <3>1, <3>2 DEF OwnRequest, op, session
  <2>9. LoopRounds' /\ CmpRounds'
    BY <1>1, <2>1, <2>6 DEF ClientInv, LoopRounds, CmpRounds, Pending, Fulfils
  <2>10. ResponsesAreEarned /\ UNCHANGED handled => ResponsesAreEarned'
    BY <2>6 DEF ResponsesAreEarned, Distributed
  <2> QED BY <2>4, <2>7, <2>8, <2>9, <2>10 DEF ClientInv
<1>6. CASE \/ p.oid # call.asked.oid
           \/ call.op \in Distributing /\ result.media = "token" /\ call.session = None
  BY <1>3, <1>6 DEF ProviderReturns, Distribute
<1> QED BY <1>4, <1>5, <1>6

\* An answer ends a plain call, and the round of a distribution.  What it collects was
\* worked on by the service: that is what the answer says.
LEMMA ResponseArrivesInv ==
    ASSUME ClientInv, AnswersTrue, NEW m \in wire, ResponseArrives(m)
    PROVE  /\ ClientInv' /\ wire' \subseteq wire
           /\ ResponsesAreEarned /\ UNCHANGED handled => ResponsesAreEarned'
<1>1. /\ Pending /\ call.phase = "http" /\ call \in Call
      /\ m.id = call.wait /\ m.stage = "answered"
      /\ wire' = wire \ {m} /\ sent' = sent /\ UNCHANGED providers
  BY DEF ResponseArrives, Running, Pending, ClientInv, ClientTypeOK
<1>2. WireTypeOK' /\ Numbered' /\ wire' \subseteq wire
  BY <1>1, LossCarries, CarriedNumbers DEF ClientInv
<1>3. CASE call' = Over("raised") \/ call' = Over("returned")
  BY <1>1, <1>2, <1>3, EndInv
<1>4. CASE call.op \in Distributing /\ Successful(m)
  <2>1. /\ call.op \in Loops \cup Lists /\ call.asked \in Asking
        /\ m.id \in 0 .. MaxRequests /\ m.ok
    BY <1>1, <1>4, WireAssumption
    DEF ClientInv, CallShape, Distributing, Loops, Lists, Successful, WireTypeOK, Message
  <2>2. call.asked.provider \in Provider
    BY <2>1, ClientAssumption DEF Asking
  <2>3. /\ Submitted \in Evidence /\ Submitted.oid = call.asked.oid
        /\ Submitted.nonce = call.asked.nonce
    BY <2>1, <2>2 DEF Submitted, Asking, Evidence, Provider
  <2>4. call' = Collected(Submitted, m.id)
    BY <1>4 DEF ResponseArrives
  <2> DEFINE result == Submitted
  <2> DEFINE entry == [result |-> result, id |-> m.id]
  <2> HIDE DEF result
  <2>5. /\ ClientInv' /\ call'.out = Append(call.out, entry)
        /\ \A i \in 1 .. Len(call.out) : call'.out[i] = call.out[i]
        /\ call'.op = call.op /\ call'.session = call.session
    BY <1>1, <1>2, <2>1, <2>3, <2>4, CollectInv DEF result
  <2>6. ASSUME ResponsesAreEarned, UNCHANGED handled
        PROVE  ResponsesAreEarned'
    <3>1. /\ entry.id = m.id /\ entry.result = result /\ OwnRequest(m)
      BY <1>1 DEF ClientInv, WaitsForOwn, Running, Pending
    <3>2. /\ m.payload = result
          /\ m.op = IF result.media = "corim" THEN "submit_corim" ELSE "submit_evidence"
          /\ result.media = "token" => m.session = call.session
      BY <1>4, <3>1 DEF OwnRequest, result
    <3>3. PICK h \in handled : /\ h.id = m.id /\ h.op = m.op /\ h.payload = m.payload
                               /\ m.op = "submit_evidence" => h.session = m.session
      BY <1>1, <2>1, <3>2 DEF AnswersTrue, Worked, BodyOps
    <3>4. result.media \in {"corim", "token"}
      BY <2>3 DEF result, Evidence
    <3> HIDE DEF entry
    <3>5. Distributed(entry)
      BY <3>1, <3>2, <3>3, <3>4 DEF Distributed
    <3>6. \A i \in DOMAIN call.out : Distributed(call.out[i])
      BY <1>4, <2>6 DEF ResponsesAreEarned
    <3>7. call.out \in Seq(Entries)
      BY <1>1 DEF Call, Entries
    <3>8. /\ DOMAIN call'.out = 1 .. Len(call.out) + 1 /\ Len(call.out) \in Nat
          /\ DOMAIN call.out = 1 .. Len(call.out)
          /\ call'.out[Len(call.out) + 1] = entry
      BY <2>5, <3>7
    <3>9. ASSUME NEW i \in DOMAIN call'.out
          PROVE  i \in DOMAIN call.out \/ i = Len(call.out) + 1
      BY <3>8
    <3>10. \A i \in DOMAIN call'.out : Distributed(call'.out[i])
      BY <2>5, <3>5, <3>6, <3>8, <3>9
    <3> QED BY <2>5, <2>6, <3>10 DEF ResponsesAreEarned, Distributed
  <2> QED BY <1>2, <2>5, <2>6
<1> QED BY <1>3, <1>4 DEF ResponseArrives

\* Whatever the call gives up on goes on without it.
LEMMA GivesUpInv ==
    ASSUME ClientInv, GivesUp
    PROVE  /\ ClientInv' /\ ResponsesAreEarned'
           /\ \A k \in wire' : \E m \in wire :
                  /\ k.id = m.id /\ k.op = m.op /\ k.session = m.session
                  /\ k.payload = m.payload /\ k.stage = m.stage /\ k.ok = m.ok
<1>1. call' = Over("raised") /\ UNCHANGED <<providers, sent>>
  BY DEF GivesUp
<1>2. CASE UNCHANGED wire
  BY <1>1, <1>2, EndInv DEF ClientInv, WireTypeOK, Numbered
<1>3. ASSUME NEW m \in wire, Becomes(m, [m EXCEPT !.awaited = FALSE])
      PROVE  /\ WireTypeOK' /\ Carried
             /\ \A k \in wire' \ wire : /\ k.id = m.id /\ k.op = m.op /\ k.session = m.session
                                       /\ k.payload = m.payload /\ k.stage = m.stage
                                       /\ k.ok = m.ok
  <2>1. m \in Message
    BY DEF ClientInv, WireTypeOK
  <2> DEFINE new == [m EXCEPT !.awaited = FALSE]
  <2>2. /\ new \in Message /\ new.id = m.id /\ new.op = m.op /\ new.session = m.session
        /\ new.payload = m.payload /\ new.stage = m.stage /\ new.ok = m.ok
    BY <2>1 DEF Message
  <2>3. Becomes(m, new) /\ sent' = sent /\ WireTypeOK
    BY <1>1, <1>3 DEF ClientInv
  <2> HIDE DEF new
  <2>4. WireTypeOK' /\ Carried /\ \A k \in wire' \ wire : k = new
    BY <1>3, <2>2, <2>3, BecomesCarries
  <2> QED BY <2>2, <2>4
<1>4. ASSUME NEW m \in wire, Becomes(m, [m EXCEPT !.awaited = FALSE])
      PROVE  ClientInv' /\ ResponsesAreEarned'
  BY <1>1, <1>3, <1>4, CarriedNumbers, EndInv DEF ClientInv
<1>5. \/ UNCHANGED wire
      \/ \E m \in wire : Becomes(m, [m EXCEPT !.awaited = FALSE])
  BY DEF GivesUp
<1> QED BY <1>2, <1>3, <1>4, <1>5

LEMMA NextProviderInv ==
    ASSUME ClientInv, NextProvider
    PROVE  /\ ClientInv' /\ UNCHANGED wire
           /\ ResponsesAreEarned /\ UNCHANGED handled => ResponsesAreEarned'
<1>1. CASE \E outcome \in {"returned", "raised"} : Ends(outcome)
  BY <1>1, EndInv DEF Ends, ClientInv, WireTypeOK, Numbered
<1>2. CASE ~SizeChanged /\ ~(call.at > call.size)
  <2>1. /\ Ask(providers[call.at][1], call.nonce) /\ Running("next") /\ call.op \in Loops
        /\ call \in Call /\ providers \in Seq(Oids \X Providers)
    BY <1>2 DEF NextProvider, ClientInv, ClientTypeOK
  <2>2. call.at \in 1 .. call.size /\ call.size = Len(providers)
    BY <1>2, <2>1 DEF SizeChanged, Call
  <2>3. call.at \in DOMAIN providers /\ call.at <= call.size
    BY <2>1, <2>2
  <2>4. providers[call.at][1] \in Registered
    BY <2>3 DEF Registered
  <2>5. call.nonce \in NonceArgument /\ call.op # "cmp"
    BY <2>1 DEF Call, NonceArgument, Loops
  <2> QED BY <2>1, <2>3, <2>4, <2>5, AskInv DEF Ask
<1> QED BY <1>1, <1>2 DEF NextProvider

\* A dict with n keys has n positions.
LEMMA KeysCounted ==
    ASSUME ClientTypeOK
    PROVE  Cardinality(Registered) = Len(providers)
<1> DEFINE n == Len(providers)
<1> DEFINE key == [i \in 1 .. n |-> providers[i][1]]
<1>1. n \in Nat /\ DOMAIN providers = 1 .. n
  BY DEF ClientTypeOK
<1>2. key \in Bijection(1 .. n, Registered)
  <2>1. key \in [1 .. n -> Registered]
    BY <1>1 DEF Registered
  <2>2. \A i, j \in 1 .. n : key[i] = key[j] => i = j
    BY <1>1 DEF ClientTypeOK
  <2>3. \A oid \in Registered : \E i \in 1 .. n : key[i] = oid
    BY <1>1 DEF Registered
  <2> QED BY <2>1, <2>2, <2>3 DEF Bijection, Injection, Surjection, IsInjective
<1>3. IsFiniteSet(1 .. n) /\ Cardinality(1 .. n) = n
  <2>1. /\ 1 \in Int /\ n \in Int /\ IsFiniteSet(1 .. n)
        /\ Cardinality(1 .. n) = IF 1 > n THEN 0 ELSE n - 1 + 1
    BY <1>1, FS_Interval
  <2> QED BY <1>1, <2>1
<1> HIDE DEF key
<1>4. ExistsBijection(1 .. n, Registered)
  BY <1>2 DEF ExistsBijection
<1> QED BY <1>3, <1>4, FS_Bijection

\* The only key of the dict is its first.
LEMMA OnlyKey ==
    ASSUME ClientTypeOK, Cardinality(Registered) = 1
    PROVE  providers # <<>> /\ Registered = {providers[1][1]}
<1>1. Len(providers) = 1 /\ providers \in Seq(Oids \X Providers)
  BY KeysCounted DEF ClientTypeOK
<1>2. DOMAIN providers = {1} /\ providers # <<>>
  BY <1>1
<1> QED BY <1>2 DEF Registered

LEMMA NextItemInv ==
    ASSUME ClientInv, NextItem
    PROVE  /\ ClientInv' /\ UNCHANGED wire
           /\ ResponsesAreEarned /\ UNCHANGED handled => ResponsesAreEarned'
<1>1. CASE \E outcome \in {"returned", "raised"} : Ends(outcome)
  BY <1>1, EndInv DEF Ends, ClientInv, WireTypeOK, Numbered
<1> DEFINE item == call.items[call.at]
<1>2. CASE /\ ~(call.at > Len(call.items))
           /\ ~(call.op = "cmp" /\ item.nonce = Empty)
           /\ Selected(item) \cap Registered # {}
  <2>1. PICK oid \in Selected(item) : Ask(oid, item.nonce)
    BY <1>2 DEF NextItem
  <2>2. Running("next") /\ call.op \in Lists /\ call.at \in Nat \ {0} /\ call.items \in Seq(Item)
    BY DEF NextItem, ClientInv, ClientTypeOK, Call
  <2>3. item \in Item /\ call.at <= Len(call.items)
    BY <1>2, <2>2
  <2> HIDE DEF item
  <2>4. oid \in Registered
    BY <1>2 DEF Selected
  <2>5. item.nonce \in NonceArgument
    BY <2>3 DEF Item, NonceArgument
  <2>6. call.op = "cmp" => Fulfils(oid, item.nonce, item)
    <3>1. Cardinality(Registered) = 1 => providers # <<>> /\ Registered = {providers[1][1]}
      BY OnlyKey DEF ClientInv
    <3> QED BY <1>2, <2>4, <3>1 DEF Fulfils, Selected
  <2>7. call.op \notin Loops
    BY <2>2 DEF Lists, Loops
  <2> QED BY <2>1, <2>2, <2>3, <2>4, <2>5, <2>6, <2>7, AskInv DEF Ask, item
<1> QED BY <1>1, <1>2 DEF NextItem, EmptyNonce

LEMMA CallApiInv ==
    ASSUME ClientInv, NEW a \in ApiCalls, CallApi(a)
    PROVE  /\ ClientInv' /\ ResponsesAreEarned'
           /\ \A m \in wire' \ wire : m.stage = "sent"
<1>1. /\ Send(a.op, a.session, a.payload) /\ UNCHANGED providers
      /\ call' = [Begin(a.op) EXCEPT !.session = a.session, !.phase = "http", !.wait = sent']
  BY DEF CallApi
<1>2. /\ a.op \in Ops /\ a.session \in Sessions \cup {None} /\ a.payload \in Evidence \cup {None}
      /\ a.op \in SessionArgument <=> a.session # None
      /\ a.op \in BodyOps <=> a.payload # None
  BY ClientAssumption
<1>3. /\ WireTypeOK' /\ Numbered' /\ sent' \in 1 .. MaxRequests
      /\ \A m \in wire : m \in wire' /\ m.id # sent'
      /\ \A m \in wire' \ wire : /\ m.id = sent' /\ m.op = a.op /\ m.session = a.session
                                 /\ m.payload = a.payload /\ m.stage = "sent"
  BY <1>1, <1>2, SendKeeps DEF ClientInv
<1>4. sent' \in 0 .. MaxRequests
  BY <1>3, WireAssumption
<1>5. /\ call' \in Call /\ call'.op = a.op /\ call'.outcome = "pending" /\ call'.phase = "http"
      /\ call'.session = a.session /\ call'.wait = sent'
  <2> DEFINE begun == Begin(a.op)
  <2>1. begun \in Call /\ begun.op = a.op /\ begun.outcome = "pending"
    BY <1>2, BeginTyped
  <2>2. call' = [begun EXCEPT !.session = a.session, !.phase = "http", !.wait = sent']
    BY <1>1
  <2> HIDE DEF begun
  <2> QED BY <1>2, <1>4, <2>1, <2>2 DEF Call
<1>6. a.op \notin Loops \cup Lists /\ a.op \notin Distributing
  BY <1>2 DEF Ops, BodyOps, SessionOps, ProvisioningOps, Loops, Lists, Distributing
<1>7. ClientTypeOK' /\ CallShape'
  BY <1>1, <1>2, <1>5, <1>6 DEF ClientInv, ClientTypeOK, CallShape, Pending
<1>8. WaitsForOwn'
  <2> SUFFICES ASSUME NEW m \in wire', m.id = sent'
               PROVE  OwnRequest(m)'
    BY <1>5 DEF WaitsForOwn
  <2>1. m \in wire' \ wire
    BY <1>3
  <2> QED BY <1>3, <1>5, <1>6, <2>1 DEF OwnRequest
<1>9. LoopRounds' /\ CmpRounds' /\ ResponsesAreEarned'
  BY <1>5, <1>6 DEF LoopRounds, CmpRounds, ResponsesAreEarned, Lists
<1> QED BY <1>3, <1>7, <1>8, <1>9 DEF ClientInv

\* A call that dispatches to providers begins, with nothing collected.
LEMMA BeginInv ==
    ASSUME ClientInv, UNCHANGED <<providers, wire, sent>>,
           NEW op \in Loops \cup Lists, call'.op = op, call' \in Call,
           call'.outcome = "pending", call'.phase = "next", call'.at = 1, call'.out = <<>>,
           op \in Loops => call'.size = Len(providers)
    PROVE  ClientInv' /\ ResponsesAreEarned'
<1>1. op \notin Ops
  BY DEF Ops, BodyOps, SessionOps, ProvisioningOps, Loops, Lists
<1>2. ClientTypeOK' /\ CallShape' /\ WaitsForOwn'
  BY <1>1 DEF ClientInv, ClientTypeOK, CallShape, Pending, WaitsForOwn, Running
<1>3. Len(providers) \in Nat /\ Len(call'.items) \in Nat
  BY DEF ClientInv, ClientTypeOK, Call
<1>4. LoopRounds' /\ CmpRounds'
  BY <1>3 DEF LoopRounds, CmpRounds
<1>5. ResponsesAreEarned'
  BY DEF ResponsesAreEarned
<1> QED BY <1>2, <1>4, <1>5 DEF ClientInv, WireTypeOK, Numbered

LEMMA CallLoopInv ==
    ASSUME ClientInv, NEW op \in Loops, NEW nonce \in Nonces \cup {None},
           NEW session \in Sessions \cup {None}, CallLoop(op, nonce, session)
    PROVE  ClientInv' /\ ResponsesAreEarned'
<1> DEFINE begun == Begin(op)
<1>1. /\ begun \in Call /\ begun.op = op /\ begun.outcome = "pending"
      /\ begun.phase = "next" /\ begun.at = 1 /\ begun.out = <<>>
  BY BeginTyped
<1>2. /\ call' = [begun EXCEPT !.nonce = nonce, !.session = session, !.size = Len(providers)]
      /\ UNCHANGED <<providers, wire, sent>>
  BY DEF CallLoop
<1>3. Len(providers) \in Nat
  BY DEF ClientInv, ClientTypeOK
<1> HIDE DEF begun
<1>4. /\ call' \in Call /\ call'.op = op /\ call'.outcome = "pending"
      /\ call'.phase = "next" /\ call'.at = 1 /\ call'.out = <<>>
      /\ call'.size = Len(providers)
  BY <1>1, <1>2, <1>3 DEF Call
<1> QED BY <1>2, <1>4, BeginInv

LEMMA CallListInv ==
    ASSUME ClientInv, NEW op \in Lists, NEW items \in Seq(Item),
           NEW session \in Sessions \cup {None}, CallList(op, items, session)
    PROVE  ClientInv' /\ ResponsesAreEarned'
<1> DEFINE begun == Begin(op)
<1>1. /\ begun \in Call /\ begun.op = op /\ begun.outcome = "pending"
      /\ begun.phase = "next" /\ begun.at = 1 /\ begun.out = <<>>
  BY BeginTyped
<1>2. /\ call' = [begun EXCEPT !.items = items, !.session = session]
      /\ UNCHANGED <<providers, wire, sent>>
  BY DEF CallList
<1> HIDE DEF begun
<1>3. /\ call' \in Call /\ call'.op = op /\ call'.outcome = "pending"
      /\ call'.phase = "next" /\ call'.at = 1 /\ call'.out = <<>>
  BY <1>1, <1>2 DEF Call
<1>4. op \notin Loops
  BY DEF Lists, Loops
<1> QED BY <1>2, <1>3, <1>4, BeginInv

\* Registration keeps every key where it is: a new one comes last.
LEMMA RegisterInv ==
    ASSUME ClientInv, NEW oid \in Oids, NEW p \in Providers, RegisterProvider(oid, p)
    PROVE  /\ ClientInv' /\ UNCHANGED wire
           /\ ResponsesAreEarned /\ UNCHANGED handled => ResponsesAreEarned'
<1>1. /\ providers \in Seq(Oids \X Providers) /\ UNCHANGED <<call, wire, sent>>
      /\ \A i, j \in DOMAIN providers : providers[i][1] = providers[j][1] => i = j
      /\ <<oid, p>> \in Oids \X Providers
  BY DEF RegisterProvider, ClientInv, ClientTypeOK
<1>2. /\ providers' \in Seq(Oids \X Providers)
      /\ \A i, j \in DOMAIN providers' : providers'[i][1] = providers'[j][1] => i = j
      /\ Len(providers) <= Len(providers')
      /\ \A i \in 1 .. Len(providers) : providers'[i][1] = providers[i][1]
  <2>1. CASE oid \in Registered
    <3>1. Lookup(oid) \in DOMAIN providers /\ providers[Lookup(oid)][1] = oid
      BY <2>1 DEF Registered, Lookup
    <3>2. providers' = [providers EXCEPT ![Lookup(oid)] = <<oid, p>>]
      BY <2>1 DEF RegisterProvider
    <3>3. /\ providers' \in Seq(Oids \X Providers) /\ Len(providers') = Len(providers)
          /\ DOMAIN providers' = DOMAIN providers /\ DOMAIN providers = 1 .. Len(providers)
          /\ Len(providers) \in Nat
      BY <1>1, <3>1, <3>2
    <3>4. \A i \in DOMAIN providers : providers'[i][1] = providers[i][1]
      BY <3>1, <3>2
    <3> QED BY <1>1, <3>3, <3>4
  <2>2. CASE oid \notin Registered
    <3>1. providers' = Append(providers, <<oid, p>>)
      BY <2>2 DEF RegisterProvider
    <3>2. /\ providers' \in Seq(Oids \X Providers) /\ Len(providers') = Len(providers) + 1
          /\ DOMAIN providers' = 1 .. Len(providers) + 1
          /\ DOMAIN providers = 1 .. Len(providers)
          /\ Len(providers) \in Nat
          /\ providers'[Len(providers) + 1] = <<oid, p>>
          /\ \A i \in DOMAIN providers : providers'[i] = providers[i]
      BY <1>1, <3>1
    <3>3. \A i \in DOMAIN providers : providers[i][1] # oid
      BY <2>2 DEF Registered
    <3>4. \A i \in DOMAIN providers' : i \in DOMAIN providers \/ i = Len(providers) + 1
      BY <3>2
    <3>5. \A i, j \in DOMAIN providers' : providers'[i][1] = providers'[j][1] => i = j
      BY <1>1, <3>2, <3>3, <3>4
    <3> QED BY <3>2, <3>5
  <2> QED BY <2>1, <2>2
<1>3. LoopRounds'
  <2> SUFFICES ASSUME Pending, call.op \in Loops
               PROVE  LoopRounds'
    BY <1>1 DEF LoopRounds, Pending
  <2>1. /\ Len(providers) \in Nat /\ Len(providers') \in Nat
        /\ call.at \in Nat \ {0} /\ call.size \in Nat
        /\ Len(call.out) \in Nat
    BY <1>1, <1>2 DEF ClientInv, ClientTypeOK, Call
  <2>2. LoopRounds!2
    BY DEF ClientInv, LoopRounds
  <2>3. \A i \in 1 .. Len(call.out) : i \in 1 .. Len(providers)
    BY <2>1, <2>2
  <2>4. call.phase # "next" => call.at \in 1 .. Len(providers)
    BY <2>1, <2>2
  <2> QED BY <1>1, <1>2, <2>1, <2>2, <2>3, <2>4 DEF LoopRounds
<1>4. ClientTypeOK'
  BY <1>1, <1>2 DEF ClientInv, ClientTypeOK
<1>5. CallShape' /\ WaitsForOwn'
  BY <1>1 DEF ClientInv, CallShape, WaitsForOwn, Pending, Over, Running, OwnRequest, Submitted
<1>7. CmpRounds'
  <2>1. ASSUME providers # <<>>
        PROVE  providers' # <<>> /\ providers'[1][1] = providers[1][1]
    BY <1>1, <1>2, <2>1
  <2>2. \A o, n, item : Fulfils(o, n, item) => Fulfils(o, n, item)'
    BY <2>1 DEF Fulfils
  <2> QED BY <1>1, <2>2 DEF ClientInv, CmpRounds, Pending
<1>6. ResponsesAreEarned /\ UNCHANGED handled => ResponsesAreEarned'
  BY <1>1 DEF ResponsesAreEarned, Distributed
<1> QED BY <1>1, <1>3, <1>4, <1>5, <1>6, <1>7 DEF ClientInv, WireTypeOK, Numbered

----
(* Steps of the client: the service has no part in them *)

\* Answers on their way stay true as long as the service does nothing.
LEMMA AnswersKept ==
    ASSUME AnswersTrue, UNCHANGED serviceVars,
           \A k \in wire' : k.stage = "sent" \/ \E m \in wire :
                  /\ k.id = m.id /\ k.op = m.op /\ k.session = m.session
                  /\ k.payload = m.payload /\ k.stage = m.stage /\ k.ok = m.ok
    PROVE  AnswersTrue'
<1> SUFFICES ASSUME NEW k \in wire', k.stage = "answered", k.ok
             PROVE  /\ k.op \in BodyOps => Worked(k)'
                    /\ k.op \in Deletions => k.session \in (created \ DOMAIN sessions)'
  BY DEF AnswersTrue
<1>1. PICK m \in wire : /\ k.id = m.id /\ k.op = m.op /\ k.session = m.session
                        /\ k.payload = m.payload /\ k.stage = m.stage /\ k.ok = m.ok
  OBVIOUS
<1>2. /\ m.op \in BodyOps => Worked(m)
      /\ m.op \in Deletions => m.session \in created \ DOMAIN sessions
  BY <1>1 DEF AnswersTrue
<1> QED BY <1>1, <1>2 DEF Worked, serviceVars

\* What every step of the call in progress does.
LEMMA CallGoesOnInv ==
    ASSUME ClientInv, AnswersTrue, CallGoesOn, UNCHANGED serviceVars
    PROVE  /\ ClientInv' /\ AnswersTrue'
           /\ ResponsesAreEarned => ResponsesAreEarned'
<1>0. UNCHANGED handled
  BY DEF serviceVars
<1>1. CASE NextProvider
  BY <1>0, <1>1, NextProviderInv, AnswersKept
<1>2. CASE NextItem
  BY <1>0, <1>2, NextItemInv, AnswersKept
<1>3. CASE ProviderReturns
  <2>1. \A m \in wire' : m.stage = "sent" \/ m \in wire
    BY <1>3, ProviderReturnsInv
  <2> QED BY <1>0, <1>3, <2>1, ProviderReturnsInv, AnswersKept
<1>4. CASE ProviderRaises
  <2>1. call' = Over("raised") /\ UNCHANGED <<providers, wire, sent>>
    BY <1>4 DEF ProviderRaises, Ends
  <2>2. ClientInv' /\ ResponsesAreEarned'
    BY <2>1, EndInv DEF ClientInv, WireTypeOK, Numbered
  <2> QED BY <2>1, <2>2, AnswersKept
<1>5. ASSUME NEW m \in wire, ResponseArrives(m)
      PROVE  /\ ClientInv' /\ AnswersTrue'
             /\ ResponsesAreEarned => ResponsesAreEarned'
  <2>1. wire' \subseteq wire
    BY <1>5, ResponseArrivesInv
  <2> QED BY <1>0, <1>5, <2>1, ResponseArrivesInv, AnswersKept
<1>6. CASE GivesUp
  BY <1>6, GivesUpInv, AnswersKept
<1> QED BY <1>1, <1>2, <1>3, <1>4, <1>5, <1>6 DEF CallGoesOn

LEMMA CallerStepInv ==
    ASSUME ClientInv, AnswersTrue, CallerStep
    PROVE  /\ ClientInv' /\ AnswersTrue'
           /\ ResponsesAreEarned => ResponsesAreEarned'
<1>0. UNCHANGED serviceVars /\ UNCHANGED handled
  BY DEF CallerStep, serviceVars
<1>1. ASSUME NEW a \in ApiCalls, CallApi(a)
      PROVE  ClientInv' /\ AnswersTrue' /\ ResponsesAreEarned'
  <2>1. \A m \in wire' : m.stage = "sent" \/ m \in wire
    BY <1>1, CallApiInv
  <2> QED BY <1>0, <1>1, <2>1, CallApiInv, AnswersKept
<1>2. ASSUME NEW op \in Loops, NEW nonce \in Nonces \cup {None},
             NEW session \in Sessions \cup {None}, CallLoop(op, nonce, session)
      PROVE  ClientInv' /\ AnswersTrue' /\ ResponsesAreEarned'
  <2>1. UNCHANGED wire
    BY <1>2 DEF CallLoop
  <2> QED BY <1>0, <1>2, <2>1, CallLoopInv, AnswersKept
<1>3. ASSUME NEW op \in Lists, NEW items \in Seq(Item),
             NEW session \in Sessions \cup {None}, CallList(op, items, session)
      PROVE  ClientInv' /\ AnswersTrue' /\ ResponsesAreEarned'
  <2>1. UNCHANGED wire
    BY <1>3 DEF CallList
  <2> QED BY <1>0, <1>3, <2>1, CallListInv, AnswersKept
<1>4. ASSUME NEW r \in Registrations, RegisterProvider(r[1], r[2])
      PROVE  /\ ClientInv' /\ AnswersTrue'
             /\ ResponsesAreEarned => ResponsesAreEarned'
  <2>1. r[1] \in Oids /\ r[2] \in Providers
    BY ClientAssumption
  <2>2. UNCHANGED wire
    BY <1>4 DEF RegisterProvider
  <2> QED BY <1>0, <1>4, <2>1, <2>2, RegisterInv, AnswersKept
<1>5. CASE CallBegins
  <2>1. /\ {"generate_all", "distribute_all"} \subseteq Loops
        /\ {"generate", "distribute", "cmp"} \subseteq Lists
        /\ \A i \in Items : <<i>> \in Seq(Item)
        /\ CmpLists \subseteq Seq(Item)
    BY ClientAssumption DEF Loops, Lists
  <2> QED BY <1>1, <1>2, <1>3, <1>5, <2>1 DEF CallBegins
<1>6. CASE Registers
  BY <1>4, <1>6 DEF Registers
<1> QED BY <1>5, <1>6 DEF CallerStep

----
(* Steps of the service and the network: the client has no part in them *)

\* What the service's steps need and keep.
ServiceInv == ServiceTypeOK /\ AnswersTrue /\ deleted \subseteq created /\ DeletedGone

\* A handler runs: it answers once it has done what a successful answer says.
LEMMA AnswerInv ==
    ASSUME WireTypeOK, ServiceInv, NEW m \in wire, NEW ok \in BOOLEAN, Answer(m, ok),
           UNCHANGED deleted, ServiceTypeOK', created \subseteq created',
           handled \subseteq handled',
           DOMAIN sessions' \cap created \subseteq DOMAIN sessions,
           ok => /\ m.op \in BodyOps => Worked(m)'
                 /\ m.op \in Deletions => m.session \in created' \ DOMAIN sessions'
    PROVE  WireTypeOK' /\ Carried /\ ServiceInv'
<1> DEFINE new == [m EXCEPT !.stage = "answered", !.ok = ok]
<1>1. m \in Message /\ sent' = sent /\ Becomes(m, new)
  BY DEF WireTypeOK, Answer
<1>2. /\ new \in Message /\ new.id = m.id /\ new.op = m.op /\ new.session = m.session
      /\ new.payload = m.payload /\ new.ok = ok
  BY <1>1 DEF Message
<1> HIDE DEF new
<1>3. /\ WireTypeOK' /\ Carried
      /\ \A k \in wire' \ wire : /\ k.id = m.id /\ k.op = m.op /\ k.session = m.session
                                 /\ k.payload = m.payload /\ k.ok = ok
  BY <1>1, <1>2, BecomesCarries
<1>4. AnswersTrue'
  <2> SUFFICES ASSUME NEW k \in wire', k.stage = "answered", k.ok
               PROVE  /\ k.op \in BodyOps => Worked(k)'
                      /\ k.op \in Deletions => k.session \in (created \ DOMAIN sessions)'
    BY DEF AnswersTrue
  <2>1. CASE k \in wire
    <3>1. /\ k.op \in BodyOps => Worked(k)
          /\ k.op \in Deletions => k.session \in created \ DOMAIN sessions
      BY <2>1 DEF ServiceInv, AnswersTrue
    <3> QED BY <3>1 DEF Worked
  <2>2. CASE k \notin wire
    BY <1>3, <2>2 DEF Worked
  <2> QED BY <2>1, <2>2
<1>5. deleted' \subseteq created' /\ DeletedGone'
  BY DEF ServiceInv, DeletedGone
<1> QED BY <1>3, <1>4, <1>5 DEF ServiceInv

LEMMA OpenedTyped ==
    ASSUME ServiceTypeOK, NEW s \in Sessions, s \notin created,
           NEW api \in {"verification", "provisioning"},
           NEW state \in {"waiting", "processing", "complete"}, Opened(s, api, state)
    PROVE  /\ created' \subseteq Sessions /\ DOMAIN sessions' \subseteq created'
           /\ \A t \in DOMAIN sessions' : sessions'[t] \in Session
           /\ created \subseteq created'
           /\ DOMAIN sessions' \cap created \subseteq DOMAIN sessions
BY DEF ServiceTypeOK, Opened, Session

LEMMA ServesInv ==
    ASSUME WireTypeOK, ServiceInv, NEW m \in wire, Serves(m), UNCHANGED deleted
    PROVE  WireTypeOK' /\ Carried /\ ServiceInv'
<1>0. /\ ServiceTypeOK /\ m \in Message
      /\ m.op \in SessionArgument <=> m.session # None
      /\ m.op \in BodyOps <=> m.payload # None
  BY DEF WireTypeOK, ServiceInv
<1>1. CASE AwaitBody(m)
  <2> DEFINE new == [m EXCEPT !.stage = "body"]
  <2>1. /\ sent' = sent /\ Becomes(m, new) /\ UNCHANGED <<sessions, created, handled>>
    BY <1>1 DEF AwaitBody
  <2>2. /\ new \in Message /\ new.id = m.id /\ new.op = m.op /\ new.session = m.session
        /\ new.payload = m.payload /\ new.stage = "body"
    BY <1>0 DEF Message
  <2> HIDE DEF new
  <2>3. /\ WireTypeOK' /\ Carried
        /\ \A k \in wire' \ wire : k.stage = "body"
    BY <2>1, <2>2, BecomesCarries
  <2>4. AnswersTrue'
    BY <2>1, <2>3 DEF ServiceInv, AnswersTrue, Worked
  <2> QED BY <2>1, <2>3, <2>4 DEF ServiceInv, ServiceTypeOK, DeletedGone
<1>2. ASSUME NEW ok \in BOOLEAN, Answer(m, ok), UNCHANGED serviceVars,
             ok => m.op \notin BodyOps \cup Deletions
      PROVE  WireTypeOK' /\ Carried /\ ServiceInv'
  <2>1. ServiceTypeOK'
    BY <1>0, <1>2 DEF serviceVars, ServiceTypeOK
  <2> QED BY <1>2, <2>1, AnswerInv DEF serviceVars
<1>3. CASE GetVerificationInfo(m)
  BY <1>2, <1>3 DEF GetVerificationInfo, Runs, BodyOps, Deletions
<1>4. CASE GetSession(m)
  BY <1>2, <1>4 DEF GetSession, Runs, BodyOps, Deletions
<1>5. CASE Raises(m)
  BY <1>2, <1>5 DEF Raises, Refuse
<1>6. CASE DeleteSession(m)
  <2>1. /\ m.op \in Deletions /\ m.session \in DOMAIN sessions
        /\ Answer(m, TRUE) /\ UNCHANGED <<created, handled>>
        /\ sessions' = [t \in DOMAIN sessions \ {m.session} |-> sessions[t]]
    BY <1>6 DEF DeleteSession, Runs, Found, Deletions
  <2>2. ServiceTypeOK' /\ m.op \notin BodyOps
    BY <1>0, <2>1 DEF ServiceTypeOK, Deletions, BodyOps
  <2>3. m.session \in created' \ DOMAIN sessions'
    BY <1>0, <2>1 DEF ServiceTypeOK
  <2>4. DOMAIN sessions' \cap created \subseteq DOMAIN sessions
    BY <2>1
  <2> QED BY <2>1, <2>2, <2>3, <2>4, AnswerInv
<1>7. ASSUME NEW s \in Sessions, NewSession(m, s)
      PROVE  WireTypeOK' /\ Carried /\ ServiceInv'
  <2>1. /\ m.op \notin BodyOps \cup Deletions /\ s \notin created
        /\ Opened(s, "verification", "waiting") /\ UNCHANGED handled
    BY <1>7 DEF NewSession, Runs, BodyOps, Deletions
  <2>2. PICK ok \in BOOLEAN : Answer(m, ok)
    BY <1>7 DEF NewSession, AnswerDocument
  <2>3. /\ ServiceTypeOK' /\ created \subseteq created'
        /\ DOMAIN sessions' \cap created \subseteq DOMAIN sessions
    BY <1>0, <2>1, OpenedTyped DEF ServiceTypeOK
  <2> QED BY <2>1, <2>2, <2>3, AnswerInv
<1>8. ASSUME NEW state \in {"processing", "complete"}, SubmitEvidence(m, state)
      PROVE  WireTypeOK' /\ Carried /\ ServiceInv'
  <2> DEFINE h == [id |-> m.id, op |-> m.op, session |-> m.session, payload |-> m.payload]
  <2>1. /\ m.op = "submit_evidence" /\ m.session \in DOMAIN sessions /\ UNCHANGED created
        /\ sessions' = [sessions EXCEPT ![m.session].state = state]
        /\ handled' = handled \cup {h}
    BY <1>8 DEF SubmitEvidence, Runs, Found
  <2>2. PICK ok \in BOOLEAN : Answer(m, ok)
    BY <1>8 DEF SubmitEvidence, AnswerDocument
  <2>3. h \in Submission
    BY <1>0, <2>1 DEF Message, Submission, BodyOps, SessionArgument
  <2>4. /\ h \in handled' /\ h.id = m.id /\ h.op = m.op /\ h.payload = m.payload
        /\ h.session = m.session /\ m.op \notin Deletions
    BY <2>1 DEF Deletions
  <2> HIDE DEF h
  <2>5. DOMAIN sessions' = DOMAIN sessions /\ \A t \in DOMAIN sessions : sessions'[t] \in Session
    BY <1>0, <2>1 DEF ServiceTypeOK, Session
  <2>6. ServiceTypeOK' /\ handled \subseteq handled'
    BY <1>0, <2>1, <2>3, <2>5 DEF ServiceTypeOK
  <2>7. Worked(m)'
    BY <2>4 DEF Worked
  <2> QED BY <2>1, <2>2, <2>4, <2>5, <2>6, <2>7, AnswerInv
<1>9. ASSUME NEW s \in Sessions, NEW state \in {"processing", "complete"},
             SubmitCorim(m, s, state)
      PROVE  WireTypeOK' /\ Carried /\ ServiceInv'
  <2> DEFINE h == [id |-> m.id, op |-> m.op, session |-> s, payload |-> m.payload]
  <2>1. /\ m.op = "submit_corim" /\ s \notin created
        /\ Opened(s, "provisioning", state) /\ handled' = handled \cup {h}
    BY <1>9 DEF SubmitCorim, Runs
  <2>2. PICK ok \in BOOLEAN : Answer(m, ok)
    BY <1>9 DEF SubmitCorim, AnswerDocument
  <2>3. h \in Submission
    BY <1>0, <2>1 DEF Message, Submission, BodyOps
  <2>4. /\ h \in handled' /\ h.id = m.id /\ h.op = m.op /\ h.payload = m.payload
        /\ m.op = "submit_corim" /\ m.op \notin Deletions
    BY <2>1 DEF Deletions
  <2> HIDE DEF h
  <2>5. /\ handled \subseteq handled'
        /\ ServiceTypeOK' /\ created \subseteq created'
        /\ DOMAIN sessions' \cap created \subseteq DOMAIN sessions
    BY <1>0, <2>1, <2>3, OpenedTyped DEF ServiceTypeOK
  <2>6. Worked(m)'
    BY <2>4 DEF Worked
  <2> QED BY <2>1, <2>2, <2>4, <2>5, <2>6, AnswerInv
<1> QED BY <1>1, <1>3, <1>4, <1>5, <1>6, <1>7, <1>8, <1>9 DEF Serves

\* An appraisal ends, or a session expires: nothing under way is touched.
LEMMA StoreInv ==
    ASSUME WireTypeOK, ServiceInv, NEW s \in DOMAIN sessions, Completes(s) \/ Expires(s),
           UNCHANGED deleted
    PROVE  WireTypeOK' /\ Carried /\ ServiceInv' /\ UNCHANGED handled
<1>1. /\ UNCHANGED <<wire, sent, created, handled>>
      /\ DOMAIN sessions' \subseteq DOMAIN sessions
  BY DEF Completes, Expires
<1>2. \A t \in DOMAIN sessions' : sessions'[t] \in Session
  <2>1. CASE Completes(s)
    BY <2>1 DEF Completes, ServiceInv, ServiceTypeOK, Session
  <2>2. CASE Expires(s)
    BY <2>2 DEF Expires, ServiceInv, ServiceTypeOK
  <2> QED BY <2>1, <2>2
<1>3. WireTypeOK' /\ Carried
  BY <1>1 DEF WireTypeOK, Carried
<1>4. AnswersTrue'
  BY <1>1 DEF ServiceInv, AnswersTrue, Worked
<1> QED BY <1>1, <1>2, <1>3, <1>4 DEF ServiceInv, ServiceTypeOK, DeletedGone

\* The service only ever adds to what it has worked on.
LEMMA HandledGrows ==
    ASSUME ServiceNext
    PROVE  handled \subseteq handled'
<1>1. ASSUME NEW m \in wire, Serves(m)
      PROVE  handled \subseteq handled'
  <2>1. CASE \/ AwaitBody(m) \/ GetVerificationInfo(m) \/ GetSession(m) \/ DeleteSession(m)
             \/ Raises(m) \/ \E s \in Sessions : NewSession(m, s)
    BY <2>1 DEF AwaitBody, GetVerificationInfo, GetSession, DeleteSession, Raises, Refuse,
                NewSession, serviceVars
  <2>2. CASE \E state \in {"processing", "complete"} : SubmitEvidence(m, state)
    BY <2>2 DEF SubmitEvidence
  <2>3. CASE \E state \in {"processing", "complete"}, s \in Sessions : SubmitCorim(m, s, state)
    BY <2>3 DEF SubmitCorim
  <2> QED BY <1>1, <2>1, <2>2, <2>3 DEF Serves
<1>2. ASSUME NEW s \in DOMAIN sessions, Completes(s) \/ Expires(s)
      PROVE  handled \subseteq handled'
  BY <1>2 DEF Completes, Expires
<1> QED BY <1>1, <1>2 DEF ServiceNext

\* A step that leaves the client alone leaves its call what it was.
LEMMA ClientRests ==
    ASSUME ClientInv, ResponsesAreEarned, UNCHANGED <<providers, call>>,
           WireTypeOK', Carried, handled \subseteq handled'
    PROVE  ClientInv' /\ ResponsesAreEarned'
<1>1. Numbered' /\ WaitsForOwn'
  BY CarriedNumbers, CarriedOwn DEF ClientInv
<1>2. ClientTypeOK' /\ CallShape' /\ LoopRounds' /\ CmpRounds'
  BY DEF ClientInv, ClientTypeOK, CallShape, LoopRounds, CmpRounds, Fulfils, Pending, Over
<1>3. ResponsesAreEarned'
  BY DEF ResponsesAreEarned, Distributed
<1> QED BY <1>1, <1>2, <1>3 DEF ClientInv

----
(* The inductive invariant holds *)

LEMMA Initially == Init => IInv
<1> SUFFICES ASSUME Init
             PROVE  ClientInv /\ ServiceInv /\ ResponsesAreEarned
  BY DEF IInv, ClientInv, ServiceInv, TypeOK
<1>1. /\ call = NoCall /\ call.op = "none" /\ call.outcome = "returned" /\ call \in Call
      /\ Over(call.outcome) = call
  BY NoCallTyped DEF Init, ClientInit, NoCall, Over
<1>2. wire = {} /\ sent = 0 /\ 0 \in 0 .. MaxRequests
  BY WireAssumption DEF Init, WireInit
<1>3. WireTypeOK /\ Numbered /\ AnswersTrue /\ WaitsForOwn
  BY <1>2 DEF WireTypeOK, Numbered, AnswersTrue, WaitsForOwn
<1>4. ClientTypeOK
  BY <1>1 DEF ClientTypeOK, Init, ClientInit
<1>5. CallShape /\ LoopRounds /\ CmpRounds /\ ResponsesAreEarned
  BY <1>1 DEF CallShape, LoopRounds, CmpRounds, ResponsesAreEarned, Pending, Distributing
<1>6. ServiceTypeOK /\ deleted \subseteq created /\ DeletedGone
  BY DEF Init, ServiceInit, ServiceTypeOK, DeletedGone
<1> QED BY <1>3, <1>4, <1>5, <1>6 DEF ClientInv, ServiceInv

\* A call that deletes a session returns because its own answer says that it is gone.
LEMMA DeletionSeen ==
    ASSUME ClientInv, ServiceInv, CallGoesOn, Returns, call.op \in Deletions
    PROVE  call.session \in created \ DOMAIN sessions
<1>1. call.op \notin Loops \cup Lists /\ call.op \notin Distributing
  BY DEF Deletions, Loops, Lists, Distributing
<1>2. call.op \in Ops /\ call.phase = "http"
  BY <1>1 DEF ClientInv, CallShape, Pending, Returns
<1>3. PICK m \in wire : ResponseArrives(m)
  <2>1. ~GivesUp
    <3> SUFFICES ASSUME GivesUp
                 PROVE  FALSE
      OBVIOUS
    <3>1. call'.outcome = "raised"
      BY OverTyped DEF GivesUp
    <3> QED BY <3>1 DEF Returns
  <2> QED BY <1>1, <1>2, <2>1 DEF CallGoesOn, NextProvider, NextItem, ProviderReturns,
             ProviderRaises, Running
<1>4. m.ok /\ m.stage = "answered" /\ m.id = call.wait
  BY <1>3, OverTyped DEF ResponseArrives, Successful, Returns
<1>5. m.op = call.op /\ m.session = call.session
  BY <1>1, <1>3, <1>4 DEF ClientInv, WaitsForOwn, OwnRequest, ResponseArrives
<1> QED BY <1>4, <1>5 DEF ServiceInv, AnswersTrue

LEMMA Inductive == IInv /\ [Next]_vars => IInv'
<1> SUFFICES ASSUME ClientInv, ServiceInv, ResponsesAreEarned, [Next]_vars
             PROVE  ClientInv' /\ ServiceInv' /\ ResponsesAreEarned'
  BY DEF IInv, ClientInv, ServiceInv, TypeOK
<1>1. CASE CallStep
  <2>1. CallGoesOn /\ UNCHANGED serviceVars /\ AnswersTrue
    BY <1>1 DEF CallStep, ServiceInv
  <2>2. ClientInv' /\ AnswersTrue' /\ ResponsesAreEarned'
    BY <2>1, CallGoesOnInv
  <2>3. ServiceTypeOK' /\ UNCHANGED <<sessions, created>>
    BY <2>1 DEF serviceVars, ServiceInv, ServiceTypeOK
  <2>4. deleted' \subseteq created /\ deleted' \cap DOMAIN sessions = {}
    <3>1. CASE Returns /\ call.op \in Deletions
      <4>1. deleted' = deleted \cup {call.session}
        BY <1>1, <3>1 DEF CallStep, Deletions
      <4>2. call.session \in created \ DOMAIN sessions
        BY <2>1, <3>1, DeletionSeen
      <4> QED BY <4>1, <4>2 DEF ServiceInv, DeletedGone
    <3>2. CASE ~(Returns /\ call.op \in Deletions)
      BY <1>1, <3>2 DEF CallStep, Deletions, ServiceInv, DeletedGone
    <3> QED BY <3>1, <3>2
  <2> QED BY <2>2, <2>3, <2>4 DEF ServiceInv, DeletedGone
<1>2. CASE CallerStep
  <2>1. ClientInv' /\ AnswersTrue' /\ ResponsesAreEarned'
    BY <1>2, CallerStepInv DEF ServiceInv
  <2>2. UNCHANGED <<sessions, created, handled, deleted>>
    BY <1>2 DEF CallerStep, serviceVars
  <2> QED BY <2>1, <2>2 DEF ServiceInv, ServiceTypeOK, DeletedGone
<1>3. CASE ServiceStep
  <2>1. UNCHANGED <<providers, call, deleted>> /\ ServiceNext /\ WireTypeOK
    BY <1>3 DEF ServiceStep, ClientInv
  <2>2. WireTypeOK' /\ Carried /\ ServiceInv'
    BY <2>1, ServesInv, StoreInv DEF ServiceNext
  <2> QED BY <2>1, <2>2, HandledGrows, ClientRests
<1>4. CASE Loss
  <2>1. UNCHANGED <<providers, call, sessions, created, handled, deleted>>
    BY <1>4 DEF Loss, clientVars, serviceVars
  <2>2. WireTypeOK' /\ Carried /\ wire' \subseteq wire
    BY <1>4, LossCarries DEF Loss, Lose, ClientInv
  <2>3. AnswersTrue'
    BY <2>1, <2>2 DEF ServiceInv, AnswersTrue, Worked
  <2> QED BY <2>1, <2>2, <2>3, ClientRests DEF ServiceInv, ServiceTypeOK, DeletedGone
<1>5. CASE UNCHANGED vars
  <2>1. UNCHANGED <<wire, sent, providers, call, sessions, created, handled, deleted>>
    BY <1>5 DEF vars
  <2>2. WireTypeOK' /\ Carried /\ AnswersTrue'
    BY <2>1 DEF ClientInv, WireTypeOK, Carried, ServiceInv, AnswersTrue, Worked
  <2> QED BY <2>1, <2>2, ClientRests DEF ServiceInv, ServiceTypeOK, DeletedGone
<1> QED BY <1>1, <1>2, <1>3, <1>4, <1>5 DEF Next

\* In every reachable state.
LEMMA Invariant == Spec => []IInv
<1> QED BY Initially, Inductive, PTL DEF Spec

----
(* What it says *)

\* The state of the client, the network and the service stays what the code makes it,
\* whatever is lost or late: keys of the provider dict are distinct, a call that is over
\* holds nothing, live sessions have been created.
THEOREM TypeCorrect == Spec => []TypeOK
<1>1. IInv => TypeOK
  BY DEF IInv
<1> QED BY Invariant, <1>1, PTL

\* A result of distribute_* was the subject of a submission the service worked on, at the
\* endpoint of its media type and, a token, in the session of the call: no answer to an
\* earlier request, abandoned by the client, is ever taken for it.
THEOREM OnlyEarnedResponses == Spec => []ResponsesAreEarned
<1>1. IInv => ResponsesAreEarned
  BY DEF IInv
<1> QED BY Invariant, <1>1, PTL

\* Only the code between two rounds makes a call that asks providers return.
LEMMA ReturnsBetweenRounds ==
    ASSUME ClientInv, Next, Returns, call.op \in Loops \cup {"generate", "cmp"}
    PROVE  NextProvider \/ NextItem
<1>1. /\ call.outcome = "pending" /\ call'.outcome = "returned" /\ call \in Call
      /\ call.op \notin Ops
  BY DEF Returns, ClientInv, ClientTypeOK, Loops, Ops, BodyOps, SessionOps, ProvisioningOps
<1>2. CallGoesOn
  <2>1. ~CallerStep
    BY <1>1 DEF CallerStep, CallBegins, CallApi, CallLoop, CallList, Idle, Registers,
                RegisterProvider
  <2>2. call' # call
    BY <1>1
  <2> QED BY <2>1, <2>2 DEF Next, CallStep, ServiceStep, Loss, clientVars
<1>3. /\ Over("raised").outcome = "raised"
      /\ \A result, id : Collected(result, id).outcome = "pending"
      /\ \A phase, wait : [call EXCEPT !.phase = phase, !.wait = wait].outcome = "pending"
  BY <1>1, OverTyped DEF Collected, Call
<1>4. ~(ProviderRaises \/ GivesUp)
  BY <1>1, <1>3 DEF ProviderRaises, GivesUp, Ends
<1>5. ASSUME ProviderReturns
      PROVE  FALSE
  <2>1. call' = Over("raised") \/ (\E result : call' = Collected(result, 0))
        \/ call' = [call EXCEPT !.phase = "http", !.wait = sent']
    BY <1>5 DEF ProviderReturns, Distribute, Ends
  <2>2. call' # Over("raised")
    BY <1>1, <1>3
  <2>3. ASSUME NEW result
        PROVE  call' # Collected(result, 0)
    BY <1>1, <1>3
  <2>4. call' # [call EXCEPT !.phase = "http", !.wait = sent']
    <3> DEFINE new == [call EXCEPT !.phase = "http", !.wait = sent']
    <3>1. new.outcome = "pending"
      BY <1>1 DEF Call
    <3> HIDE DEF new
    <3>2. call' # new
      BY <1>1, <3>1
    <3> QED BY <3>2 DEF new
  <2> QED BY <2>1, <2>2, <2>3, <2>4
<1>6. ASSUME NEW m \in wire, ResponseArrives(m)
      PROVE  FALSE
  <2>1. call.op \in Distributing
    BY <1>1, <1>6 DEF ResponseArrives, Running, ClientInv, CallShape, Pending
  <2> QED BY <1>1, <1>3, <1>6, <2>1 DEF ResponseArrives
<1> QED BY <1>2, <1>4, <1>5, <1>6 DEF CallGoesOn

\* A step that asks a provider leaves the call pending.
LEMMA AskGoesOn ==
    ASSUME ClientInv, call.outcome = "pending", NEW oid, NEW nonce, Ask(oid, nonce)
    PROVE  ~Returns
BY DEF ClientInv, ClientTypeOK, Call, Ask, Returns

\* The loop over the dict returns with every round done and the size it began with.
LEMMA LoopReturns ==
    ASSUME ClientInv, Next, Returns, call.op \in Loops
    PROVE  ~SizeChanged /\ call.at > call.size
<1>1. NextProvider /\ call.outcome = "pending" /\ call'.outcome = "returned"
  BY ReturnsBetweenRounds DEF NextItem, Loops, Lists, Returns
<1>2. CASE SizeChanged
  BY <1>1, <1>2, OverTyped DEF NextProvider, Ends
<1>3. CASE ~SizeChanged /\ ~(call.at > call.size)
  <2>1. Ask(providers[call.at][1], call.nonce)
    BY <1>1, <1>3 DEF NextProvider
  <2> QED BY <1>1, <2>1, AskGoesOn
<1> QED BY <1>2, <1>3

\* The loop over the nonce responses returns with every round done.
LEMMA CmpReturns ==
    ASSUME ClientInv, Next, Returns, call.op = "cmp"
    PROVE  call.at > Len(call.items)
<1>1. NextItem /\ call.outcome = "pending" /\ call'.outcome = "returned"
  BY ReturnsBetweenRounds DEF NextProvider, Loops, Returns
<1> SUFFICES ASSUME ~(call.at > Len(call.items))
             PROVE  FALSE
  OBVIOUS
<1> DEFINE item == call.items[call.at]
<1>2. \/ Ends("raised")
      \/ \E oid \in Selected(item) : Ask(oid, item.nonce)
  BY <1>1 DEF NextItem, EmptyNonce
<1>3. ~Ends("raised")
  BY <1>1, OverTyped DEF Ends
<1> QED BY <1>1, <1>2, <1>3, AskGoesOn

LEMMA AllAnswer ==
    ASSUME IInv, [Next]_vars, Returns, call.op \in Loops
    PROVE  /\ {call.out[i].result.oid : i \in DOMAIN call.out} = Registered
           /\ Len(call.out) = Cardinality(Registered)
           /\ \A i \in DOMAIN call.out : call.out[i].result.nonce = call.nonce
<1>1. /\ ClientInv /\ ClientTypeOK /\ Next /\ call.outcome = "pending" /\ call \in Call
  BY DEF IInv, ClientInv, TypeOK, Returns, vars, ClientTypeOK
<1>2. /\ ~SizeChanged /\ call.at > call.size /\ call.at <= call.size + 1
      /\ Len(call.out) = call.at - 1
      /\ \A i \in 1 .. Len(call.out) : /\ call.out[i].result.oid = providers[i][1]
                                       /\ call.out[i].result.nonce = call.nonce
  BY <1>1, LoopReturns DEF ClientInv, LoopRounds, Pending
<1>3. /\ Len(call.out) = Len(providers) /\ Len(providers) \in Nat
      /\ DOMAIN call.out = 1 .. Len(call.out) /\ DOMAIN providers = 1 .. Len(providers)
  BY <1>1, <1>2 DEF SizeChanged, Call, ClientTypeOK
<1>4. {call.out[i].result.oid : i \in DOMAIN call.out} = Registered
  BY <1>2, <1>3 DEF Registered
<1> QED BY <1>1, <1>2, <1>3, <1>4, KeysCounted

\* A call over all providers that returns has one result per registered OID, also if
\* providers were registered or replaced while it ran.
THEOREM EveryProviderAnswers == Spec => AllProvidersAnswer
<1>1. IInv /\ [Next]_vars =>
          [(Returns /\ call.op \in Loops) =>
               /\ {call.out[i].result.oid : i \in DOMAIN call.out} = Registered
               /\ Len(call.out) = Cardinality(Registered)
               /\ \A i \in DOMAIN call.out : call.out[i].result.nonce = call.nonce]_vars
  BY AllAnswer
<1> QED BY <1>1, Invariant, PTL DEF AllProvidersAnswer, Spec

LEMMA CmpAnswers ==
    ASSUME IInv, [Next]_vars, Returns, call.op = "cmp"
    PROVE  /\ Len(call.out) = Len(call.items)
           /\ \A i \in DOMAIN call.out :
                  Fulfils(call.out[i].result.oid, call.out[i].result.nonce, call.items[i])
<1>1. /\ ClientInv /\ Next /\ call.outcome = "pending" /\ call \in Call
  BY DEF IInv, ClientInv, TypeOK, Returns, vars, ClientTypeOK
<1>2. /\ call.at > Len(call.items) /\ call.at <= Len(call.items) + 1
      /\ Len(call.out) = call.at - 1
      /\ \A i \in 1 .. Len(call.out) :
             Fulfils(call.out[i].result.oid, call.out[i].result.nonce, call.items[i])
  BY <1>1, CmpReturns DEF ClientInv, CmpRounds, Pending
<1>3. call.out \in Seq(Entries) /\ call.items \in Seq(Item) /\ call.at \in Nat
  BY <1>1 DEF Call, Entries
<1>4. DOMAIN call.out = 1 .. Len(call.out) /\ Len(call.items) \in Nat
  BY <1>3
<1> QED BY <1>2, <1>3, <1>4

\* What a CMP call returns is parallel to the nonce responses it was given.
THEOREM CmpIsParallel == Spec => CmpEvidenceIsParallel
<1>1. IInv /\ [Next]_vars =>
          [(Returns /\ call.op = "cmp") =>
              /\ Len(call.out) = Len(call.items)
              /\ \A i \in DOMAIN call.out :
                     LET item == call.items[i]
                     IN  /\ call.out[i].result.nonce = item.nonce
                         /\ item.nonce # Empty
                         /\ item.oid # None => call.out[i].result.oid = item.oid
                         /\ (item.oid = None /\ item.type # None) =>
                                call.out[i].result.oid = item.type
                         /\ (item.oid = None /\ item.type = None) =>
                                call.out[i].result.oid = providers[1][1]]_vars
  BY CmpAnswers DEF Fulfils
<1> QED BY <1>1, Invariant, PTL DEF CmpEvidenceIsParallel, Spec

\* What is newly worked on is a submission in a live session, or in one created for it.
LEMMA NewlyHandled ==
    ASSUME Next, NEW h \in handled' \ handled
    PROVE  h.session \in DOMAIN sessions \/ h.session \notin created
<1>1. ServiceNext
  BY DEF Next, CallStep, CallerStep, Loss, serviceVars, ServiceStep
<1>2. PICK m \in wire : Serves(m)
  BY <1>1 DEF ServiceNext, Completes, Expires
<1>3. \/ \E state \in {"processing", "complete"} : SubmitEvidence(m, state)
      \/ \E state \in {"processing", "complete"}, s \in Sessions : SubmitCorim(m, s, state)
  BY <1>2 DEF Serves, AwaitBody, GetVerificationInfo, GetSession, DeleteSession, Raises, Refuse,
              NewSession, serviceVars
<1>4. CASE \E state \in {"processing", "complete"} : SubmitEvidence(m, state)
  BY <1>4 DEF SubmitEvidence, Found
<1>5. CASE \E state \in {"processing", "complete"}, s \in Sessions : SubmitCorim(m, s, state)
  BY <1>5 DEF SubmitCorim
<1> QED BY <1>3, <1>4, <1>5

\* A session whose deletion the client has seen rests: a submission that was awaiting its
\* body when the session was deleted is refused.
THEOREM DeletedRest == Spec => DeletedSessionsRest
<1>1. IInv /\ [Next]_vars => [\A h \in handled' \ handled : h.session \notin deleted]_vars
  <2> SUFFICES ASSUME IInv, Next, NEW h \in handled' \ handled
               PROVE  h.session \notin deleted
    BY DEF vars
  <2>1. deleted \subseteq created /\ deleted \cap DOMAIN sessions = {}
    BY DEF IInv, TypeOK, DeletedGone
  <2> QED BY <2>1, NewlyHandled
<1> QED BY <1>1, Invariant, PTL DEF DeletedSessionsRest, Spec
====
