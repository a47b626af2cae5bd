---- MODULE VerifierRouter ----
(***************************************************************************)
(* The in-memory verifier router (verifier/router.py): routes registered   *)
(* by name, a URL-hint policy, and a table that remembers for every nonce  *)
(* handed out which route issued it, until a verification with that nonce  *)
(* completes or the entry's lifetime is over.                              *)
(*                                                                         *)
(* The verifiers behind the routes are callbacks of unknown duration, so   *)
(* each call of the router is split where it waits for one: other callers, *)
(* registrations and the clock move in between.  With one caller and its   *)
(* clock this is the sequential program, with several it is the router     *)
(* shared by the threads of an embedding.                                  *)
(*                                                                         *)
(* Absolute times are kept relative to the current one: an entry's `left`  *)
(* is expires_at - now, never below 0.                                     *)
(***************************************************************************)
EXTENDS Naturals, Sequences, FiniteSets

CONSTANTS Callers,        \* callers of the router
          Names,          \* route names
          Verifiers,      \* AttestationVerifier objects
          Nonces,         \* non-empty nonces
          Oids,           \* evidence-type OIDs
          Urls,           \* hints _is_url_hint accepts
          Registrations,  \* argument records register() may be called with
          Requests,       \* [oid, hint, nonce] records calls may be made with
          Bundles,        \* sequences of requests, one per bundle statement
          Repeating,      \* verifiers that may issue a nonce again (a fixed nonce)
          AllowUrls,      \* policy.allow_unregistered_verifier_urls
          AllowedUrls,    \* the URLs that pass policy.allowed_url_prefixes
          TTL,            \* nonce_ttl in clock ticks
          None            \* Python's None

Hints == Names \cup Urls \cup {None}
Request == [oid : Oids \cup {None}, hint : Hints, nonce : Nonces \cup {None}]
Registration == [name : Names, verifier : Verifiers, types : SUBSET Oids,
                 url : Urls \cup {None}, default : BOOLEAN]

\* The verifier a call waits for.  `bound` says the route was chosen by the nonce.
Appraisal == [route : Names, verifier : Verifiers, bound : BOOLEAN]

ASSUME NoneAssumption ==
    None \notin Names \cup Verifiers \cup Nonces \cup Oids \cup Urls \cup Appraisal
             \cup [nonce : Nonces, route : Names, bound : BOOLEAN]
ASSUME KindsAssumption == Names \cap Urls = {}
ASSUME InputsAssumption ==
    /\ Registrations \subseteq Registration
    /\ Requests \subseteq Request
    /\ Bundles \subseteq Seq(Request)
ASSUME PolicyAssumption ==
    AllowUrls \in BOOLEAN /\ AllowedUrls \subseteq Urls /\ Repeating \subseteq Verifiers
ASSUME TTLAssumption == TTL \in Nat

VARIABLES routes,     \* registered name -> its route
          order,      \* the names of routes in the order the dict lists them
          default,    \* name of the default route, or None
          table,      \* remembered nonce -> [route, left]
          call,       \* caller -> the call it has in progress
          hist,       \* history only: nonce -> its last issuer, and the verdicts its issue got
          preferred   \* history only: <<m, n>> when m was chosen where n matched as well

vars == <<routes, order, default, table, call, hist, preferred>>

Verdicts == {"affirming", "contraindicated", "unknown"}
Route == [verifier : Verifiers, types : SUBSET Oids, url : Urls \cup {None}]
Entry == [route : Names, left : 0 .. TTL]

\* A call: the requests it was given, the one it is at, the verifier it waits for
\* or None, and the outcome so far.
Call == [op : {"idle", "get_nonce", "verify_token", "verify_bundle"},
         args : Seq(Request), at : Nat \ {0}, wait : Appraisal \cup {None},
         verdicts : Seq(Verdicts), names : Seq(Names \cup {None})]

Begun(op, args) == [op |-> op, args |-> args, at |-> 1, wait |-> None,
                    verdicts |-> <<>>, names |-> <<>>]
Idle == Begun("idle", <<>>)

Waiting(c) == call[c].wait # None
Current(c) == call[c].args[call[c].at]

\* Type invariant of the router's own state and of the two histories; `order` lists
\* the registered names.
TypeOK ==
    /\ DOMAIN routes \subseteq Names
    /\ \A n \in DOMAIN routes : routes[n] \in Route
    /\ order \in Seq(DOMAIN routes)
    /\ default \in Names \cup {None}
    /\ DOMAIN table \subseteq Nonces
    /\ \A n \in DOMAIN table : table[n] \in Entry
    /\ call \in [Callers -> Call]
    /\ hist \in [Nonces -> [issuer : Verifiers \cup {None}, answered : Nat]]
    /\ preferred \subseteq Names \X Names

Init ==
    /\ routes = [n \in {} |-> 0]
    /\ order = <<>>
    /\ default = None
    /\ table = [n \in {} |-> 0]
    /\ call = [c \in Callers |-> Idle]
    /\ hist = [n \in Nonces |-> [issuer |-> None, answered |-> 0]]
    /\ preferred = {}

----
(* Registration *)

\* Mutant: the old route is deleted first, so that the name goes to the end.
MovedToEnd(name) == Append(SelectSeq(order, LAMBDA n : n # name), name)

\* Assigning to a key of the dict leaves it where it is, a new key goes to the end.
Listed(name) == IF name \in DOMAIN routes THEN order ELSE Append(order, name)

Register(e) ==
    /\ routes' = [n \in DOMAIN routes \cup {e.name} |->
                     IF n = e.name
                     THEN [verifier |-> e.verifier, types |-> e.types, url |-> e.url]
                     ELSE routes[n]]
    /\ order' = Listed(e.name)
    /\ default' = IF e.default \/ default = None THEN e.name ELSE default
    /\ UNCHANGED <<table, call, hist, preferred>>

----
(* Route selection *)

\* Mutant: nothing is ever evicted.
NothingEvicted == table

\* What the table holds once the entries past their lifetime are evicted.
Unexpired == [n \in {m \in DOMAIN table : table[m].left > 0} |-> table[n]]

HintAllowed(hint) == hint \in Urls => AllowUrls /\ hint \in AllowedUrls

HintMatches(hint) ==
    {n \in DOMAIN routes : hint = n \/ (hint # None /\ hint = routes[n].url)}

TypeMatches(oid) == {n \in DOMAIN routes : oid \in routes[n].types}

\* The first of the names in S that a loop over the dict meets.
First(S) ==
    {n \in S : \E i \in DOMAIN order : order[i] = n /\ \A j \in 1 .. i - 1 : order[j] \notin S}

\* The route chosen without a nonce: by hint, else by evidence type, else the default.
Favoured(req) ==
    IF HintMatches(req.hint) # {} THEN First(HintMatches(req.hint))
    ELSE IF TypeMatches(req.oid) # {} THEN First(TypeMatches(req.oid))
    ELSE {default} \ {None}

\* Mutant: a nonce is looked up only when no hint is given.
ResolveHintFirst(req) ==
    IF req.hint = None /\ req.nonce \in DOMAIN Unexpired THEN {table[req.nonce].route}
    ELSE IF HintAllowed(req.hint) THEN Favoured(req) ELSE {}

\* Mutant: the policy is not asked.
ResolveUnchecked(req) ==
    IF req.nonce \in DOMAIN Unexpired THEN {table[req.nonce].route} ELSE Favoured(req)

\* The route resolve() returns, as a singleton; {} when it raises VerifierRouteError.
\* A remembered nonce is looked up before the policy is asked.  resolve() is one step:
\* another thread that inserts a route while it iterates over the dict (RuntimeError)
\* is left out.
Resolve(req) ==
    IF req.nonce \in DOMAIN Unexpired THEN {table[req.nonce].route}
    ELSE IF HintAllowed(req.hint) THEN Favoured(req) ELSE {}

\* The routes that match req in the loop that chooses, when a loop does: what the
\* choice of r says about r and the others.
Competing(req) ==
    IF req.nonce \in DOMAIN Unexpired THEN {}
    ELSE IF HintMatches(req.hint) # {} THEN HintMatches(req.hint) ELSE TypeMatches(req.oid)
Preferences(req, r) == {<<r, n>> : n \in Competing(req) \ {r}}

\* Hand request req to the verifier of the selected route and wait for it.
Dispatched(cl, req, r) ==
    [cl EXCEPT !.wait = [route |-> r, verifier |-> routes[r].verifier,
                         bound |-> req.nonce \in DOMAIN Unexpired]]

\* get_nonce and verify_token: resolve, then the callback; resolve may raise.
Start(c, op, req) ==
    /\ call[c].op = "idle"
    /\ table' = Unexpired
    /\ \/ \E r \in Resolve(req) :
             /\ call' = [call EXCEPT ![c] = Dispatched(Begun(op, <<req>>), req, r)]
             /\ preferred' = preferred \cup Preferences(req, r)
       \/ Resolve(req) = {} /\ UNCHANGED <<call, preferred>>
    /\ UNCHANGED <<routes, order, default, hist>>

----
(* get_nonce *)

GetNonce(c, req) == req.nonce = None /\ Start(c, "get_nonce", req)

Held(n) == \E d \in Callers : Waiting(d) /\ Current(d).nonce = n

\* Assumed of the verifiers: a random nonce is one nobody knows, a fixed one may
\* come again.
Issuable(v) == IF v \in Repeating THEN Nonces
               ELSE {n \in Nonces : n \notin DOMAIN table /\ ~Held(n)}

Returned(c) == [call EXCEPT ![c] = Idle]

\* Mutant: the hint of the request is remembered instead of the route's name.
RememberedHint(c) == IF Current(c).hint # None THEN Current(c).hint ELSE call[c].wait.route

\* The route remembered for a nonce: the one that was asked for it.
RememberedRoute(c) == call[c].wait.route

NonceArrives(c, n) ==
    /\ call[c].op = "get_nonce"
    /\ n \in Issuable(call[c].wait.verifier)
    /\ table' = [m \in DOMAIN table \cup {n} |->
                    IF m = n THEN [route |-> RememberedRoute(c), left |-> TTL] ELSE table[m]]
    /\ hist' = [hist EXCEPT ![n] = [issuer |-> call[c].wait.verifier, answered |-> 0]]
    /\ call' = Returned(c)
    /\ UNCHANGED <<routes, order, default, preferred>>

\* An empty nonce is returned without being remembered.
EmptyNonceArrives(c) ==
    /\ call[c].op = "get_nonce"
    /\ call' = Returned(c)
    /\ UNCHANGED <<routes, order, default, table, hist, preferred>>

----
(* verify_token and verify_bundle *)

VerifyToken(c, req) == Start(c, "verify_token", req)

\* Mutant: the nonce stays in the table.
ConsumeNothing(c) ==
    /\ UNCHANGED table
    /\ hist' = [m \in Nonces |->
                   IF m = Current(c).nonce /\ call[c].wait.bound
                   THEN [hist[m] EXCEPT !.answered = @ + 1] ELSE hist[m]]

\* A verdict came back: the current request's nonce is forgotten, whether or not
\* it was the nonce that chose the route.
Consume(c) ==
    LET n == Current(c).nonce
    IN  /\ table' = [m \in DOMAIN table \ {n} |-> table[m]]
        /\ hist' = [m \in Nonces |->
                       IF m = n /\ call[c].wait.bound
                       THEN [hist[m] EXCEPT !.answered = @ + 1] ELSE hist[m]]

TokenJudged(c) ==
    /\ call[c].op = "verify_token"
    /\ Consume(c)
    /\ call' = Returned(c)
    /\ UNCHANGED <<routes, order, default, preferred>>

\* A bundle that does not decode and lists of another length than its statements raise
\* before anything happens and are not modelled.
VerifyBundle(c, args) ==
    /\ call[c].op = "idle"
    /\ call' = [call EXCEPT ![c] = Begun("verify_bundle", args)]
    /\ UNCHANGED <<routes, order, default, table, hist, preferred>>

AtStatement(c) ==
    /\ call[c].op = "verify_bundle"
    /\ ~Waiting(c)
    /\ call[c].at <= Len(call[c].args)

DispatchStatement(c) ==
    /\ AtStatement(c)
    /\ table' = Unexpired
    /\ \E r \in Resolve(Current(c)) :
           /\ call' = [call EXCEPT ![c] = Dispatched(call[c], Current(c), r)]
           /\ preferred' = preferred \cup Preferences(Current(c), r)
    /\ UNCHANGED <<routes, order, default, hist>>

\* Both lists grow, and the loop goes on with the next statement.
Judged(cl, verdict, name) ==
    [op |-> cl.op, args |-> cl.args, at |-> cl.at + 1, wait |-> None,
     verdicts |-> Append(cl.verdicts, verdict), names |-> Append(cl.names, name)]

\* Mutant: the loop goes on without an entry for the statement.
UnroutableSkipped(cl) == [cl EXCEPT !.at = @ + 1]

\* Mutant: the loop does not go on.
UnroutableStuck(cl) == [cl EXCEPT !.verdicts = <<"unknown">>, !.names = <<None>>]

\* What a statement no route was found for adds to the call.
Unroutable(cl) == Judged(cl, "unknown", None)

StatementUnroutable(c) ==
    /\ AtStatement(c)
    /\ table' = Unexpired
    /\ Resolve(Current(c)) = {}
    /\ call' = [call EXCEPT ![c] = Unroutable(call[c])]
    /\ UNCHANGED <<routes, order, default, hist, preferred>>

StatementJudged(c, verdict) ==
    /\ call[c].op = "verify_bundle"
    /\ Waiting(c)
    /\ Consume(c)
    /\ call' = [call EXCEPT ![c] = Judged(call[c], verdict, call[c].wait.route)]
    /\ UNCHANGED <<routes, order, default, preferred>>

BundleReturns(c) ==
    /\ call[c].op = "verify_bundle"
    /\ call[c].at > Len(call[c].args)
    /\ call' = Returned(c)
    /\ UNCHANGED <<routes, order, default, table, hist, preferred>>

\* A verifier raises: the call ends there, the nonces of the statements it has
\* already judged are gone and the current one's stays.
VerifierRaises(c) ==
    /\ Waiting(c)
    /\ call' = Returned(c)
    /\ UNCHANGED <<routes, order, default, table, hist, preferred>>

----
\* One clock tick.
Tick ==
    /\ \E n \in DOMAIN table : table[n].left > 0
    /\ table' = [n \in DOMAIN table |->
                    [table[n] EXCEPT !.left = IF @ > 0 THEN @ - 1 ELSE 0]]
    /\ UNCHANGED <<routes, order, default, call, hist, preferred>>

CallStarts(c) ==
    \/ \E req \in Requests : GetNonce(c, req) \/ VerifyToken(c, req)
    \/ \E args \in Bundles : VerifyBundle(c, args)

CallGoesOn(c) ==
    \/ \E n \in Nonces : NonceArrives(c, n)
    \/ EmptyNonceArrives(c)
    \/ TokenJudged(c)
    \/ DispatchStatement(c)
    \/ StatementUnroutable(c)
    \/ \E v \in Verdicts : StatementJudged(c, v)
    \/ BundleReturns(c)
    \/ VerifierRaises(c)

Next ==
    \/ \E e \in Registrations : Register(e)
    \/ \E c \in Callers : CallStarts(c) \/ CallGoesOn(c)
    \/ Tick

Spec == Init /\ [][Next]_vars

\* Verifier callbacks return or raise at some time, Python threads are not
\* starved, and the clock does not stop.
Fairness ==
    /\ \A c \in Callers : WF_vars(CallGoesOn(c))
    /\ WF_vars(Tick)

FairSpec == Spec /\ Fairness

----
(* What makes the router correct *)

\* No lookup self._routes[name] can raise KeyError: the default route, the route of
\* every remembered nonce and the route every call waits for are registered, and
\* nothing but the table's own routes is ever remembered for a nonce.
NamesRegistered ==
    /\ default = None <=> DOMAIN routes = {}
    /\ default # None => default \in DOMAIN routes
    /\ \A n \in DOMAIN table : table[n].route \in DOMAIN routes
    /\ \A c \in Callers : Waiting(c) => call[c].wait.route \in DOMAIN routes

\* Which of two routes wins is decided once: if a call was ever given to m although n
\* matched its hint or its evidence type just as well, no later call is given to n
\* although m matches, whatever either route was registered with in between and
\* whether or not it stopped matching for a while.
PreferenceLasts ==
    \A m, n \in Names : <<m, n>> \in preferred => <<n, m>> \notin preferred

\* However many calls overlap, the verdicts one issue of a nonce gets through its
\* remembered route are at most one per caller: a router called from one thread
\* never accepts two answers to one challenge.
OneVerdictPerChallenge ==
    \A n \in Nonces : hist[n].answered <= Cardinality(Callers)

\* A bundle is accepted only if every statement, and at least one, was put to the
\* verifier of a registered route, the lists of verdicts and routes being parallel.
Accepted(verdicts) ==
    verdicts # <<>> /\ \A i \in 1 .. Len(verdicts) : verdicts[i] = "affirming"

AcceptedBundleIsAppraised ==
    \A c \in Callers :
        LET cl == call[c]
        IN  (cl.op = "verify_bundle" /\ cl.at > Len(cl.args) /\ Accepted(cl.verdicts)) =>
                /\ Len(cl.names) = Len(cl.args)
                /\ Len(cl.verdicts) = Len(cl.args)
                /\ \A i \in 1 .. Len(cl.names) : cl.names[i] \in DOMAIN routes

\* A call made with a URL hint the policy refuses reaches a verifier only through a
\* remembered nonce.
RefusedUrlNeedsNonce ==
    \A c \in Callers :
        (Waiting(c) /\ ~HintAllowed(Current(c).hint)) => call[c].wait.bound

\* Where no name is registered with two verifiers, an answer routed by its nonce is
\* judged by the verifier that issued the nonce.
StableRegistrations ==
    \A d, e \in Registrations : d.name = e.name => d.verifier = e.verifier
IssuerAppraises ==
    StableRegistrations =>
        \A c \in Callers :
            (Waiting(c) /\ call[c].wait.bound) =>
                call[c].wait.verifier = hist[Current(c).nonce].issuer

\* Every call ends, a bundle with unroutable statements too.
CallsReturn == \A c \in Callers : call[c].op # "idle" ~> call[c].op = "idle"

\* Eviction is lazy, but as long as calls keep resolving routes no nonce stays in
\* the table for good.
Resolves(c) ==
    \/ \E req \in Requests : GetNonce(c, req) \/ VerifyToken(c, req)
    \/ DispatchStatement(c)
    \/ StatementUnroutable(c)
NoncesLeaveUnderTraffic ==
    ([]<><<\E c \in Callers : Resolves(c)>>_<<table, call>>) =>
        \A n \in Nonces : []<>(n \notin DOMAIN table)

\* The answer to a challenge that a call has a verifier judge, or None.
Asked(cl) ==
    LET n == cl.args[cl.at].nonce
    IN  IF cl.wait # None /\ n # None
        THEN [nonce |-> n, route |-> cl.wait.route, bound |-> cl.wait.bound]
        ELSE None

\* The router implements the ledger of live challenges: see NonceLedger.
Ledger == INSTANCE NonceLedger WITH
    live <- Unexpired,
    busy <- [c \in Callers |-> Asked(call[c])]
ImplementsLedger == Ledger!Spec
====
