---- MODULE VerifierRouterProofs ----
(***************************************************************************)
(* Proofs about the verifier router, for every set of callers, routes,     *)
(* verifiers and nonces, every policy and every nonce lifetime.            *)
(***************************************************************************)
EXTENDS VerifierRouter, FiniteSetTheorems, TLAPS

\* Where a call can be: an idle one waits for nobody, a get_nonce or verify_token
\* always waits for a verifier, and a waiting call is at one of its requests.
CallShape ==
    \A c \in Callers :
        /\ call[c].op = "idle" => ~Waiting(c)
        /\ call[c].op \in {"get_nonce", "verify_token"} => Waiting(c)
        /\ Waiting(c) => call[c].at <= Len(call[c].args)

\* The inductive invariant.  Types alone are not inductive: that a dispatch yields a
\* verifier needs the names to be registered, and that a nonce is one needs the shape
\* of the calls.
IInv ==
    /\ TypeOK
    /\ NamesRegistered
    /\ CallShape

USE DEF Hints

\* A call that has just begun is a call, and waits for nobody.
LEMMA BegunIsCall ==
    ASSUME NEW op \in {"idle", "get_nonce", "verify_token", "verify_bundle"},
           NEW args \in Seq(Request)
    PROVE  /\ Begun(op, args) \in Call
           /\ Begun(op, args).op = op
           /\ Begun(op, args).args = args
           /\ Begun(op, args).at = 1
           /\ Begun(op, args).wait = None
BY DEF Begun, Call

LEMMA IdleIsCall == Idle \in Call /\ Idle.wait = None /\ Idle.op = "idle"
<1>1. <<>> \in Seq(Request)
  OBVIOUS
<1> QED BY <1>1, BegunIsCall DEF Idle

\* A call that has not passed its last request is at one.
LEMMA CurrentIsRequest ==
    ASSUME TypeOK, NEW c \in Callers, call[c].at <= Len(call[c].args)
    PROVE  Current(c) \in Request
<1>1. call[c].args \in Seq(Request) /\ call[c].at \in Nat \ {0}
  BY DEF TypeOK, Call
<1> QED BY <1>1 DEF Current

\* Whatever the request, resolve() returns a registered route.
LEMMA ResolveRegistered ==
    ASSUME TypeOK, NamesRegistered, NEW req \in Request, NEW r \in Resolve(req)
    PROVE  r \in DOMAIN routes
<1>1. CASE req.nonce \in DOMAIN Unexpired
  BY <1>1 DEF Resolve, Unexpired, NamesRegistered
<1>2. CASE req.nonce \notin DOMAIN Unexpired
  <2>1. r \in Favoured(req)
    BY <1>2 DEF Resolve
  <2>2. First(HintMatches(req.hint)) \subseteq DOMAIN routes
    BY DEF First, HintMatches
  <2>3. First(TypeMatches(req.oid)) \subseteq DOMAIN routes
    BY DEF First, TypeMatches
  <2> QED BY <2>1, <2>2, <2>3 DEF Favoured, NamesRegistered
<1> QED BY <1>1, <1>2

\* What a choice says of the routes is about registered ones.
LEMMA PreferencesTyped ==
    ASSUME TypeOK, NamesRegistered, NEW req \in Request, NEW r \in Resolve(req)
    PROVE  Preferences(req, r) \subseteq Names \X Names
<1>1. r \in Names
  BY ResolveRegistered DEF TypeOK
<1>2. Competing(req) \subseteq Names
  BY DEF Competing, HintMatches, TypeMatches, TypeOK
<1> QED BY <1>1, <1>2 DEF Preferences

\* Evicting keeps the table well formed and its routes registered.
LEMMA UnexpiredSound ==
    ASSUME TypeOK, NamesRegistered
    PROVE  /\ DOMAIN Unexpired \subseteq Nonces
           /\ \A n \in DOMAIN Unexpired :
                  Unexpired[n] \in Entry /\ Unexpired[n].route \in DOMAIN routes
BY DEF Unexpired, TypeOK, NamesRegistered

\* Handing a request to the verifier of its route yields a call that waits for a
\* registered route and is otherwise the same.
LEMMA DispatchedSound ==
    ASSUME TypeOK, NamesRegistered, NEW cl \in Call, NEW req \in Request,
           NEW r \in Resolve(req)
    PROVE  LET d == Dispatched(cl, req, r)
           IN  /\ d \in Call
               /\ d.op = cl.op /\ d.at = cl.at /\ d.args = cl.args
               /\ d.wait # None
               /\ d.wait.route \in DOMAIN routes
<1> DEFINE w == [route |-> r, verifier |-> routes[r].verifier,
                 bound |-> req.nonce \in DOMAIN Unexpired]
<1>1. r \in DOMAIN routes
  BY ResolveRegistered
<1>2. r \in Names /\ routes[r].verifier \in Verifiers
  BY <1>1 DEF TypeOK, Route
<1>3. w \in Appraisal
  BY <1>2 DEF Appraisal
<1>4. w # None
  BY <1>3, NoneAssumption
<1>5. Dispatched(cl, req, r) = [cl EXCEPT !.wait = w]
  BY DEF Dispatched
<1> HIDE DEF w
<1>6. [cl EXCEPT !.wait = w] \in Call
  BY <1>3 DEF Call
<1>7. /\ [cl EXCEPT !.wait = w].op = cl.op
      /\ [cl EXCEPT !.wait = w].at = cl.at
      /\ [cl EXCEPT !.wait = w].args = cl.args
      /\ [cl EXCEPT !.wait = w].wait = w
  BY DEF Call
<1>8. w.route = r
  BY DEF w
<1> QED BY <1>1, <1>4, <1>5, <1>6, <1>7, <1>8

----
(* Init and the steps of Next, one lemma each *)

LEMMA InitEstablishes == Init => IInv
<1> SUFFICES ASSUME Init PROVE IInv
  OBVIOUS
<1>1. DOMAIN routes = {} /\ DOMAIN table = {}
  BY DEF Init
<1>2. Idle \in Call /\ Idle.wait = None /\ Idle.op = "idle"
  BY IdleIsCall
<1>3. call \in [Callers -> Call] /\ \A c \in Callers : call[c] = Idle
  BY <1>2 DEF Init
<1>4. hist \in [Nonces -> [issuer : Verifiers \cup {None}, answered : Nat]]
  BY DEF Init
<1>5. TypeOK
  BY <1>1, <1>3, <1>4 DEF TypeOK, Init
<1>6. NamesRegistered
  BY <1>1, <1>2, <1>3 DEF NamesRegistered, Init, Waiting
<1>7. CallShape
  BY <1>2, <1>3 DEF CallShape, Waiting
<1> QED BY <1>5, <1>6, <1>7 DEF IInv

LEMMA RegisterKeeps ==
    ASSUME IInv, NEW e \in Registrations, Register(e)
    PROVE  IInv'
<1>1. e \in Registration
  BY InputsAssumption
<1>2. DOMAIN routes' = DOMAIN routes \cup {e.name}
  BY DEF Register
<1>3. DOMAIN routes' \subseteq Names /\ \A n \in DOMAIN routes' : routes'[n] \in Route
  <2>1. [verifier |-> e.verifier, types |-> e.types, url |-> e.url] \in Route
    BY <1>1 DEF Registration, Route
  <2> QED BY <1>1, <1>2, <2>1 DEF Register, Registration, IInv, TypeOK
<1>4. order' \in Seq(DOMAIN routes')
  BY <1>2 DEF Register, Listed, IInv, TypeOK
<1>5. default' \in DOMAIN routes' /\ default' \in Names
  BY <1>1, <1>2 DEF Register, Registration, IInv, NamesRegistered, TypeOK
<1>6. TypeOK'
  BY <1>3, <1>4, <1>5 DEF Register, IInv, TypeOK
<1>7. NamesRegistered'
  BY <1>2, <1>5, NoneAssumption DEF Register, IInv, NamesRegistered, Waiting
<1>8. CallShape'
  BY DEF Register, IInv, CallShape, Waiting
<1> QED BY <1>6, <1>7, <1>8 DEF IInv

\* Replacing the table by a sound one and one caller's call by a sound one is enough:
\* what the remaining actions have in common.
LEMMA StepKeeps ==
    ASSUME IInv, UNCHANGED <<routes, order, default>>,
           preferred' \subseteq Names \X Names,
           DOMAIN table' \subseteq Nonces,
           \A n \in DOMAIN table' : table'[n] \in Entry /\ table'[n].route \in DOMAIN routes,
           hist' \in [Nonces -> [issuer : Verifiers \cup {None}, answered : Nat]],
           NEW c \in Callers, NEW x \in Call, call' = [call EXCEPT ![c] = x],
           x.op = "idle" => x.wait = None,
           x.op \in {"get_nonce", "verify_token"} => x.wait # None,
           x.wait # None => x.at <= Len(x.args) /\ x.wait.route \in DOMAIN routes
    PROVE  IInv'
<1>1. call' \in [Callers -> Call]
  BY DEF IInv, TypeOK
<1>2. call'[c] = x /\ \A d \in Callers : d # c => call'[d] = call[d]
  BY DEF IInv, TypeOK
<1>3. TypeOK'
  BY <1>1 DEF IInv, TypeOK
<1>4. NamesRegistered'
  BY <1>2 DEF IInv, NamesRegistered, Waiting
<1>5. CallShape'
  BY <1>2 DEF IInv, CallShape, Waiting
<1> QED BY <1>3, <1>4, <1>5 DEF IInv

\* A call that returns or raises leaves everything else as it is.
LEMMA ReturnKeeps ==
    ASSUME IInv, UNCHANGED <<routes, order, default, table, hist, preferred>>,
           NEW c \in Callers, call' = Returned(c)
    PROVE  IInv'
<1>1. /\ DOMAIN table' \subseteq Nonces
      /\ \A n \in DOMAIN table' : table'[n] \in Entry /\ table'[n].route \in DOMAIN routes
      /\ hist' \in [Nonces -> [issuer : Verifiers \cup {None}, answered : Nat]]
      /\ preferred' \subseteq Names \X Names
  BY DEF IInv, TypeOK, NamesRegistered
<1>2. Idle \in Call /\ Idle.wait = None /\ Idle.op = "idle"
  BY IdleIsCall
<1>3. call' = [call EXCEPT ![c] = Idle]
  BY DEF Returned
<1> HIDE DEF Idle
<1> QED BY <1>1, <1>2, <1>3, StepKeeps

LEMMA StartKeeps ==
    ASSUME IInv, NEW c \in Callers, NEW op \in {"get_nonce", "verify_token"},
           NEW req \in Requests, Start(c, op, req)
    PROVE  IInv'
<1>1. /\ DOMAIN table' \subseteq Nonces
      /\ \A n \in DOMAIN table' : table'[n] \in Entry /\ table'[n].route \in DOMAIN routes
  BY UnexpiredSound DEF Start, IInv
<1>2. /\ hist' \in [Nonces -> [issuer : Verifiers \cup {None}, answered : Nat]]
      /\ UNCHANGED <<routes, order, default>>
  BY DEF Start, IInv, TypeOK
<1>3. req \in Request
  BY InputsAssumption
<1>7. preferred' \subseteq Names \X Names
  BY <1>3, PreferencesTyped DEF Start, IInv, TypeOK
<1>4. CASE UNCHANGED call
  <2>1. call' = [call EXCEPT ![c] = call[c]] /\ call[c] \in Call
    BY <1>4 DEF IInv, TypeOK
  <2>2. /\ call[c].op = "idle" => call[c].wait = None
        /\ call[c].op \in {"get_nonce", "verify_token"} => call[c].wait # None
        /\ call[c].wait # None =>
               call[c].at <= Len(call[c].args) /\ call[c].wait.route \in DOMAIN routes
    BY DEF IInv, CallShape, NamesRegistered, Waiting
  <2> QED BY <1>1, <1>2, <1>7, <2>1, <2>2, StepKeeps
<1>5. ASSUME NEW r \in Resolve(req),
             call' = [call EXCEPT ![c] = Dispatched(Begun(op, <<req>>), req, r)]
      PROVE  IInv'
  <2> DEFINE args == <<req>>
  <2> DEFINE x == Dispatched(Begun(op, args), req, r)
  <2>1. args \in Seq(Request) /\ Len(args) = 1
    BY <1>3
  <2>0. op \in {"idle", "get_nonce", "verify_token", "verify_bundle"}
    OBVIOUS
  <2>4. call' = [call EXCEPT ![c] = x]
    BY <1>5
  <2> HIDE DEF args
  <2>2. /\ Begun(op, args) \in Call
        /\ Begun(op, args).op = op
        /\ Begun(op, args).args = args
        /\ Begun(op, args).at = 1
    BY <2>0, <2>1, BegunIsCall
  <2>3. /\ x \in Call
        /\ x.op = op /\ x.at = 1 /\ x.args = args
        /\ x.wait # None
        /\ x.wait.route \in DOMAIN routes
    BY <1>3, <2>2, DispatchedSound DEF IInv
  <2> HIDE DEF x
  <2>5. x.op # "idle"
    BY <2>3
  <2>6. x.at <= Len(x.args)
    <3>1. Len(x.args) = 1
      BY <2>1, <2>3
    <3> QED BY <2>3, <3>1
  <2> QED BY <1>1, <1>2, <1>7, <2>3, <2>4, <2>5, <2>6, StepKeeps
<1>6. \/ UNCHANGED call
      \/ \E r \in Resolve(req) :
             call' = [call EXCEPT ![c] = Dispatched(Begun(op, <<req>>), req, r)]
  BY DEF Start
<1> QED BY <1>4, <1>5, <1>6

LEMMA NonceArrivesKeeps ==
    ASSUME IInv, NEW c \in Callers, NEW n \in Nonces, NonceArrives(c, n)
    PROVE  IInv'
<1>1. call[c].wait \in Appraisal /\ call[c].wait.route \in DOMAIN routes
  BY DEF NonceArrives, IInv, TypeOK, Call, CallShape, NamesRegistered, Waiting
<1>2. /\ call[c].wait.route \in Names
      /\ call[c].wait.verifier \in Verifiers
  BY <1>1 DEF Appraisal
<1>3. DOMAIN table' = DOMAIN table \cup {n}
  BY DEF NonceArrives
<1>4. [route |-> RememberedRoute(c), left |-> TTL] \in Entry
  BY <1>2, TTLAssumption DEF RememberedRoute, Entry
<1>5. \A m \in DOMAIN table' :
          table'[m] = IF m = n THEN [route |-> RememberedRoute(c), left |-> TTL]
                      ELSE table[m]
  BY <1>3 DEF NonceArrives
<1>6. /\ DOMAIN table' \subseteq Nonces
      /\ \A m \in DOMAIN table' : table'[m] \in Entry /\ table'[m].route \in DOMAIN routes
  BY <1>1, <1>3, <1>4, <1>5 DEF IInv, TypeOK, NamesRegistered, RememberedRoute
<1>7. hist' \in [Nonces -> [issuer : Verifiers \cup {None}, answered : Nat]]
  BY <1>2 DEF NonceArrives, IInv, TypeOK
<1>8. Idle \in Call /\ Idle.wait = None /\ Idle.op = "idle"
  BY IdleIsCall
<1>9. /\ call' = [call EXCEPT ![c] = Idle]
      /\ UNCHANGED <<routes, order, default>>
      /\ preferred' \subseteq Names \X Names
  BY DEF NonceArrives, Returned, IInv, TypeOK
<1> HIDE DEF Idle
<1> QED BY <1>6, <1>7, <1>8, <1>9, StepKeeps

\* Forgetting a nonce keeps the table sound.
LEMMA ConsumeSound ==
    ASSUME IInv, NEW c \in Callers, Consume(c)
    PROVE  /\ DOMAIN table' \subseteq Nonces
           /\ \A n \in DOMAIN table' :
                  table'[n] \in Entry /\ table'[n].route \in DOMAIN routes
           /\ hist' \in [Nonces -> [issuer : Verifiers \cup {None}, answered : Nat]]
<1>1. DOMAIN table' = DOMAIN table \ {Current(c).nonce}
  BY DEF Consume
<1>2. \A n \in DOMAIN table' : table'[n] = table[n]
  BY <1>1 DEF Consume
<1>0. hist \in [Nonces -> [issuer : Verifiers \cup {None}, answered : Nat]]
  BY DEF IInv, TypeOK
<1>3. \A m \in Nonces : hist'[m] \in [issuer : Verifiers \cup {None}, answered : Nat]
  BY <1>0 DEF Consume
<1>4. hist' \in [Nonces -> [issuer : Verifiers \cup {None}, answered : Nat]]
  BY <1>3 DEF Consume
<1> QED BY <1>1, <1>2, <1>4 DEF IInv, TypeOK, NamesRegistered

LEMMA TokenJudgedKeeps ==
    ASSUME IInv, NEW c \in Callers, TokenJudged(c)
    PROVE  IInv'
<1>1. Idle \in Call /\ Idle.wait = None /\ Idle.op = "idle"
  BY IdleIsCall
<1>2. /\ call' = [call EXCEPT ![c] = Idle]
      /\ UNCHANGED <<routes, order, default>>
      /\ preferred' \subseteq Names \X Names
  BY DEF TokenJudged, Returned, IInv, TypeOK
<1>3. Consume(c)
  BY DEF TokenJudged
<1> HIDE DEF Idle
<1> QED BY <1>1, <1>2, <1>3, ConsumeSound, StepKeeps

LEMMA VerifyBundleKeeps ==
    ASSUME IInv, NEW c \in Callers, NEW args \in Bundles, VerifyBundle(c, args)
    PROVE  IInv'
<1> DEFINE x == Begun("verify_bundle", args)
<1>1. /\ DOMAIN table' \subseteq Nonces
      /\ \A n \in DOMAIN table' : table'[n] \in Entry /\ table'[n].route \in DOMAIN routes
      /\ hist' \in [Nonces -> [issuer : Verifiers \cup {None}, answered : Nat]]
      /\ preferred' \subseteq Names \X Names
      /\ UNCHANGED <<routes, order, default>>
  BY DEF VerifyBundle, IInv, TypeOK, NamesRegistered
<1>2. args \in Seq(Request)
  BY InputsAssumption
<1>3. x \in Call /\ x.op = "verify_bundle" /\ x.wait = None
  BY <1>2, BegunIsCall
<1>4. call' = [call EXCEPT ![c] = x]
  BY DEF VerifyBundle
<1> HIDE DEF x
<1> QED BY <1>1, <1>3, <1>4, StepKeeps

LEMMA DispatchStatementKeeps ==
    ASSUME IInv, NEW c \in Callers, DispatchStatement(c)
    PROVE  IInv'
<1>1. /\ DOMAIN table' \subseteq Nonces
      /\ \A n \in DOMAIN table' : table'[n] \in Entry /\ table'[n].route \in DOMAIN routes
  BY UnexpiredSound DEF DispatchStatement, IInv
<1>2. /\ hist' \in [Nonces -> [issuer : Verifiers \cup {None}, answered : Nat]]
      /\ UNCHANGED <<routes, order, default>>
  BY DEF DispatchStatement, IInv, TypeOK
<1>3. call[c] \in Call /\ call[c].op = "verify_bundle" /\ call[c].at <= Len(call[c].args)
  BY DEF DispatchStatement, AtStatement, IInv, TypeOK
<1>4. Current(c) \in Request
  BY <1>3, CurrentIsRequest DEF IInv
<1>9. preferred' \subseteq Names \X Names
  BY <1>4, PreferencesTyped DEF DispatchStatement, IInv, TypeOK
<1>5. PICK r \in Resolve(Current(c)) :
          call' = [call EXCEPT ![c] = Dispatched(call[c], Current(c), r)]
  BY DEF DispatchStatement
<1> DEFINE x == Dispatched(call[c], Current(c), r)
<1>6. /\ x \in Call
      /\ x.op = "verify_bundle"
      /\ x.at <= Len(x.args)
      /\ x.wait.route \in DOMAIN routes
  BY <1>3, <1>4, DispatchedSound DEF IInv
<1>7. call' = [call EXCEPT ![c] = x]
  BY <1>5
<1>8. x.wait # None
  BY <1>3, <1>4, DispatchedSound DEF IInv
<1> HIDE DEF x
<1> QED BY <1>1, <1>2, <1>6, <1>7, <1>8, <1>9, StepKeeps

\* The next statement of a bundle, its predecessor judged or unroutable.
LEMMA JudgedIsCall ==
    ASSUME NEW cl \in Call, NEW verdict \in Verdicts, NEW name \in Names \cup {None}
    PROVE  /\ Judged(cl, verdict, name) \in Call
           /\ Judged(cl, verdict, name).op = cl.op
           /\ Judged(cl, verdict, name).wait = None
<1>1. /\ cl.at + 1 \in Nat \ {0}
      /\ Append(cl.verdicts, verdict) \in Seq(Verdicts)
      /\ Append(cl.names, name) \in Seq(Names \cup {None})
  BY DEF Call
<1> QED BY <1>1 DEF Judged, Call

LEMMA StatementUnroutableKeeps ==
    ASSUME IInv, NEW c \in Callers, StatementUnroutable(c)
    PROVE  IInv'
<1> DEFINE x == Judged(call[c], "unknown", None)
<1>1. /\ DOMAIN table' \subseteq Nonces
      /\ \A n \in DOMAIN table' : table'[n] \in Entry /\ table'[n].route \in DOMAIN routes
  BY UnexpiredSound DEF StatementUnroutable, IInv
<1>2. /\ hist' \in [Nonces -> [issuer : Verifiers \cup {None}, answered : Nat]]
      /\ UNCHANGED <<routes, order, default>>
  BY DEF StatementUnroutable, IInv, TypeOK
<1>3. call[c] \in Call /\ call[c].op = "verify_bundle"
  BY DEF StatementUnroutable, AtStatement, IInv, TypeOK
<1>4. "unknown" \in Verdicts /\ None \in Names \cup {None}
  BY DEF Verdicts
<1>5. x \in Call /\ x.op = "verify_bundle" /\ x.wait = None
  BY <1>3, <1>4, JudgedIsCall
<1>6. call' = [call EXCEPT ![c] = x] /\ preferred' \subseteq Names \X Names
  BY DEF StatementUnroutable, Unroutable, IInv, TypeOK
<1> HIDE DEF x
<1> QED BY <1>1, <1>2, <1>5, <1>6, StepKeeps

LEMMA StatementJudgedKeeps ==
    ASSUME IInv, NEW c \in Callers, NEW verdict \in Verdicts, StatementJudged(c, verdict)
    PROVE  IInv'
<1> DEFINE x == Judged(call[c], verdict, call[c].wait.route)
<1>1. call[c] \in Call /\ call[c].op = "verify_bundle" /\ call[c].wait.route \in Names
  BY DEF StatementJudged, IInv, TypeOK, NamesRegistered
<1>2. x \in Call /\ x.op = "verify_bundle" /\ x.wait = None
  BY <1>1, JudgedIsCall
<1>3. /\ call' = [call EXCEPT ![c] = x]
      /\ UNCHANGED <<routes, order, default>>
      /\ preferred' \subseteq Names \X Names
      /\ Consume(c)
  BY DEF StatementJudged, IInv, TypeOK
<1> HIDE DEF x
<1> QED BY <1>2, <1>3, ConsumeSound, StepKeeps

LEMMA TickKeeps ==
    ASSUME IInv, Tick
    PROVE  IInv'
<1>1. DOMAIN table' = DOMAIN table
  BY DEF Tick
<1>2. \A n \in DOMAIN table :
          /\ table[n].left \in 0 .. TTL
          /\ table'[n] = [table[n] EXCEPT !.left =
                              IF table[n].left > 0 THEN table[n].left - 1 ELSE 0]
  BY DEF Tick, IInv, TypeOK, Entry
<1>3. \A n \in DOMAIN table : table'[n] \in Entry /\ table'[n].route = table[n].route
  <2> SUFFICES ASSUME NEW n \in DOMAIN table
               PROVE  table'[n] \in Entry /\ table'[n].route = table[n].route
    OBVIOUS
  <2>1. table[n].left \in 0 .. TTL
    BY <1>2
  <2>2. (IF table[n].left > 0 THEN table[n].left - 1 ELSE 0) \in 0 .. TTL
    BY <2>1, TTLAssumption
  <2> QED BY <1>2, <2>2 DEF IInv, TypeOK, Entry
<1>4. TypeOK'
  BY <1>1, <1>3 DEF Tick, IInv, TypeOK
<1>5. NamesRegistered'
  BY <1>1, <1>3 DEF Tick, IInv, NamesRegistered, Waiting
<1> QED BY <1>4, <1>5 DEF Tick, IInv, CallShape, Waiting

----
(* The theorems *)

LEMMA NextKeeps == IInv /\ [Next]_vars => IInv'
<1> SUFFICES ASSUME IInv, [Next]_vars PROVE IInv'
  OBVIOUS
<1>1. ASSUME NEW e \in Registrations, Register(e) PROVE IInv'
  BY <1>1, RegisterKeeps
<1>2. ASSUME NEW c \in Callers, CallStarts(c) PROVE IInv'
  <2>1. ASSUME NEW req \in Requests, GetNonce(c, req) PROVE IInv'
    BY <2>1, StartKeeps DEF GetNonce
  <2>2. ASSUME NEW req \in Requests, VerifyToken(c, req) PROVE IInv'
    BY <2>2, StartKeeps DEF VerifyToken
  <2>3. ASSUME NEW args \in Bundles, VerifyBundle(c, args) PROVE IInv'
    BY <2>3, VerifyBundleKeeps
  <2> QED BY <1>2, <2>1, <2>2, <2>3 DEF CallStarts
<1>3. ASSUME NEW c \in Callers, CallGoesOn(c) PROVE IInv'
  <2>1. ASSUME NEW n \in Nonces, NonceArrives(c, n) PROVE IInv'
    BY <2>1, NonceArrivesKeeps
  <2>2. CASE EmptyNonceArrives(c) \/ BundleReturns(c) \/ VerifierRaises(c)
    BY <2>2, ReturnKeeps DEF EmptyNonceArrives, BundleReturns, VerifierRaises
  <2>3. CASE TokenJudged(c)
    BY <2>3, TokenJudgedKeeps
  <2>4. CASE DispatchStatement(c)
    BY <2>4, DispatchStatementKeeps
  <2>5. CASE StatementUnroutable(c)
    BY <2>5, StatementUnroutableKeeps
  <2>6. ASSUME NEW v \in Verdicts, StatementJudged(c, v) PROVE IInv'
    BY <2>6, StatementJudgedKeeps
  <2> QED BY <1>3, <2>1, <2>2, <2>3, <2>4, <2>5, <2>6 DEF CallGoesOn
<1>4. CASE Tick
  BY <1>4, TickKeeps
<1>5. CASE UNCHANGED vars
  BY <1>5 DEF vars, IInv, TypeOK, NamesRegistered, CallShape, Waiting
<1> QED BY <1>1, <1>2, <1>3, <1>4, <1>5 DEF Next

LEMMA Invariance == Spec => []IInv
BY InitEstablishes, NextKeeps, PTL DEF Spec

\* The router's state always has its type.
THEOREM TypeCorrect == Spec => []TypeOK
<1>1. IInv => TypeOK
  BY DEF IInv
<1> QED BY Invariance, <1>1, PTL

\* Whatever is registered, looked up or expires, and whoever calls: the default route,
\* the route of each remembered nonce and the route of each call in progress are
\* registered, so no lookup of a route by name raises KeyError.
THEOREM LookupsSucceed == Spec => []NamesRegistered
<1>1. IInv => NamesRegistered
  BY DEF IInv
<1> QED BY Invariance, <1>1, PTL

----
(* Bundles: every statement passed has its entry in both lists, and only a registered *)
(* route's verifier can have affirmed it. *)

BundleSound(cl) ==
    cl.op = "verify_bundle" =>
        /\ cl.at <= Len(cl.args) + 1
        /\ Len(cl.names) = cl.at - 1
        /\ Len(cl.verdicts) = cl.at - 1
        /\ \A i \in 1 .. cl.at - 1 :
               cl.verdicts[i] = "affirming" => cl.names[i] \in DOMAIN routes

BundlesSound == \A c \in Callers : BundleSound(call[c])

LEMMA JudgedSound ==
    ASSUME NEW cl \in Call, BundleSound(cl), cl.op = "verify_bundle",
           cl.at <= Len(cl.args), NEW verdict \in Verdicts, NEW name \in Names \cup {None},
           verdict = "affirming" => name \in DOMAIN routes
    PROVE  BundleSound(Judged(cl, verdict, name))
<1> DEFINE x == Judged(cl, verdict, name)
<1>1. /\ cl.at \in Nat \ {0} /\ cl.args \in Seq(Request)
      /\ cl.verdicts \in Seq(Verdicts) /\ cl.names \in Seq(Names \cup {None})
  BY DEF Call
<1>2. /\ x.args = cl.args /\ x.at = cl.at + 1
      /\ x.verdicts = Append(cl.verdicts, verdict) /\ x.names = Append(cl.names, name)
  BY DEF Judged
<1>3. Len(cl.names) = cl.at - 1 /\ Len(cl.verdicts) = cl.at - 1
  BY DEF BundleSound
<1>4. Len(x.names) = cl.at /\ Len(x.verdicts) = cl.at
  BY <1>1, <1>2, <1>3
<1>5. ASSUME NEW i \in 1 .. cl.at, x.verdicts[i] = "affirming"
      PROVE  x.names[i] \in DOMAIN routes
  <2>1. CASE i = cl.at
    <3>1. x.verdicts[i] = verdict /\ x.names[i] = name
      BY <1>1, <1>2, <1>3, <2>1
    <3> QED BY <1>5, <3>1
  <2>2. CASE i # cl.at
    <3>1. i \in 1 .. cl.at - 1
      BY <1>1, <2>2
    <3>2. x.verdicts[i] = cl.verdicts[i] /\ x.names[i] = cl.names[i]
      BY <1>1, <1>2, <1>3, <3>1
    <3> QED BY <1>5, <3>1, <3>2 DEF BundleSound
  <2> QED BY <2>1, <2>2
<1>6. x.at <= Len(x.args) + 1 /\ x.at - 1 = cl.at
  <2>1. Len(cl.args) \in Nat
    BY <1>1
  <2> QED BY <1>1, <1>2, <2>1
<1> HIDE DEF x
<1>7. BundleSound(x)
  BY <1>4, <1>5, <1>6 DEF BundleSound
<1> QED BY <1>7 DEF x

\* A step that gives one caller a sound call and forgets no route keeps all calls sound.
LEMMA BundleStepKeeps ==
    ASSUME IInv, BundlesSound, DOMAIN routes \subseteq DOMAIN routes',
           NEW c \in Callers, NEW x, call' = [call EXCEPT ![c] = x], BundleSound(x)
    PROVE  BundlesSound'
<1>1. call'[c] = x /\ \A d \in Callers : d # c => call'[d] = call[d]
  BY DEF IInv, TypeOK
<1>2. SUFFICES ASSUME NEW d \in Callers PROVE BundleSound(call[d])'
  BY DEF BundlesSound
<1>3. CASE d = c
  BY <1>1, <1>3 DEF BundleSound
<1>4. CASE d # c
  BY <1>1, <1>4 DEF BundleSound, BundlesSound
<1> QED BY <1>3, <1>4

\* The call a step ends or begins is no bundle, or an empty-handed one.
LEMMA FreshCallsSound ==
    /\ BundleSound(Idle)
    /\ \A args \in Seq(Request) : BundleSound(Begun("verify_bundle", args))
<1>1. BundleSound(Idle)
  BY IdleIsCall DEF BundleSound
<1>2. ASSUME NEW args \in Seq(Request) PROVE BundleSound(Begun("verify_bundle", args))
  <2> DEFINE x == Begun("verify_bundle", args)
  <2>1. /\ x.args = args /\ x.at = 1
        /\ Len(x.names) = 0 /\ Len(x.verdicts) = 0
    BY DEF Begun
  <2>2. Len(args) \in Nat
    OBVIOUS
  <2> HIDE DEF x
  <2>3. BundleSound(x)
    BY <2>1, <2>2 DEF BundleSound
  <2> QED BY <2>3 DEF x
<1> QED BY <1>1, <1>2

\* Waiting for a verifier does not change what a bundle has so far.
LEMMA DispatchedBundleSound ==
    ASSUME TypeOK, NamesRegistered, NEW cl \in Call, NEW req \in Request,
           NEW r \in Resolve(req), BundleSound(cl)
    PROVE  BundleSound(Dispatched(cl, req, r))
<1> DEFINE w == [route |-> r, verifier |-> routes[r].verifier,
                 bound |-> req.nonce \in DOMAIN Unexpired]
<1>1. Dispatched(cl, req, r) = [cl EXCEPT !.wait = w]
  BY DEF Dispatched
<1> HIDE DEF w
<1>2. /\ [cl EXCEPT !.wait = w].op = cl.op /\ [cl EXCEPT !.wait = w].at = cl.at
      /\ [cl EXCEPT !.wait = w].args = cl.args
      /\ [cl EXCEPT !.wait = w].names = cl.names
      /\ [cl EXCEPT !.wait = w].verdicts = cl.verdicts
  BY DEF Call
<1>3. BundleSound([cl EXCEPT !.wait = w])
  BY <1>2 DEF BundleSound
<1> QED BY <1>1, <1>3

LEMMA NextKeepsBundles == IInv /\ BundlesSound /\ [Next]_vars => BundlesSound'
<1> SUFFICES ASSUME IInv, BundlesSound, [Next]_vars PROVE BundlesSound'
  OBVIOUS
<1>0. TypeOK /\ NamesRegistered
  BY DEF IInv
<1>1. CASE DOMAIN routes \subseteq DOMAIN routes' /\ UNCHANGED call
  BY <1>1 DEF BundlesSound, BundleSound
<1>2. ASSUME NEW c \in Callers, UNCHANGED routes, call' = Returned(c)
      PROVE  BundlesSound'
  <2>1. call' = [call EXCEPT ![c] = Idle]
    BY <1>2 DEF Returned
  <2> QED BY <1>2, <2>1, FreshCallsSound, BundleStepKeeps
<1>3. ASSUME NEW e \in Registrations, Register(e) PROVE BundlesSound'
  BY <1>1, <1>3 DEF Register
<1>4. ASSUME NEW c \in Callers, NEW op \in {"get_nonce", "verify_token"},
             NEW req \in Requests, Start(c, op, req)
      PROVE  BundlesSound'
  <2>1. CASE UNCHANGED call
    BY <1>1, <1>4, <2>1 DEF Start
  <2>2. ASSUME NEW r \in Resolve(req),
               call' = [call EXCEPT ![c] = Dispatched(Begun(op, <<req>>), req, r)]
        PROVE  BundlesSound'
    <3> DEFINE args == <<req>>
    <3> DEFINE x == Dispatched(Begun(op, args), req, r)
    <3>1. args \in Seq(Request) /\ req \in Request
      BY InputsAssumption
    <3>2. call' = [call EXCEPT ![c] = x]
      BY <2>2
    <3> HIDE DEF args
    <3>3. Begun(op, args) \in Call /\ Begun(op, args).op = op
      BY <3>1, BegunIsCall
    <3>4. BundleSound(Begun(op, args))
      BY <3>3 DEF BundleSound
    <3>5. BundleSound(x)
      BY <1>0, <3>1, <3>3, <3>4, DispatchedBundleSound
    <3> HIDE DEF x
    <3> QED BY <1>4, <3>2, <3>5, BundleStepKeeps DEF Start
  <2>3. \/ UNCHANGED call
        \/ \E r \in Resolve(req) :
               call' = [call EXCEPT ![c] = Dispatched(Begun(op, <<req>>), req, r)]
    BY <1>4 DEF Start
  <2> QED BY <2>1, <2>2, <2>3
<1>5. ASSUME NEW c \in Callers, NEW args \in Bundles, VerifyBundle(c, args)
      PROVE  BundlesSound'
  <2> DEFINE x == Begun("verify_bundle", args)
  <2>1. BundleSound(x)
    BY InputsAssumption, FreshCallsSound
  <2>2. call' = [call EXCEPT ![c] = x] /\ UNCHANGED routes
    BY <1>5 DEF VerifyBundle
  <2> HIDE DEF x
  <2> QED BY <2>1, <2>2, BundleStepKeeps
<1>6. ASSUME NEW c \in Callers, DispatchStatement(c) PROVE BundlesSound'
  <2>1. call[c] \in Call /\ BundleSound(call[c]) /\ Current(c) \in Request
    BY <1>0, <1>6, CurrentIsRequest DEF DispatchStatement, AtStatement, TypeOK, BundlesSound
  <2>2. PICK r \in Resolve(Current(c)) :
            call' = [call EXCEPT ![c] = Dispatched(call[c], Current(c), r)]
    BY <1>6 DEF DispatchStatement
  <2>3. BundleSound(Dispatched(call[c], Current(c), r))
    BY <1>0, <2>1, DispatchedBundleSound
  <2> QED BY <1>6, <2>2, <2>3, BundleStepKeeps DEF DispatchStatement
<1>7. ASSUME NEW c \in Callers, StatementUnroutable(c) PROVE BundlesSound'
  <2>1. /\ call[c] \in Call /\ BundleSound(call[c])
        /\ call[c].op = "verify_bundle" /\ call[c].at <= Len(call[c].args)
    BY <1>0, <1>7 DEF StatementUnroutable, AtStatement, TypeOK, BundlesSound
  <2>2. "unknown" \in Verdicts /\ "unknown" # "affirming" /\ None \in Names \cup {None}
    BY DEF Verdicts
  <2>3. BundleSound(Judged(call[c], "unknown", None))
    BY <2>1, <2>2, JudgedSound
  <2> QED BY <1>7, <2>3, BundleStepKeeps DEF StatementUnroutable, Unroutable
<1>8. ASSUME NEW c \in Callers, NEW v \in Verdicts, StatementJudged(c, v)
      PROVE  BundlesSound'
  <2>1. /\ call[c] \in Call /\ BundleSound(call[c])
        /\ call[c].op = "verify_bundle" /\ call[c].at <= Len(call[c].args)
        /\ call[c].wait.route \in DOMAIN routes
    BY <1>0, <1>8 DEF StatementJudged, TypeOK, BundlesSound, IInv, CallShape, NamesRegistered
  <2>2. call[c].wait.route \in Names \cup {None}
    BY <1>0, <2>1 DEF TypeOK
  <2>3. BundleSound(Judged(call[c], v, call[c].wait.route))
    BY <2>1, <2>2, JudgedSound
  <2> QED BY <1>8, <2>3, BundleStepKeeps DEF StatementJudged
<1>9. ASSUME NEW c \in Callers, CallGoesOn(c) PROVE BundlesSound'
  <2>1. CASE \/ \E n \in Nonces : NonceArrives(c, n)
             \/ EmptyNonceArrives(c) \/ TokenJudged(c)
             \/ BundleReturns(c) \/ VerifierRaises(c)
    BY <1>2, <2>1 DEF NonceArrives, EmptyNonceArrives, TokenJudged, BundleReturns,
                      VerifierRaises
  <2> QED BY <1>6, <1>7, <1>8, <1>9, <2>1 DEF CallGoesOn
<1>10. ASSUME NEW c \in Callers, CallStarts(c) PROVE BundlesSound'
  BY <1>4, <1>5, <1>10 DEF CallStarts, GetNonce, VerifyToken
<1>11. CASE Tick \/ UNCHANGED vars
  BY <1>1, <1>11 DEF Tick, vars
<1> QED BY <1>3, <1>9, <1>10, <1>11 DEF Next

\* A bundle is accepted only when each of its statements, and it has at least one, was
\* put to the verifier of a registered route; the two result lists are parallel to the
\* statements.
THEOREM AcceptedBundlesAreAppraised == Spec => []AcceptedBundleIsAppraised
<1>1. Init => BundlesSound
  BY FreshCallsSound DEF Init, BundlesSound
<1>2. IInv /\ BundlesSound => AcceptedBundleIsAppraised
  <2> SUFFICES ASSUME IInv, BundlesSound, NEW c \in Callers, call[c].op = "verify_bundle",
                      call[c].at > Len(call[c].args), Accepted(call[c].verdicts)
               PROVE  /\ Len(call[c].names) = Len(call[c].args)
                      /\ Len(call[c].verdicts) = Len(call[c].args)
                      /\ \A i \in 1 .. Len(call[c].names) : call[c].names[i] \in DOMAIN routes
    BY DEF AcceptedBundleIsAppraised
  <2>1. /\ call[c].at \in Nat \ {0} /\ call[c].args \in Seq(Request)
    BY DEF IInv, TypeOK, Call
  <2>2. BundleSound(call[c])
    BY DEF BundlesSound
  <2>3. call[c].at - 1 = Len(call[c].args)
    <3>1. Len(call[c].args) \in Nat
      BY <2>1
    <3> QED BY <2>1, <2>2, <3>1 DEF BundleSound
  <2> QED BY <2>2, <2>3 DEF BundleSound, Accepted
<1> QED BY <1>1, <1>2, NextKeepsBundles, Invariance, PTL DEF Spec

----
(* The URL policy: only a remembered nonce gets a call with a refused hint to a verifier. *)

PolicyRespected(cl) ==
    (cl.wait # None /\ ~HintAllowed(cl.args[cl.at].hint)) => cl.wait.bound

\* resolve() asks the policy unless the nonce is remembered.
LEMMA DispatchRespects ==
    ASSUME NEW cl \in Call, NEW req \in Request, NEW r \in Resolve(req),
           cl.args[cl.at] = req
    PROVE  PolicyRespected(Dispatched(cl, req, r))
<1> DEFINE w == [route |-> r, verifier |-> routes[r].verifier,
                 bound |-> req.nonce \in DOMAIN Unexpired]
<1>1. ~HintAllowed(req.hint) => req.nonce \in DOMAIN Unexpired
  BY DEF Resolve
<1>2. w.bound <=> req.nonce \in DOMAIN Unexpired
  OBVIOUS
<1>3. Dispatched(cl, req, r) = [cl EXCEPT !.wait = w]
  BY DEF Dispatched
<1> HIDE DEF w
<1>4. /\ [cl EXCEPT !.wait = w].wait = w
      /\ [cl EXCEPT !.wait = w].args = cl.args /\ [cl EXCEPT !.wait = w].at = cl.at
  BY DEF Call
<1>5. PolicyRespected([cl EXCEPT !.wait = w])
  BY <1>1, <1>2, <1>4 DEF PolicyRespected
<1> QED BY <1>3, <1>5

\* A step that gives one caller a call that respects the policy.
LEMMA PolicyStepKeeps ==
    ASSUME TypeOK, RefusedUrlNeedsNonce, NEW c \in Callers, NEW x,
           call' = [call EXCEPT ![c] = x], PolicyRespected(x)
    PROVE  RefusedUrlNeedsNonce'
<1>1. call'[c] = x /\ \A d \in Callers : d # c => call'[d] = call[d]
  BY DEF TypeOK
<1>2. SUFFICES ASSUME NEW d \in Callers PROVE PolicyRespected(call'[d])
  BY DEF RefusedUrlNeedsNonce, PolicyRespected, Waiting, Current
<1>3. PolicyRespected(call[d])
  BY DEF RefusedUrlNeedsNonce, PolicyRespected, Waiting, Current
<1> QED BY <1>1, <1>3

LEMMA NextKeepsPolicy ==
    IInv /\ RefusedUrlNeedsNonce /\ [Next]_vars => RefusedUrlNeedsNonce'
<1> SUFFICES ASSUME IInv, RefusedUrlNeedsNonce, [Next]_vars PROVE RefusedUrlNeedsNonce'
  OBVIOUS
<1>0. TypeOK
  BY DEF IInv
<1>1. CASE UNCHANGED call
  BY <1>1 DEF RefusedUrlNeedsNonce, Waiting, Current
\* A caller that does not wait, whatever else it does.
<1>2. ASSUME NEW c \in Callers, NEW x, call' = [call EXCEPT ![c] = x], x.wait = None
      PROVE  RefusedUrlNeedsNonce'
  <2>1. PolicyRespected(x)
    BY <1>2 DEF PolicyRespected
  <2> QED BY <1>0, <1>2, <2>1, PolicyStepKeeps
<1>3. ASSUME NEW c \in Callers, call' = Returned(c) PROVE RefusedUrlNeedsNonce'
  BY <1>2, <1>3, IdleIsCall DEF Returned
<1>4. ASSUME NEW c \in Callers, NEW op \in {"get_nonce", "verify_token"},
             NEW req \in Requests, Start(c, op, req)
      PROVE  RefusedUrlNeedsNonce'
  <2>1. CASE UNCHANGED call
    BY <1>1, <2>1
  <2>2. ASSUME NEW r \in Resolve(req),
               call' = [call EXCEPT ![c] = Dispatched(Begun(op, <<req>>), req, r)]
        PROVE  RefusedUrlNeedsNonce'
    <3> DEFINE args == <<req>>
    <3> DEFINE cl == Begun(op, args)
    <3> DEFINE x == Dispatched(cl, req, r)
    <3>1. args \in Seq(Request) /\ req \in Request /\ args[1] = req
      BY InputsAssumption
    <3>2. call' = [call EXCEPT ![c] = x]
      BY <2>2
    <3> HIDE DEF args
    <3>3. cl \in Call /\ cl.args = args /\ cl.at = 1
      BY <3>1, BegunIsCall
    <3> HIDE DEF cl
    <3>4. cl.args[cl.at] = req
      BY <3>1, <3>3
    <3>5. PolicyRespected(x)
      BY <3>1, <3>3, <3>4, DispatchRespects
    <3> HIDE DEF x
    <3> QED BY <1>0, <3>2, <3>5, PolicyStepKeeps
  <2>3. \/ UNCHANGED call
        \/ \E r \in Resolve(req) :
               call' = [call EXCEPT ![c] = Dispatched(Begun(op, <<req>>), req, r)]
    BY <1>4 DEF Start
  <2> QED BY <2>1, <2>2, <2>3
<1>5. ASSUME NEW c \in Callers, NEW args \in Bundles, VerifyBundle(c, args)
      PROVE  RefusedUrlNeedsNonce'
  <2> DEFINE x == Begun("verify_bundle", args)
  <2>1. x.wait = None /\ call' = [call EXCEPT ![c] = x]
    BY <1>5 DEF VerifyBundle, Begun
  <2> HIDE DEF x
  <2> QED BY <1>2, <2>1
<1>6. ASSUME NEW c \in Callers, DispatchStatement(c) PROVE RefusedUrlNeedsNonce'
  <2>1. call[c] \in Call /\ Current(c) \in Request
    BY <1>0, <1>6, CurrentIsRequest DEF DispatchStatement, AtStatement, TypeOK
  <2>2. PICK r \in Resolve(Current(c)) :
            call' = [call EXCEPT ![c] = Dispatched(call[c], Current(c), r)]
    BY <1>6 DEF DispatchStatement
  <2>3. call[c].args[call[c].at] = Current(c)
    BY DEF Current
  <2>4. PolicyRespected(Dispatched(call[c], Current(c), r))
    BY <2>1, <2>3, DispatchRespects
  <2> QED BY <1>0, <2>2, <2>4, PolicyStepKeeps
<1>7. ASSUME NEW c \in Callers, NEW v, NEW name,
             call' = [call EXCEPT ![c] = Judged(call[c], v, name)]
      PROVE  RefusedUrlNeedsNonce'
  <2> DEFINE x == Judged(call[c], v, name)
  <2>1. x.wait = None /\ call' = [call EXCEPT ![c] = x]
    BY <1>7 DEF Judged
  <2> HIDE DEF x
  <2> QED BY <1>2, <2>1
<1>8. ASSUME NEW c \in Callers, CallGoesOn(c) PROVE RefusedUrlNeedsNonce'
  <2>1. CASE \/ \E n \in Nonces : NonceArrives(c, n)
             \/ EmptyNonceArrives(c) \/ TokenJudged(c)
             \/ BundleReturns(c) \/ VerifierRaises(c)
    BY <1>3, <2>1 DEF NonceArrives, EmptyNonceArrives, TokenJudged, BundleReturns,
                      VerifierRaises
  <2>2. CASE StatementUnroutable(c)
    BY <1>7, <2>2 DEF StatementUnroutable, Unroutable
  <2>3. CASE \E v \in Verdicts : StatementJudged(c, v)
    BY <1>7, <2>3 DEF StatementJudged
  <2> QED BY <1>6, <1>8, <2>1, <2>2, <2>3 DEF CallGoesOn
<1>9. ASSUME NEW c \in Callers, CallStarts(c) PROVE RefusedUrlNeedsNonce'
  BY <1>4, <1>5, <1>9 DEF CallStarts, GetNonce, VerifyToken
<1>10. CASE Tick \/ UNCHANGED vars \/ \E e \in Registrations : Register(e)
  BY <1>1, <1>10 DEF Tick, Register, vars
<1> QED BY <1>8, <1>9, <1>10 DEF Next

\* However calls, registrations and expiry interleave, a call with a URL hint that the
\* policy refuses reaches a verifier only through a remembered nonce.
THEOREM RefusedUrlsNeedNonces == Spec => []RefusedUrlNeedsNonce
<1>1. Init => RefusedUrlNeedsNonce
  BY IdleIsCall DEF Init, RefusedUrlNeedsNonce, Waiting
<1> QED BY <1>1, NextKeepsPolicy, Invariance, PTL DEF Spec

----
(* Which route wins: the order only grows, at its end *)

Ahead(m, n) ==
    \E i, j \in DOMAIN order : i < j /\ order[i] = m /\ order[j] = n

\* The order lists every registered name once, and whoever was preferred comes first.
OrderDecides ==
    /\ \A i, j \in DOMAIN order : order[i] = order[j] => i = j
    /\ \A n \in DOMAIN routes : \E i \in DOMAIN order : order[i] = n
    /\ \A m, n \in Names : <<m, n>> \in preferred => Ahead(m, n)

LEMMA RegisterKeepsOrder ==
    ASSUME IInv, OrderDecides, NEW e \in Registrations, Register(e)
    PROVE  OrderDecides'
<1>1. DOMAIN routes' = DOMAIN routes \cup {e.name} /\ UNCHANGED preferred
  BY DEF Register
<1>2. CASE e.name \in DOMAIN routes
  <2>1. order' = order /\ DOMAIN routes' = DOMAIN routes
    BY <1>1, <1>2 DEF Register, Listed
  <2> QED BY <1>1, <2>1 DEF OrderDecides, Ahead
<1>3. CASE e.name \notin DOMAIN routes
  <2>1. order' = Append(order, e.name) /\ order \in Seq(DOMAIN routes)
    BY <1>3 DEF Register, Listed, IInv, TypeOK
  <2>2. /\ Len(order) \in Nat
        /\ DOMAIN order = 1 .. Len(order)
        /\ DOMAIN order' = 1 .. Len(order) + 1
        /\ order'[Len(order) + 1] = e.name
        /\ \A i \in DOMAIN order : order'[i] = order[i] /\ order[i] \in DOMAIN routes
    BY <2>1
  <2>3. ASSUME NEW i \in DOMAIN order', NEW j \in DOMAIN order', order'[i] = order'[j]
        PROVE  i = j
    <3>1. CASE i \in DOMAIN order /\ j \in DOMAIN order
      BY <2>2, <2>3, <3>1 DEF OrderDecides
    <3>2. CASE i \notin DOMAIN order /\ j \notin DOMAIN order
      BY <2>2, <3>2
    <3>3. CASE i \in DOMAIN order /\ j \notin DOMAIN order
      <4>1. order'[j] = e.name /\ order'[i] \in DOMAIN routes
        BY <2>2, <3>3
      <4> QED BY <1>3, <2>3, <4>1
    <3>4. CASE i \notin DOMAIN order /\ j \in DOMAIN order
      <4>1. order'[i] = e.name /\ order'[j] \in DOMAIN routes
        BY <2>2, <3>4
      <4> QED BY <1>3, <2>3, <4>1
    <3> QED BY <3>1, <3>2, <3>3, <3>4
  <2>4. ASSUME NEW n \in DOMAIN routes' PROVE \E i \in DOMAIN order' : order'[i] = n
    <3>1. CASE n \in DOMAIN routes
      <4>1. PICK i \in DOMAIN order : order[i] = n
        BY <3>1 DEF OrderDecides
      <4> QED BY <2>2, <4>1
    <3>2. CASE n = e.name
      BY <2>2, <3>2
    <3> QED BY <1>1, <3>1, <3>2
  <2>5. ASSUME NEW m \in Names, NEW n \in Names, <<m, n>> \in preferred'
        PROVE  Ahead(m, n)'
    <3>1. PICK i \in DOMAIN order, j \in DOMAIN order :
              i < j /\ order[i] = m /\ order[j] = n
      BY <1>1, <2>5 DEF OrderDecides, Ahead
    <3>2. i \in DOMAIN order' /\ j \in DOMAIN order'
      BY <2>2
    <3> QED BY <2>2, <3>1, <3>2 DEF Ahead
  <2> QED BY <2>3, <2>4, <2>5 DEF OrderDecides
<1> QED BY <1>2, <1>3

\* The route that a loop over the dict chooses comes before all others that match.
LEMMA ChosenIsAhead ==
    ASSUME IInv, OrderDecides, NEW req \in Request, NEW r \in Resolve(req),
           NEW m, NEW n, <<m, n>> \in Preferences(req, r)
    PROVE  Ahead(m, n)
<1> DEFINE S == Competing(req)
<1>1. m = r /\ n \in S /\ n # r
  BY DEF Preferences
<1>2. S \subseteq DOMAIN routes /\ r \in First(S)
  BY <1>1 DEF Competing, HintMatches, TypeMatches, Resolve, Favoured
<1> HIDE DEF S
<1>3. PICK i \in DOMAIN order : order[i] = r /\ \A j \in 1 .. i - 1 : order[j] \notin S
  BY <1>2 DEF First
<1>4. PICK j \in DOMAIN order : order[j] = n
  BY <1>1, <1>2 DEF OrderDecides
<1>5. i \in Nat /\ j \in Nat /\ j >= 1
  BY DEF IInv, TypeOK
<1>6. j \notin 1 .. i - 1 /\ j # i
  BY <1>1, <1>3, <1>4
<1>7. i < j
  BY <1>5, <1>6
<1> QED BY <1>1, <1>3, <1>4, <1>7 DEF Ahead

\* A step that registers nothing adds at most the preferences of one choice.
LEMMA ChoiceKeepsOrder ==
    ASSUME IInv, OrderDecides, UNCHANGED <<routes, order>>,
           \/ UNCHANGED preferred
           \/ \E req \in Request : \E r \in Resolve(req) :
                  preferred' = preferred \cup Preferences(req, r)
    PROVE  OrderDecides'
<1>1. ASSUME NEW m \in Names, NEW n \in Names, <<m, n>> \in preferred'
      PROVE  Ahead(m, n)
  BY <1>1, ChosenIsAhead DEF OrderDecides
<1> QED BY <1>1 DEF OrderDecides, Ahead

LEMMA NextKeepsOrder == IInv /\ OrderDecides /\ [Next]_vars => OrderDecides'
<1> SUFFICES ASSUME IInv, OrderDecides, [Next]_vars PROVE OrderDecides'
  OBVIOUS
<1>1. ASSUME NEW e \in Registrations, Register(e) PROVE OrderDecides'
  BY <1>1, RegisterKeepsOrder
<1>2. CASE UNCHANGED <<routes, order, preferred>>
  BY <1>2, ChoiceKeepsOrder
<1>3. ASSUME NEW c \in Callers, CallStarts(c) PROVE OrderDecides'
  <2>1. ASSUME NEW op, NEW req \in Requests, Start(c, op, req) PROVE OrderDecides'
    <3>1. req \in Request
      BY InputsAssumption
    <3> QED BY <2>1, <3>1, ChoiceKeepsOrder DEF Start
  <2>2. ASSUME NEW args \in Bundles, VerifyBundle(c, args) PROVE OrderDecides'
    BY <1>2, <2>2 DEF VerifyBundle
  <2> QED BY <1>3, <2>1, <2>2 DEF CallStarts, GetNonce, VerifyToken
<1>4. CASE \E c \in Callers : DispatchStatement(c)
  <2>1. PICK c \in Callers : DispatchStatement(c)
    BY <1>4
  <2>2. call[c].at <= Len(call[c].args)
    BY <2>1 DEF DispatchStatement, AtStatement
  <2>3. Current(c) \in Request
    BY <2>2, CurrentIsRequest DEF IInv
  <2> QED BY <2>1, <2>3, ChoiceKeepsOrder DEF DispatchStatement
<1>5. ASSUME NEW c \in Callers, CallGoesOn(c), ~DispatchStatement(c)
      PROVE  UNCHANGED <<routes, order, preferred>>
  BY <1>5 DEF CallGoesOn, NonceArrives, EmptyNonceArrives, TokenJudged,
              StatementUnroutable, StatementJudged, BundleReturns, VerifierRaises
<1>6. CASE Tick \/ UNCHANGED vars
  BY <1>2, <1>6 DEF Tick, vars
<1> QED BY <1>1, <1>2, <1>3, <1>4, <1>5, <1>6 DEF Next

\* Once a call was given to one of two routes that both matched it, no call that both
\* match is given to the other one, for any routes, registrations and requests.
THEOREM PreferencesLast == Spec => []PreferenceLasts
<1>1. Init => OrderDecides
  BY DEF Init, OrderDecides
<1>2. IInv /\ OrderDecides => PreferenceLasts
  <2> SUFFICES ASSUME IInv, OrderDecides, NEW m \in Names, NEW n \in Names,
                      <<m, n>> \in preferred, <<n, m>> \in preferred
               PROVE  FALSE
    BY DEF PreferenceLasts
  <2>1. PICK i \in DOMAIN order, j \in DOMAIN order :
            i < j /\ order[i] = m /\ order[j] = n
    BY DEF OrderDecides, Ahead
  <2>2. PICK k \in DOMAIN order, l \in DOMAIN order :
            k < l /\ order[k] = n /\ order[l] = m
    BY DEF OrderDecides, Ahead
  <2>3. i = l /\ j = k
    BY <2>1, <2>2 DEF OrderDecides
  <2>4. i \in Nat /\ j \in Nat
    BY DEF IInv, TypeOK
  <2> QED BY <2>1, <2>2, <2>3, <2>4
<1> QED BY <1>1, <1>2, NextKeepsOrder, Invariance, PTL DEF Spec

----
(* The shapes of a step: nothing but eviction and ageing, a registration, a call that   *)
(* waits for nobody any more, a dispatch, a nonce that arrives and a verdict.           *)

\* Entries may leave the table and age, but none comes and none changes its route.
TableFades ==
    /\ DOMAIN table' \subseteq DOMAIN table
    /\ \A n \in DOMAIN table' : table'[n].route = table[n].route

Rests(c) == \E x : x.wait = None /\ call' = [call EXCEPT ![c] = x]

QuietStep == UNCHANGED <<routes, call, hist>> /\ TableFades

RestStep(c) == UNCHANGED <<routes, hist>> /\ TableFades /\ Rests(c)

\* What a dispatch makes of a call for request req.
WaitsFor(x, req, r) ==
    /\ x.args[x.at] = req
    /\ x.wait.route = r
    /\ x.wait.verifier = routes[r].verifier
    /\ x.wait.bound = (req.nonce \in DOMAIN Unexpired)

DispatchStep(c) ==
    /\ UNCHANGED <<routes, hist>> /\ TableFades
    /\ \E x : \E req \in Request, r \in DOMAIN routes :
           /\ WaitsFor(x, req, r)
           /\ req.nonce \in DOMAIN Unexpired => r = table[req.nonce].route
           /\ call' = [call EXCEPT ![c] = x]

ArrivalStep(c, n) == NonceArrives(c, n) /\ Waiting(c)

VerdictStep(c) == UNCHANGED routes /\ Waiting(c) /\ Consume(c) /\ Rests(c)

LEMMA EvictionFades ==
    /\ table' = Unexpired => TableFades
    /\ UNCHANGED table => TableFades
BY DEF TableFades, Unexpired

LEMMA DispatchShape ==
    ASSUME IInv, NEW c \in Callers, UNCHANGED <<routes, hist>>, table' = Unexpired,
           NEW cl \in Call, NEW req \in Request, NEW r \in Resolve(req),
           cl.args[cl.at] = req, call' = [call EXCEPT ![c] = Dispatched(cl, req, r)]
    PROVE  DispatchStep(c)
<1> DEFINE w == [route |-> r, verifier |-> routes[r].verifier,
                 bound |-> req.nonce \in DOMAIN Unexpired]
<1> DEFINE x == [cl EXCEPT !.wait = w]
<1>1. call' = [call EXCEPT ![c] = x]
  BY DEF Dispatched
<1>2. w.route = r /\ w.verifier = routes[r].verifier /\ w.bound = (req.nonce \in DOMAIN Unexpired)
  OBVIOUS
<1> HIDE DEF w
<1>3. x.args = cl.args /\ x.at = cl.at /\ x.wait = w
  BY DEF Call
<1> HIDE DEF x
<1>4. WaitsFor(x, req, r)
  BY <1>2, <1>3 DEF WaitsFor
<1>5. r \in DOMAIN routes
  BY ResolveRegistered DEF IInv
<1>6. req.nonce \in DOMAIN Unexpired => r = table[req.nonce].route
  BY DEF Resolve
<1>7. TableFades
  BY EvictionFades
<1> QED BY <1>1, <1>4, <1>5, <1>6, <1>7 DEF DispatchStep

LEMMA StartShape ==
    ASSUME IInv, NEW c \in Callers, NEW op \in {"get_nonce", "verify_token"},
           NEW req \in Requests, Start(c, op, req)
    PROVE  QuietStep \/ DispatchStep(c)
<1>1. UNCHANGED <<routes, hist>> /\ table' = Unexpired
  BY DEF Start
<1>2. CASE UNCHANGED call
  BY <1>1, <1>2, EvictionFades DEF QuietStep
<1>3. ASSUME NEW r \in Resolve(req),
             call' = [call EXCEPT ![c] = Dispatched(Begun(op, <<req>>), req, r)]
      PROVE  DispatchStep(c)
  <2> DEFINE args == <<req>>
  <2> DEFINE cl == Begun(op, args)
  <2>1. args \in Seq(Request) /\ req \in Request /\ args[1] = req
    BY InputsAssumption
  <2>2. call' = [call EXCEPT ![c] = Dispatched(cl, req, r)]
    BY <1>3
  <2> HIDE DEF args
  <2>3. cl \in Call /\ cl.args = args /\ cl.at = 1
    BY <2>1, BegunIsCall
  <2> HIDE DEF cl
  <2>4. cl.args[cl.at] = req
    BY <2>1, <2>3
  <2> QED BY <1>1, <2>1, <2>2, <2>3, <2>4, DispatchShape
<1>4. \/ UNCHANGED call
      \/ \E r \in Resolve(req) :
             call' = [call EXCEPT ![c] = Dispatched(Begun(op, <<req>>), req, r)]
  BY DEF Start
<1> QED BY <1>2, <1>3, <1>4

LEMMA StepShapes ==
    ASSUME IInv, [Next]_vars
    PROVE  \/ QuietStep
           \/ \E e \in Registrations : Register(e)
           \/ \E c \in Callers : RestStep(c) \/ DispatchStep(c) \/ VerdictStep(c)
           \/ \E c \in Callers, n \in Nonces : ArrivalStep(c, n)
<1>1. CASE Tick \/ UNCHANGED vars
  <2>1. CASE Tick
    <3>1. DOMAIN table' = DOMAIN table
      BY <2>1 DEF Tick
    <3>2. \A n \in DOMAIN table : table'[n].route = table[n].route
      BY <2>1, <3>1 DEF Tick, IInv, TypeOK, Entry
    <3> QED BY <2>1, <3>1, <3>2 DEF QuietStep, TableFades, Tick
  <2>2. CASE UNCHANGED vars
    BY <2>2, EvictionFades DEF QuietStep, vars
  <2> QED BY <1>1, <2>1, <2>2
<1>2. ASSUME NEW c \in Callers, CallStarts(c)
      PROVE  QuietStep \/ RestStep(c) \/ DispatchStep(c)
  <2>1. ASSUME NEW args \in Bundles, VerifyBundle(c, args) PROVE RestStep(c)
    <3>1. Begun("verify_bundle", args).wait = None
      BY DEF Begun
    <3> QED BY <2>1, <3>1, EvictionFades DEF VerifyBundle, RestStep, Rests
  <2> QED BY <1>2, <2>1, StartShape DEF CallStarts, GetNonce, VerifyToken
<1>3. ASSUME NEW c \in Callers, CallGoesOn(c)
      PROVE  \/ RestStep(c) \/ DispatchStep(c) \/ VerdictStep(c)
             \/ \E n \in Nonces : ArrivalStep(c, n)
  <2>0. call' = Returned(c) => Rests(c)
    BY IdleIsCall DEF Returned, Rests
  <2>1. ASSUME NEW n \in Nonces, NonceArrives(c, n) PROVE ArrivalStep(c, n)
    BY <2>1 DEF ArrivalStep, NonceArrives, IInv, CallShape
  <2>2. CASE EmptyNonceArrives(c) \/ BundleReturns(c) \/ VerifierRaises(c)
    BY <2>0, <2>2, EvictionFades
       DEF EmptyNonceArrives, BundleReturns, VerifierRaises, RestStep
  <2>3. CASE TokenJudged(c)
    BY <2>0, <2>3 DEF TokenJudged, VerdictStep, IInv, CallShape
  <2>4. CASE DispatchStatement(c)
    <3>1. /\ call[c] \in Call /\ call[c].at <= Len(call[c].args) /\ table' = Unexpired
          /\ UNCHANGED <<routes, hist>>
      BY <2>4 DEF DispatchStatement, AtStatement, IInv, TypeOK
    <3>2. Current(c) \in Request /\ call[c].args[call[c].at] = Current(c)
      BY <3>1, CurrentIsRequest DEF IInv, Current
    <3>3. PICK r \in Resolve(Current(c)) :
              call' = [call EXCEPT ![c] = Dispatched(call[c], Current(c), r)]
      BY <2>4 DEF DispatchStatement
    <3> QED BY <3>1, <3>2, <3>3, DispatchShape
  <2>5. ASSUME NEW v, NEW name, call' = [call EXCEPT ![c] = Judged(call[c], v, name)]
        PROVE  Rests(c)
    <3>1. Judged(call[c], v, name).wait = None
      BY DEF Judged
    <3> QED BY <2>5, <3>1 DEF Rests
  <2>6. CASE StatementUnroutable(c)
    BY <2>5, <2>6, EvictionFades DEF StatementUnroutable, Unroutable, RestStep
  <2>7. ASSUME NEW v \in Verdicts, StatementJudged(c, v) PROVE VerdictStep(c)
    BY <2>5, <2>7 DEF StatementJudged, VerdictStep
  <2> QED BY <1>3, <2>1, <2>2, <2>3, <2>4, <2>6, <2>7 DEF CallGoesOn
<1> QED BY <1>1, <1>2, <1>3 DEF Next

----
(* Who judges: with stable registrations a name stands for one verifier for good *)

Vouched ==
    \A n \in DOMAIN routes :
        \E e \in Registrations : e.name = n /\ e.verifier = routes[n].verifier

\* A waiting call has the verifier of its route, and if its nonce chose the route, the
\* one that issued the nonce.
Traced(cl) ==
    cl.wait # None =>
        /\ cl.wait.route \in DOMAIN routes
        /\ cl.wait.verifier = routes[cl.wait.route].verifier
        /\ cl.wait.bound =>
               /\ cl.args[cl.at].nonce \in Nonces
               /\ cl.wait.verifier = hist[cl.args[cl.at].nonce].issuer

IssuersKnown ==
    /\ Vouched
    /\ \A n \in DOMAIN table : hist[n].issuer = routes[table[n].route].verifier
    /\ \A c \in Callers : Traced(call[c])

LEMMA RegisterTraces ==
    ASSUME StableRegistrations, IInv, IssuersKnown, NEW e \in Registrations, Register(e)
    PROVE  IssuersKnown'
<1>1. /\ DOMAIN routes' = DOMAIN routes \cup {e.name}
      /\ routes'[e.name].verifier = e.verifier
      /\ \A n \in DOMAIN routes : n # e.name => routes'[n] = routes[n]
      /\ UNCHANGED <<table, call, hist>>
  BY DEF Register
<1>2. \A n \in DOMAIN routes : routes'[n].verifier = routes[n].verifier
  <2> SUFFICES ASSUME NEW n \in DOMAIN routes
               PROVE  routes'[n].verifier = routes[n].verifier
    OBVIOUS
  <2>1. PICK d \in Registrations : d.name = n /\ d.verifier = routes[n].verifier
    BY DEF IssuersKnown, Vouched
  <2>2. CASE n = e.name
    BY <1>1, <2>1, <2>2 DEF StableRegistrations
  <2> QED BY <1>1, <2>2
<1>3. Vouched'
  BY <1>1, <1>2 DEF IssuersKnown, Vouched
<1>4. \A n \in DOMAIN table' : hist'[n].issuer = routes'[table'[n].route].verifier
  BY <1>1, <1>2 DEF IssuersKnown, IInv, NamesRegistered
<1>5. \A c \in Callers : Traced(call[c])'
  BY <1>1, <1>2 DEF IssuersKnown, Traced
<1> QED BY <1>3, <1>4, <1>5 DEF IssuersKnown

\* A step that neither registers nor issues, and gives one caller a traced call.
LEMMA TracedStep ==
    ASSUME IInv, IssuersKnown, UNCHANGED routes, TableFades,
           \A n \in Nonces : hist'[n].issuer = hist[n].issuer,
           \A c \in Callers : call'[c] = call[c] \/ Traced(call'[c])
    PROVE  IssuersKnown'
<1>1. Vouched'
  BY DEF IssuersKnown, Vouched
<1>2. \A n \in DOMAIN table' : hist'[n].issuer = routes'[table'[n].route].verifier
  BY DEF IssuersKnown, TableFades, IInv, TypeOK
<1>3. ASSUME NEW c \in Callers PROVE Traced(call[c])'
  <2>1. Traced(call'[c])
    BY DEF IssuersKnown
  <2> QED BY <2>1 DEF Traced
<1> QED BY <1>1, <1>2, <1>3 DEF IssuersKnown

LEMMA ArrivalTraces ==
    ASSUME Repeating = {}, IInv, IssuersKnown, NEW c \in Callers, NEW n \in Nonces,
           ArrivalStep(c, n)
    PROVE  IssuersKnown'
<1>1. /\ n \notin DOMAIN table
      /\ \A d \in Callers : Waiting(d) => Current(d).nonce # n
  BY DEF ArrivalStep, NonceArrives, Issuable, Held
<1>2. UNCHANGED routes /\ call' = [call EXCEPT ![c] = Idle]
  BY DEF ArrivalStep, NonceArrives, Returned
<1>3. /\ hist'[n].issuer = call[c].wait.verifier
      /\ \A m \in Nonces : m # n => hist'[m] = hist[m]
  BY DEF ArrivalStep, NonceArrives, IInv, TypeOK
<1>4. /\ DOMAIN table' = DOMAIN table \cup {n}
      /\ table'[n].route = call[c].wait.route
      /\ \A m \in DOMAIN table : table'[m] = table[m]
  BY <1>1 DEF ArrivalStep, NonceArrives, RememberedRoute
<1>5. Vouched'
  BY <1>2 DEF IssuersKnown, Vouched
<1>6. \A m \in DOMAIN table' : hist'[m].issuer = routes'[table'[m].route].verifier
  <2>1. hist'[n].issuer = routes'[table'[n].route].verifier
    BY <1>2, <1>3, <1>4 DEF ArrivalStep, Waiting, IssuersKnown, Traced
  <2>2. ASSUME NEW m \in DOMAIN table
        PROVE  hist'[m].issuer = routes'[table'[m].route].verifier
    BY <1>1, <1>2, <1>3, <1>4 DEF IssuersKnown, IInv, TypeOK
  <2> QED BY <1>4, <2>1, <2>2
<1>7. ASSUME NEW d \in Callers PROVE Traced(call[d])'
  <2>1. CASE d = c
    <3>1. call'[d].wait = None
      BY <1>2, <2>1, IdleIsCall DEF IInv, TypeOK
    <3> QED BY <3>1 DEF Traced
  <2>2. CASE d # c
    <3>1. call'[d] = call[d] /\ Traced(call[d])
      BY <1>2, <2>2 DEF IssuersKnown
    <3>2. call[d].wait # None => call[d].args[call[d].at].nonce # n
      BY <1>1 DEF Waiting, Current
    <3> QED BY <1>2, <1>3, <3>1, <3>2 DEF Traced
  <2> QED BY <2>1, <2>2
<1> QED BY <1>5, <1>6, <1>7 DEF IssuersKnown

\* Where no name is registered with two verifiers and none issues a nonce again, an
\* answer routed by its nonce is judged by the verifier that issued the nonce, for any
\* number of callers and whatever expires or is registered in between.
THEOREM IssuersAppraise ==
    ASSUME Repeating = {}
    PROVE  Spec => []IssuerAppraises
<1>1. Init => IssuersKnown
  BY IdleIsCall DEF Init, IssuersKnown, Vouched, Traced
<1>2. ASSUME StableRegistrations, IInv, IssuersKnown, [Next]_vars PROVE IssuersKnown'
  <2>1. ASSUME NEW c \in Callers, Rests(c)
        PROVE  \A d \in Callers : call'[d] = call[d] \/ Traced(call'[d])
    <3>1. PICK x : x.wait = None /\ call' = [call EXCEPT ![c] = x]
      BY <2>1 DEF Rests
    <3>2. Traced(x)
      BY <3>1 DEF Traced
    <3> QED BY <1>2, <3>1, <3>2 DEF IInv, TypeOK
  <2>2. CASE QuietStep
    BY <1>2, <2>2, TracedStep DEF QuietStep
  <2>3. ASSUME NEW c \in Callers, RestStep(c) PROVE IssuersKnown'
    BY <1>2, <2>1, <2>3, TracedStep DEF RestStep
  <2>4. ASSUME NEW c \in Callers, VerdictStep(c) PROVE IssuersKnown'
    <3>1. TableFades
      BY <2>4 DEF VerdictStep, Consume, TableFades
    <3>2. \A n \in Nonces : hist'[n].issuer = hist[n].issuer
      BY <1>2, <2>4 DEF VerdictStep, Consume, IInv, TypeOK
    <3> QED BY <1>2, <2>1, <2>4, <3>1, <3>2, TracedStep DEF VerdictStep
  <2>5. ASSUME NEW c \in Callers, DispatchStep(c) PROVE IssuersKnown'
    <3>1. PICK x : \E req \in Request, r \in DOMAIN routes :
              /\ WaitsFor(x, req, r)
              /\ req.nonce \in DOMAIN Unexpired => r = table[req.nonce].route
              /\ call' = [call EXCEPT ![c] = x]
      BY <2>5 DEF DispatchStep
    <3>2. PICK req \in Request, r \in DOMAIN routes :
              /\ WaitsFor(x, req, r)
              /\ req.nonce \in DOMAIN Unexpired => r = table[req.nonce].route
              /\ call' = [call EXCEPT ![c] = x]
      BY <3>1
    <3>3. req.nonce \in DOMAIN Unexpired =>
              /\ req.nonce \in Nonces
              /\ hist[req.nonce].issuer = routes[r].verifier
      BY <1>2, <3>2 DEF Unexpired, IssuersKnown, IInv, TypeOK
    <3>4. Traced(x)
      BY <3>2, <3>3 DEF Traced, WaitsFor
    <3>5. \A d \in Callers : call'[d] = call[d] \/ Traced(call'[d])
      BY <1>2, <3>2, <3>4 DEF IInv, TypeOK
    <3> QED BY <1>2, <2>5, <3>5, TracedStep DEF DispatchStep
  <2> QED BY <1>2, <2>2, <2>3, <2>4, <2>5, StepShapes, RegisterTraces, ArrivalTraces
<1>3. IssuersKnown => IssuerAppraises
  BY DEF IssuersKnown, Traced, IssuerAppraises, Waiting, Current
<1>4. CASE StableRegistrations
  <2>1. IInv /\ IssuersKnown /\ [Next]_vars => IssuersKnown'
    BY <1>2, <1>4
  <2> QED BY <1>1, <1>3, <2>1, Invariance, PTL DEF Spec
<1>5. CASE ~StableRegistrations
  <2>1. IssuerAppraises
    BY <1>5 DEF IssuerAppraises
  <2> QED BY <2>1, PTL
<1> QED BY <1>4, <1>5

----
(* How many verdicts: those a challenge has and those under way, at most one per caller *)

BoundTo(calls, n) ==
    {c \in Callers : /\ calls[c].wait # None
                     /\ calls[c].wait.bound
                     /\ calls[c].args[calls[c].at].nonce = n}

\* While it is remembered, a challenge has no verdict; afterwards only the appraisals
\* that were bound to it before can give it one.
VerdictsLeft ==
    \A n \in Nonces :
        /\ n \in DOMAIN table => hist[n].answered = 0
        /\ hist[n].answered + Cardinality(BoundTo(call, n)) <= Cardinality(Callers)

\* How the verdicts of one nonce may go on: none so far, no more than before, or one
\* more from a caller that was bound to it and is so no longer.
LEMMA CountStays ==
    ASSUME IsFiniteSet(Callers), NEW a \in Nat, NEW b \in Nat,
           NEW B \in SUBSET Callers, NEW D \in SUBSET Callers,
           a + Cardinality(B) <= Cardinality(Callers),
           \/ b = 0
           \/ b = a /\ D \subseteq B
           \/ b = a + 1 /\ \E c \in B : D \subseteq B \ {c}
    PROVE  b + Cardinality(D) <= Cardinality(Callers)
<1>1. IsFiniteSet(B) /\ IsFiniteSet(D)
  BY FS_Subset
<1>2. /\ Cardinality(B) \in Nat /\ Cardinality(D) \in Nat /\ Cardinality(Callers) \in Nat
      /\ Cardinality(D) <= Cardinality(Callers)
  BY <1>1, FS_CardinalityType, FS_Subset
<1>3. CASE b = 0
  BY <1>2, <1>3
<1>4. CASE b = a /\ D \subseteq B
  <2>1. Cardinality(D) <= Cardinality(B)
    BY <1>1, <1>4, FS_Subset
  <2> QED BY <1>2, <1>4, <2>1
<1>5. CASE b = a + 1 /\ \E c \in B : D \subseteq B \ {c}
  <2>1. PICK c \in B : D \subseteq B \ {c}
    BY <1>5
  <2>2. IsFiniteSet(B \ {c}) /\ Cardinality(B \ {c}) = Cardinality(B) - 1
    BY <1>1, FS_RemoveElement
  <2>3. Cardinality(D) <= Cardinality(B \ {c})
    BY <2>1, <2>2, FS_Subset
  <2> QED BY <1>2, <1>5, <2>2, <2>3
<1> QED BY <1>3, <1>4, <1>5

\* The same of all nonces, in a step that brings none into the table but with no verdict.
LEMMA VerdictsStay ==
    ASSUME IsFiniteSet(Callers), IInv, IInv', VerdictsLeft,
           \A n \in Nonces :
               \/ hist'[n].answered = 0
               \/ /\ hist'[n].answered = hist[n].answered
                  /\ BoundTo(call', n) \subseteq BoundTo(call, n)
                  /\ n \in DOMAIN table' => n \in DOMAIN table
               \/ /\ hist'[n].answered = hist[n].answered + 1
                  /\ \E c \in BoundTo(call, n) : BoundTo(call', n) \subseteq BoundTo(call, n) \ {c}
                  /\ n \notin DOMAIN table'
    PROVE  VerdictsLeft'
<1> SUFFICES ASSUME NEW n \in Nonces
             PROVE  /\ n \in DOMAIN table' => hist'[n].answered = 0
                    /\ hist'[n].answered + Cardinality(BoundTo(call', n)) <= Cardinality(Callers)
  BY DEF VerdictsLeft, BoundTo
<1>1. hist[n].answered \in Nat /\ hist'[n].answered \in Nat
  BY DEF IInv, TypeOK
<1>2. BoundTo(call, n) \subseteq Callers /\ BoundTo(call', n) \subseteq Callers
  BY DEF BoundTo
<1>3. hist[n].answered + Cardinality(BoundTo(call, n)) <= Cardinality(Callers)
  BY DEF VerdictsLeft
<1>4. n \in DOMAIN table' => hist'[n].answered = 0
  BY DEF VerdictsLeft
<1>5. PICK a, b, B, D : /\ a = hist[n].answered /\ b = hist'[n].answered
                        /\ B = BoundTo(call, n) /\ D = BoundTo(call', n)
  OBVIOUS
<1>6. b + Cardinality(D) <= Cardinality(Callers)
  <2>1. a \in Nat /\ b \in Nat /\ B \in SUBSET Callers /\ D \in SUBSET Callers
    BY <1>1, <1>2, <1>5
  <2>2. \/ b = 0
        \/ b = a /\ D \subseteq B
        \/ b = a + 1 /\ \E c \in B : D \subseteq B \ {c}
    BY <1>5
  <2>3. a + Cardinality(B) <= Cardinality(Callers)
    BY <1>3, <1>5
  <2> QED BY <2>1, <2>2, <2>3, CountStays
<1> QED BY <1>4, <1>5, <1>6

\* A caller that rests is bound to nothing, and the others are as they were.
LEMMA RestUnbinds ==
    ASSUME IInv, NEW c \in Callers, Rests(c)
    PROVE  \A n \in Nonces : BoundTo(call', n) \subseteq BoundTo(call, n) \ {c}
<1>1. PICK x : x.wait = None /\ call' = [call EXCEPT ![c] = x]
  BY DEF Rests
<1>2. call'[c].wait = None /\ \A d \in Callers : d # c => call'[d] = call[d]
  BY <1>1 DEF IInv, TypeOK
<1> QED BY <1>2 DEF BoundTo

LEMMA NextKeepsVerdicts ==
    ASSUME IsFiniteSet(Callers), IInv, IInv', VerdictsLeft, [Next]_vars
    PROVE  VerdictsLeft'
<1>1. CASE QuietStep \/ \E e \in Registrations : Register(e)
  <2>1. UNCHANGED <<call, hist>> /\ DOMAIN table' \subseteq DOMAIN table
    BY <1>1 DEF QuietStep, TableFades, Register
  <2> QED BY <2>1, VerdictsStay
<1>2. ASSUME NEW c \in Callers, RestStep(c) PROVE VerdictsLeft'
  <2>1. UNCHANGED hist /\ DOMAIN table' \subseteq DOMAIN table
    BY <1>2 DEF RestStep, TableFades
  <2>2. \A n \in Nonces : BoundTo(call', n) \subseteq BoundTo(call, n)
    BY <1>2, RestUnbinds DEF RestStep
  <2> QED BY <2>1, <2>2, VerdictsStay
<1>3. ASSUME NEW c \in Callers, DispatchStep(c) PROVE VerdictsLeft'
  <2>1. UNCHANGED hist /\ DOMAIN table' \subseteq DOMAIN table
    BY <1>3 DEF DispatchStep, TableFades
  <2>2. PICK x : \E req \in Request, r \in DOMAIN routes :
            WaitsFor(x, req, r) /\ call' = [call EXCEPT ![c] = x]
    BY <1>3 DEF DispatchStep
  <2>3. PICK req \in Request, r \in DOMAIN routes :
            WaitsFor(x, req, r) /\ call' = [call EXCEPT ![c] = x]
    BY <2>2
  <2>4. call'[c] = x /\ \A d \in Callers : d # c => call'[d] = call[d]
    BY <2>3 DEF IInv, TypeOK
  <2>5. ASSUME NEW n \in Nonces
        PROVE  hist'[n].answered = 0 \/ BoundTo(call', n) \subseteq BoundTo(call, n)
    <3>1. CASE req.nonce = n /\ n \in DOMAIN Unexpired
      BY <2>1, <3>1 DEF VerdictsLeft, Unexpired
    <3>2. CASE ~(req.nonce = n /\ n \in DOMAIN Unexpired)
      <4>1. c \notin BoundTo(call', n)
        BY <2>3, <2>4, <3>2 DEF BoundTo, WaitsFor
      <4> QED BY <2>4, <4>1 DEF BoundTo
    <3> QED BY <3>1, <3>2
  <2> QED BY <2>1, <2>5, VerdictsStay
<1>4. ASSUME NEW c \in Callers, VerdictStep(c) PROVE VerdictsLeft'
  <2>1. DOMAIN table' = DOMAIN table \ {Current(c).nonce}
    BY <1>4 DEF VerdictStep, Consume
  <2>2. \A n \in Nonces : BoundTo(call', n) \subseteq BoundTo(call, n) \ {c}
    BY <1>4, RestUnbinds DEF VerdictStep
  <2>3. ASSUME NEW n \in Nonces, n = Current(c).nonce, call[c].wait.bound
        PROVE  /\ hist'[n].answered = hist[n].answered + 1
               /\ c \in BoundTo(call, n)
               /\ n \notin DOMAIN table'
    BY <1>4, <2>1, <2>3
       DEF VerdictStep, Consume, IInv, TypeOK, BoundTo, Waiting, Current
  <2>4. ASSUME NEW n \in Nonces, ~(n = Current(c).nonce /\ call[c].wait.bound)
        PROVE  hist'[n].answered = hist[n].answered
    BY <1>4, <2>4 DEF VerdictStep, Consume
  <2> QED BY <2>1, <2>2, <2>3, <2>4, VerdictsStay
<1>5. ASSUME NEW c \in Callers, NEW k \in Nonces, ArrivalStep(c, k) PROVE VerdictsLeft'
  <2>1. /\ hist'[k].answered = 0
        /\ \A n \in Nonces : n # k => hist'[n] = hist[n]
        /\ DOMAIN table' = DOMAIN table \cup {k}
        /\ Rests(c)
    BY <1>5, IdleIsCall DEF ArrivalStep, NonceArrives, IInv, TypeOK, Returned, Rests
  <2>2. \A n \in Nonces : BoundTo(call', n) \subseteq BoundTo(call, n)
    BY <2>1, RestUnbinds
  <2> QED BY <2>1, <2>2, VerdictsStay
<1> QED BY <1>1, <1>2, <1>3, <1>4, <1>5, StepShapes

\* One issue of a nonce gets at most as many verdicts through its remembered route as
\* there are callers, so one if the router is called from one thread.
THEOREM VerdictsPerChallenge ==
    ASSUME IsFiniteSet(Callers)
    PROVE  Spec => []OneVerdictPerChallenge
<1>1. Init => VerdictsLeft
  <2> SUFFICES ASSUME Init, NEW n \in Nonces
               PROVE  /\ n \in DOMAIN table => hist[n].answered = 0
                      /\ hist[n].answered + Cardinality(BoundTo(call, n))
                             <= Cardinality(Callers)
    BY DEF VerdictsLeft
  <2>1. hist[n].answered = 0
    BY DEF Init
  <2>2. BoundTo(call, n) = {}
    BY IdleIsCall DEF Init, BoundTo
  <2>3. Cardinality(BoundTo(call, n)) = 0 /\ Cardinality(Callers) \in Nat
    BY <2>2, FS_EmptySet, FS_CardinalityType
  <2> QED BY <2>1, <2>3
<1>2. IInv /\ IInv' /\ VerdictsLeft /\ [Next]_vars => VerdictsLeft'
  BY NextKeepsVerdicts
<1>3. IInv /\ VerdictsLeft => OneVerdictPerChallenge
  <2> SUFFICES ASSUME IInv, VerdictsLeft, NEW n \in Nonces
               PROVE  hist[n].answered <= Cardinality(Callers)
    BY DEF OneVerdictPerChallenge
  <2>1. IsFiniteSet(BoundTo(call, n))
    BY FS_Subset DEF BoundTo
  <2>2. /\ Cardinality(BoundTo(call, n)) \in Nat /\ Cardinality(Callers) \in Nat
        /\ hist[n].answered \in Nat
    BY <2>1, FS_CardinalityType DEF IInv, TypeOK
  <2>3. hist[n].answered + Cardinality(BoundTo(call, n)) <= Cardinality(Callers)
    BY DEF VerdictsLeft
  <2> QED BY <2>2, <2>3
<1> QED BY <1>1, <1>2, <1>3, Invariance, PTL DEF Spec
====
