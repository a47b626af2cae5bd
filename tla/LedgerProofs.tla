---- MODULE LedgerProofs ----
(***************************************************************************)
(* The router implements the ledger of live challenges, for every set of   *)
(* callers, routes, verifiers and nonces, every policy and every lifetime, *)
(* as long as no verifier issues a nonce again.                            *)
(***************************************************************************)
EXTENDS VerifierRouterProofs

\* A call that waits with a live nonce was routed by that nonce: a nonce does not come
\* alive while somebody holds it.
LiveBound(cl, live) ==
    (cl.wait # None /\ cl.args[cl.at].nonce \in live) => cl.wait.bound

\* A call for a nonce brings none, so it is no appraisal to the ledger.
BringsNone(cl) == cl.op = "get_nonce" => cl.args[cl.at].nonce = None

CallsBound ==
    \A c \in Callers : LiveBound(call[c], DOMAIN Unexpired) /\ BringsNone(call[c])

\* The inductive invariant: the router's own and, for every call, the two above.
LInv == IInv /\ CallsBound

----
(* What a step does to the live nonces *)

LEMMA EvictionUnseen ==
    ASSUME table' = table \/ table' = Unexpired
    PROVE  Unexpired' = Unexpired
<1>1. CASE table' = table
  BY <1>1 DEF Unexpired
<1>2. CASE table' = Unexpired
  <2>1. /\ DOMAIN table' = {m \in DOMAIN table : table[m].left > 0}
        /\ \A m \in DOMAIN table' : table'[m] = table[m]
    BY <1>2 DEF Unexpired
  <2>2. {m \in DOMAIN table' : table'[m].left > 0} = DOMAIN table'
    BY <2>1
  <2>3. Unexpired' = [m \in DOMAIN table' |-> table'[m]]
    BY <2>2 DEF Unexpired
  <2> QED BY <1>2, <2>1, <2>3 DEF Unexpired
<1> QED BY <1>1, <1>2

\* A verdict takes the current nonce out of the live ones.
LEMMA ConsumeUses ==
    ASSUME NEW c \in Callers, Consume(c)
    PROVE  Unexpired' = [m \in DOMAIN Unexpired \ {Current(c).nonce} |-> Unexpired[m]]
<1>1. /\ DOMAIN table' = DOMAIN table \ {Current(c).nonce}
      /\ \A m \in DOMAIN table' : table'[m] = table[m]
  BY DEF Consume
<1>2. {m \in DOMAIN table' : table'[m].left > 0} = DOMAIN Unexpired \ {Current(c).nonce}
  BY <1>1 DEF Unexpired
<1>3. \A m \in DOMAIN Unexpired \ {Current(c).nonce} : table'[m] = Unexpired[m]
  BY <1>1 DEF Unexpired
<1> QED BY <1>2, <1>3 DEF Unexpired

\* A nonce that was not in the table joins the live ones, unless it is dead at birth.
LEMMA ArrivalIssues ==
    ASSUME IInv, NEW c \in Callers, NEW n \in Nonces, NonceArrives(c, n),
           n \notin DOMAIN table
    PROVE  Unexpired' = [m \in DOMAIN Unexpired \cup (IF TTL > 0 THEN {n} ELSE {}) |->
                            IF m = n THEN [route |-> call[c].wait.route, left |-> TTL]
                            ELSE Unexpired[m]]
<1> DEFINE e == [route |-> call[c].wait.route, left |-> TTL]
<1> DEFINE born == IF TTL > 0 THEN {n} ELSE {}
<1>1. /\ DOMAIN table' = DOMAIN table \cup {n}
      /\ table'[n] = e
      /\ \A m \in DOMAIN table : table'[m] = table[m]
  BY DEF NonceArrives, RememberedRoute
<1>2. e.left = TTL
  OBVIOUS
<1> HIDE DEF e
<1>3. {m \in DOMAIN table' : table'[m].left > 0} = DOMAIN Unexpired \cup born
  BY <1>1, <1>2 DEF Unexpired
<1>4. \A m \in DOMAIN Unexpired : m # n /\ table'[m] = Unexpired[m]
  BY <1>1 DEF Unexpired
<1>5. Unexpired' = [m \in DOMAIN Unexpired \cup born |-> table'[m]]
  BY <1>3 DEF Unexpired
<1>6. \A m \in DOMAIN Unexpired \cup born :
          table'[m] = IF m = n THEN e ELSE Unexpired[m]
  BY <1>1, <1>4
<1>7. Unexpired' = [m \in DOMAIN Unexpired \cup born |-> IF m = n THEN e ELSE Unexpired[m]]
  BY <1>5, <1>6
<1> QED BY <1>7 DEF e

\* A tick ages every live nonce and ends those with one tick left.
LEMMA TickAges ==
    ASSUME IInv, Tick
    PROVE  Unexpired' = [m \in {k \in DOMAIN Unexpired : Unexpired[k].left > 1} |->
                            [Unexpired[m] EXCEPT !.left = @ - 1]]
<1>1. DOMAIN table' = DOMAIN table
  BY DEF Tick
<1>2. \A m \in DOMAIN table : table[m] \in Entry /\ table[m].left \in Nat
  BY TTLAssumption DEF IInv, TypeOK, Entry
<1>3. \A m \in DOMAIN table :
          table'[m] = [table[m] EXCEPT !.left = IF table[m].left > 0
                                                THEN table[m].left - 1 ELSE 0]
  BY DEF Tick
<1>4. \A m \in DOMAIN table :
          table'[m].left = IF table[m].left > 0 THEN table[m].left - 1 ELSE 0
  BY <1>2, <1>3 DEF Entry
<1>5. {m \in DOMAIN table' : table'[m].left > 0}
          = {k \in DOMAIN Unexpired : Unexpired[k].left > 1}
  BY <1>1, <1>2, <1>4 DEF Unexpired
<1>6. \A m \in DOMAIN Unexpired :
          table'[m] = [Unexpired[m] EXCEPT !.left = Unexpired[m].left - 1]
  BY <1>3 DEF Unexpired
<1>7. Unexpired' = [m \in {k \in DOMAIN Unexpired : Unexpired[k].left > 1} |-> table'[m]]
  BY <1>5 DEF Unexpired
<1> QED BY <1>6, <1>7

----
(* What a step does to the calls *)

\* A step of one caller changes what that caller asks and nothing else.
LEMMA CallMaps ==
    ASSUME IInv, NEW c \in Callers, NEW x, call' = [call EXCEPT ![c] = x]
    PROVE  [d \in Callers |-> Asked(call[d])]'
               = [[d \in Callers |-> Asked(call[d])] EXCEPT ![c] = Asked(x)]
<1>1. call'[c] = x /\ \A d \in Callers : d # c => call'[d] = call[d]
  BY DEF IInv, TypeOK
<1>2. [d \in Callers |-> Asked(call[d])]' = [d \in Callers |-> Asked(call'[d])]
  BY DEF Asked
<1>3. \A d \in Callers : Asked(call'[d]) = IF d = c THEN Asked(x) ELSE Asked(call[d])
  BY <1>1
<1>4. [d \in Callers |-> Asked(call'[d])]
          = [[d \in Callers |-> Asked(call[d])] EXCEPT ![c] = Asked(x)]
  BY <1>3
<1> QED BY <1>2, <1>4

LEMMA IdleAsksNothing == Asked(Idle) = None /\ BringsNone(Idle)
BY IdleIsCall DEF Asked, BringsNone

\* A step that brings no nonce to life and leaves one caller a call that is well bound.
LEMMA StepBinds ==
    ASSUME LInv, NEW c \in Callers, NEW x, call' = [call EXCEPT ![c] = x],
           DOMAIN Unexpired' \subseteq DOMAIN Unexpired,
           LiveBound(x, DOMAIN Unexpired), BringsNone(x)
    PROVE  CallsBound'
<1>1. call'[c] = x /\ \A d \in Callers : d # c => call'[d] = call[d]
  BY DEF LInv, IInv, TypeOK
<1>2. ASSUME NEW d \in Callers
      PROVE  LiveBound(call'[d], DOMAIN Unexpired') /\ BringsNone(call'[d])
  <2>1. LiveBound(call[d], DOMAIN Unexpired) /\ BringsNone(call[d])
    BY DEF LInv, CallsBound
  <2> QED BY <1>1, <2>1 DEF LiveBound
<1> QED BY <1>2 DEF CallsBound, LiveBound, BringsNone

\* A dispatch asks for the nonce of its request, bound if that nonce is live.
LEMMA DispatchedAsks ==
    ASSUME TypeOK, NamesRegistered, NEW cl \in Call, NEW req \in Request,
           NEW r \in Resolve(req), cl.args[cl.at] = req,
           cl.op = "get_nonce" => req.nonce = None
    PROVE  /\ Asked(Dispatched(cl, req, r)) =
                  IF req.nonce # None
                  THEN [nonce |-> req.nonce, route |-> r,
                        bound |-> req.nonce \in DOMAIN Unexpired]
                  ELSE None
           /\ LiveBound(Dispatched(cl, req, r), DOMAIN Unexpired)
           /\ BringsNone(Dispatched(cl, req, r))
<1> DEFINE w == [route |-> r, verifier |-> routes[r].verifier,
                 bound |-> req.nonce \in DOMAIN Unexpired]
<1>1. w.route = r /\ w.bound = (req.nonce \in DOMAIN Unexpired)
  OBVIOUS
<1>2. w # None
  <2>1. r \in Names /\ routes[r].verifier \in Verifiers
    BY ResolveRegistered DEF TypeOK, Route
  <2>2. w \in Appraisal
    BY <2>1 DEF Appraisal
  <2> QED BY <2>2, NoneAssumption
<1>3. Dispatched(cl, req, r) = [cl EXCEPT !.wait = w]
  BY DEF Dispatched
<1> HIDE DEF w
<1>4. /\ [cl EXCEPT !.wait = w].op = cl.op /\ [cl EXCEPT !.wait = w].at = cl.at
      /\ [cl EXCEPT !.wait = w].args = cl.args /\ [cl EXCEPT !.wait = w].wait = w
  BY DEF Call
<1> DEFINE x == [cl EXCEPT !.wait = w]
<1>5. x.args[x.at] = req /\ x.op = cl.op /\ x.wait = w
  BY <1>4
<1> HIDE DEF x
<1>6. Asked(x) = IF req.nonce # None
                 THEN [nonce |-> req.nonce, route |-> r,
                       bound |-> req.nonce \in DOMAIN Unexpired]
                 ELSE None
  BY <1>1, <1>2, <1>5 DEF Asked
<1>7. LiveBound(x, DOMAIN Unexpired) /\ BringsNone(x)
  BY <1>1, <1>5 DEF LiveBound, BringsNone
<1> QED BY <1>3, <1>6, <1>7 DEF x

\* A live nonce leads to its own route, and a nonce that is one to a name.
LEMMA ResolveFollowsNonce ==
    ASSUME NEW req, NEW r \in Resolve(req), req.nonce \in DOMAIN Unexpired
    PROVE  r = Unexpired[req.nonce].route
BY DEF Resolve, Unexpired

----
(* The actions *)

\* A dispatch begins an appraisal, or is nothing to the ledger when it has no nonce.
LEMMA DispatchMaps ==
    ASSUME LInv, NEW c \in Callers, call[c].wait = None, table' = Unexpired,
           NEW cl \in Call, NEW req \in Request, NEW r \in Resolve(req),
           cl.args[cl.at] = req, cl.op = "get_nonce" => req.nonce = None,
           call' = [call EXCEPT ![c] = Dispatched(cl, req, r)]
    PROVE  /\ CallsBound'
           /\ Ledger!Next \/ UNCHANGED Ledger!vars
<1> DEFINE x == Dispatched(cl, req, r)
<1> DEFINE q == [nonce |-> req.nonce, route |-> r, bound |-> req.nonce \in DOMAIN Unexpired]
<1>1. TypeOK /\ NamesRegistered
  BY DEF LInv, IInv
<1>2. /\ Asked(x) = IF req.nonce # None THEN q ELSE None
      /\ LiveBound(x, DOMAIN Unexpired) /\ BringsNone(x)
  BY <1>1, DispatchedAsks
<1>3. call' = [call EXCEPT ![c] = x]
  OBVIOUS
<1>4. Unexpired' = Unexpired
  BY EvictionUnseen
<1> HIDE DEF x
<1>5. CallsBound'
  BY <1>2, <1>3, <1>4, StepBinds
<1>6. [d \in Callers |-> Asked(call[d])]'
          = [[d \in Callers |-> Asked(call[d])] EXCEPT ![c] = Asked(x)]
  BY <1>3, CallMaps DEF LInv
<1>7. Asked(call[c]) = None
  BY DEF Asked
<1>8. CASE req.nonce = None
  BY <1>2, <1>4, <1>5, <1>6, <1>7, <1>8 DEF Ledger!vars
<1>9. CASE req.nonce # None
  <2>1. req.nonce \in Nonces
    BY <1>9 DEF Request
  <2>2. r \in Names
    BY <1>1, ResolveRegistered DEF TypeOK
  <2>3. req.nonce \in DOMAIN Unexpired => r = Unexpired[req.nonce].route
    BY ResolveFollowsNonce
  <2>4. Ledger!Begin(c, r, req.nonce)
    BY <1>2, <1>4, <1>6, <1>7, <1>9, <2>3 DEF Ledger!Begin
  <2> QED BY <1>5, <2>1, <2>2, <2>4 DEF Ledger!Next
<1> QED BY <1>5, <1>8, <1>9

\* Steps nobody can tell in the ledger: no nonce lives or dies, and the caller neither
\* waited with a nonce nor will.
LEMMA QuietMaps ==
    ASSUME LInv, NEW c \in Callers, Asked(call[c]) = None, Unexpired' = Unexpired,
           NEW x, call' = [call EXCEPT ![c] = x], x.wait = None, BringsNone(x)
    PROVE  CallsBound' /\ UNCHANGED Ledger!vars
<1>1. Asked(x) = None /\ LiveBound(x, DOMAIN Unexpired)
  BY DEF Asked, LiveBound
<1>2. CallsBound'
  BY <1>1, StepBinds
<1>3. [d \in Callers |-> Asked(call[d])]'
          = [[d \in Callers |-> Asked(call[d])] EXCEPT ![c] = Asked(x)]
  BY CallMaps DEF LInv
<1> QED BY <1>1, <1>2, <1>3 DEF Ledger!vars

\* A call that waits with a nonce is an appraisal of it.
LEMMA WaitingAsks ==
    ASSUME IInv, NEW c \in Callers, Waiting(c)
    PROVE  /\ Current(c) \in Request
           /\ Current(c).nonce = None => Asked(call[c]) = None
           /\ Current(c).nonce # None =>
                  /\ Asked(call[c]) # None
                  /\ Asked(call[c]).nonce = Current(c).nonce
                  /\ Asked(call[c]).bound = call[c].wait.bound
<1>1. Current(c) \in Request
  BY CurrentIsRequest DEF IInv, CallShape
<1>2. call[c].wait \in Appraisal
  BY DEF IInv, TypeOK, Call, Waiting
<1>3. CASE Current(c).nonce = None
  BY <1>1, <1>3 DEF Asked, Current
<1>4. CASE Current(c).nonce # None
  <2> DEFINE q == [nonce |-> Current(c).nonce, route |-> call[c].wait.route,
                   bound |-> call[c].wait.bound]
  <2>1. Asked(call[c]) = q
    BY <1>4 DEF Asked, Current, Waiting
  <2>2. q \in [nonce : Nonces, route : Names, bound : BOOLEAN]
    BY <1>1, <1>2, <1>4 DEF Request, Appraisal
  <2>3. q # None
    BY <2>2, NoneAssumption
  <2> QED BY <1>1, <1>4, <2>1, <2>3
<1> QED BY <1>3, <1>4

\* A verdict answers the challenge; without a nonce it is nothing to the ledger.
LEMMA VerdictMaps ==
    ASSUME LInv, NEW c \in Callers, Waiting(c), Consume(c),
           NEW x, call' = [call EXCEPT ![c] = x], x.wait = None, BringsNone(x)
    PROVE  CallsBound' /\ (Ledger!Next \/ UNCHANGED Ledger!vars)
<1>1. IInv
  BY DEF LInv
<1>2. Unexpired' = [m \in DOMAIN Unexpired \ {Current(c).nonce} |-> Unexpired[m]]
  BY ConsumeUses
<1>3. CASE Current(c).nonce = None
  <2>1. None \notin DOMAIN Unexpired
    BY <1>1, NoneAssumption DEF IInv, TypeOK, Unexpired
  <2>2. Unexpired' = Unexpired
    BY <1>2, <1>3, <2>1 DEF Unexpired
  <2> QED BY <1>1, <1>3, <2>2, WaitingAsks, QuietMaps
<1>4. CASE Current(c).nonce # None
  <2>1. Asked(x) = None /\ LiveBound(x, DOMAIN Unexpired)
    BY DEF Asked, LiveBound
  <2>2. DOMAIN Unexpired' \subseteq DOMAIN Unexpired
    BY <1>2
  <2>3. CallsBound'
    BY <2>1, <2>2, StepBinds
  <2>4. [d \in Callers |-> Asked(call[d])]'
            = [[d \in Callers |-> Asked(call[d])] EXCEPT ![c] = None]
    BY <1>1, <2>1, CallMaps
  <2>5. /\ Asked(call[c]) # None /\ Asked(call[c]).nonce = Current(c).nonce
        /\ Asked(call[c]).bound = call[c].wait.bound
    BY <1>1, <1>4, WaitingAsks
  <2>6. Current(c).nonce \in DOMAIN Unexpired => call[c].wait.bound
    BY DEF LInv, CallsBound, LiveBound, Waiting, Current
  <2>7. Ledger!Answer(c)
    BY <1>2, <2>4, <2>5, <2>6 DEF Ledger!Answer
  <2> QED BY <2>3, <2>7 DEF Ledger!Next
<1> QED BY <1>3, <1>4

\* A verifier that raises fails the appraisal.
LEMMA RaiseMaps ==
    ASSUME LInv, NEW c \in Callers, VerifierRaises(c)
    PROVE  CallsBound' /\ (Ledger!Next \/ UNCHANGED Ledger!vars)
<1>1. /\ IInv /\ Waiting(c) /\ Unexpired' = Unexpired
      /\ call' = [call EXCEPT ![c] = Idle]
  BY EvictionUnseen DEF LInv, VerifierRaises, Returned
<1>2. Idle.wait = None /\ Asked(Idle) = None /\ BringsNone(Idle)
  BY IdleIsCall, IdleAsksNothing
<1> HIDE DEF Idle
<1>3. CASE Current(c).nonce = None
  BY <1>1, <1>2, <1>3, WaitingAsks, QuietMaps
<1>4. CASE Current(c).nonce # None
  <2>1. LiveBound(Idle, DOMAIN Unexpired)
    BY <1>2 DEF LiveBound
  <2>2. CallsBound'
    BY <1>1, <1>2, <2>1, StepBinds
  <2>3. [d \in Callers |-> Asked(call[d])]'
            = [[d \in Callers |-> Asked(call[d])] EXCEPT ![c] = None]
    BY <1>1, <1>2, CallMaps
  <2>4. Asked(call[c]) # None
    BY <1>1, <1>4, WaitingAsks
  <2>5. Ledger!Fail(c)
    BY <1>1, <2>3, <2>4 DEF Ledger!Fail
  <2> QED BY <2>2, <2>5 DEF Ledger!Next
<1> QED BY <1>3, <1>4

\* A nonce that arrives is a new challenge nobody holds, when no verifier repeats itself.
LEMMA ArrivalMaps ==
    ASSUME Repeating = {}, LInv, NEW c \in Callers, NEW n \in Nonces, NonceArrives(c, n)
    PROVE  CallsBound' /\ (Ledger!Next \/ UNCHANGED Ledger!vars)
<1>1. /\ IInv /\ CallsBound /\ call[c].op = "get_nonce" /\ Waiting(c)
      /\ call' = [call EXCEPT ![c] = Idle]
  BY DEF LInv, IInv, CallShape, NonceArrives, Returned
<1>2. n \notin DOMAIN table /\ ~Held(n)
  BY DEF NonceArrives, Issuable
<1>3. \A d \in Callers : call[d].wait # None => call[d].args[call[d].at].nonce # n
  BY <1>2 DEF Held, Waiting, Current
<1>4. Unexpired' = [m \in DOMAIN Unexpired \cup (IF TTL > 0 THEN {n} ELSE {}) |->
                       IF m = n THEN [route |-> call[c].wait.route, left |-> TTL]
                       ELSE Unexpired[m]]
  BY <1>1, <1>2, ArrivalIssues
<1>5. Idle.wait = None /\ Asked(Idle) = None /\ BringsNone(Idle)
  BY IdleIsCall, IdleAsksNothing
<1> HIDE DEF Idle
<1>6. call'[c] = Idle /\ \A d \in Callers : d # c => call'[d] = call[d]
  BY <1>1 DEF IInv, TypeOK
<1>7. CallsBound'
  <2>1. SUFFICES ASSUME NEW d \in Callers
                 PROVE  LiveBound(call'[d], DOMAIN Unexpired') /\ BringsNone(call'[d])
    BY DEF CallsBound, LiveBound, BringsNone
  <2>2. CASE d = c
    BY <1>5, <1>6, <2>2 DEF LiveBound
  <2>3. CASE d # c
    <3>1. LiveBound(call[d], DOMAIN Unexpired) /\ BringsNone(call[d])
      BY <1>1 DEF CallsBound
    <3>2. DOMAIN Unexpired' \subseteq DOMAIN Unexpired \cup {n}
      BY <1>4
    <3>3. LiveBound(call[d], DOMAIN Unexpired')
      BY <1>3, <3>1, <3>2 DEF LiveBound
    <3> QED BY <1>6, <2>3, <3>1, <3>3
  <2> QED BY <2>2, <2>3
<1>8. Current(c).nonce = None /\ Asked(call[c]) = None
  BY <1>1, WaitingAsks DEF CallsBound, BringsNone, Current
<1>9. UNCHANGED [d \in Callers |-> Asked(call[d])]
  <2>1. [d \in Callers |-> Asked(call[d])]'
            = [[d \in Callers |-> Asked(call[d])] EXCEPT ![c] = None]
    BY <1>1, <1>5, CallMaps
  <2> QED BY <1>8, <2>1
<1>10. \A d \in Callers : Asked(call[d]) # None => Asked(call[d]).nonce # n
  BY <1>3 DEF Asked
<1>11. n \notin DOMAIN Unexpired
  BY <1>2 DEF Unexpired
<1>12. call[c].wait.route \in Names
  BY <1>1 DEF IInv, NamesRegistered, TypeOK
<1>13. Ledger!Issue(call[c].wait.route, n)
  BY <1>4, <1>9, <1>10, <1>11 DEF Ledger!Issue, Ledger!Held
<1> QED BY <1>7, <1>12, <1>13 DEF Ledger!Next

LEMMA TickMaps ==
    ASSUME LInv, Tick
    PROVE  CallsBound' /\ Ledger!Next
<1>1. Unexpired' = [m \in {k \in DOMAIN Unexpired : Unexpired[k].left > 1} |->
                       [Unexpired[m] EXCEPT !.left = @ - 1]]
  BY TickAges DEF LInv
<1>2. DOMAIN Unexpired' \subseteq DOMAIN Unexpired /\ UNCHANGED call
  BY <1>1 DEF Tick
<1>3. CallsBound'
  BY <1>2 DEF LInv, CallsBound, LiveBound, BringsNone
<1>4. UNCHANGED [d \in Callers |-> Asked(call[d])]
  BY <1>2 DEF Asked
<1>5. Ledger!Pass
  BY <1>1, <1>4 DEF Ledger!Pass
<1> QED BY <1>3, <1>5 DEF Ledger!Next

LEMMA StartMaps ==
    ASSUME LInv, NEW c \in Callers, NEW op \in {"get_nonce", "verify_token"},
           NEW req \in Requests, op = "get_nonce" => req.nonce = None, Start(c, op, req)
    PROVE  CallsBound' /\ (Ledger!Next \/ UNCHANGED Ledger!vars)
<1>1. call[c].wait = None /\ table' = Unexpired
  BY DEF Start, LInv, IInv, CallShape, Waiting
<1>2. CASE UNCHANGED call
  <2>1. Unexpired' = Unexpired
    BY <1>1, EvictionUnseen
  <2>2. CallsBound'
    BY <1>2, <2>1 DEF LInv, CallsBound, LiveBound, BringsNone
  <2>3. UNCHANGED [d \in Callers |-> Asked(call[d])]
    BY <1>2 DEF Asked
  <2> QED BY <2>1, <2>2, <2>3 DEF Ledger!vars
<1>3. ASSUME NEW r \in Resolve(req),
             call' = [call EXCEPT ![c] = Dispatched(Begun(op, <<req>>), req, r)]
      PROVE  CallsBound' /\ (Ledger!Next \/ UNCHANGED Ledger!vars)
  <2> DEFINE args == <<req>>
  <2> DEFINE cl == Begun(op, args)
  <2>1. args \in Seq(Request) /\ req \in Request /\ args[1] = req
    BY InputsAssumption
  <2>2. call' = [call EXCEPT ![c] = Dispatched(cl, req, r)]
    BY <1>3
  <2> HIDE DEF args
  <2>3. cl \in Call /\ cl.op = op /\ cl.args = args /\ cl.at = 1
    BY <2>1, BegunIsCall
  <2> HIDE DEF cl
  <2>4. cl.args[cl.at] = req
    BY <2>1, <2>3
  <2> QED BY <1>1, <2>1, <2>2, <2>3, <2>4, DispatchMaps
<1>4. \/ UNCHANGED call
      \/ \E r \in Resolve(req) :
             call' = [call EXCEPT ![c] = Dispatched(Begun(op, <<req>>), req, r)]
  BY DEF Start
<1> QED BY <1>2, <1>3, <1>4

LEMMA StatementMaps ==
    ASSUME LInv, NEW c \in Callers, DispatchStatement(c)
    PROVE  CallsBound' /\ (Ledger!Next \/ UNCHANGED Ledger!vars)
<1>1. /\ call[c] \in Call /\ call[c].op = "verify_bundle" /\ call[c].wait = None
      /\ call[c].at <= Len(call[c].args) /\ table' = Unexpired
  BY DEF DispatchStatement, AtStatement, Waiting, LInv, IInv, TypeOK
<1>2. Current(c) \in Request /\ call[c].args[call[c].at] = Current(c)
  BY <1>1, CurrentIsRequest DEF LInv, IInv, Current
<1>3. PICK r \in Resolve(Current(c)) :
          call' = [call EXCEPT ![c] = Dispatched(call[c], Current(c), r)]
  BY DEF DispatchStatement
<1> QED BY <1>1, <1>2, <1>3, DispatchMaps

\* A bundle begins and ends, and passes a statement nobody takes, unseen by the ledger.
LEMMA BundleMaps ==
    ASSUME LInv, NEW c \in Callers,
           \/ \E args \in Bundles : VerifyBundle(c, args)
           \/ StatementUnroutable(c)
           \/ BundleReturns(c) /\ ~Waiting(c)
    PROVE  CallsBound' /\ (Ledger!Next \/ UNCHANGED Ledger!vars)
<1>1. CASE \E args \in Bundles : VerifyBundle(c, args)
  <2>1. PICK args \in Bundles : VerifyBundle(c, args)
    BY <1>1
  <2> DEFINE x == Begun("verify_bundle", args)
  <2>2. /\ Asked(call[c]) = None /\ Unexpired' = Unexpired
        /\ call' = [call EXCEPT ![c] = x]
    BY <2>1, EvictionUnseen DEF VerifyBundle, LInv, IInv, CallShape, Waiting, Asked
  <2>3. x.wait = None /\ x.op = "verify_bundle"
    BY DEF Begun
  <2> HIDE DEF x
  <2>4. BringsNone(x)
    BY <2>3 DEF BringsNone
  <2> QED BY <2>2, <2>3, <2>4, QuietMaps
<1>2. CASE StatementUnroutable(c)
  <2> DEFINE x == Judged(call[c], "unknown", None)
  <2>1. /\ Asked(call[c]) = None /\ Unexpired' = Unexpired
        /\ call' = [call EXCEPT ![c] = x] /\ call[c].op = "verify_bundle"
    BY <1>2, EvictionUnseen DEF StatementUnroutable, AtStatement, Unroutable, Waiting, Asked
  <2>2. x.wait = None /\ x.op = "verify_bundle"
    BY <2>1 DEF Judged
  <2> HIDE DEF x
  <2>3. BringsNone(x)
    BY <2>2 DEF BringsNone
  <2> QED BY <2>1, <2>2, <2>3, QuietMaps
<1>3. CASE BundleReturns(c) /\ ~Waiting(c)
  <2>1. /\ Asked(call[c]) = None /\ Unexpired' = Unexpired
        /\ call' = [call EXCEPT ![c] = Idle]
    BY <1>3, EvictionUnseen DEF BundleReturns, Returned, Waiting, Asked
  <2> QED BY <2>1, IdleIsCall, IdleAsksNothing, QuietMaps
<1> QED BY <1>1, <1>2, <1>3

----
(* The theorem *)

LEMMA LedgerInit == Init => LInv /\ Ledger!Init
<1> SUFFICES ASSUME Init PROVE LInv /\ Ledger!Init
  OBVIOUS
<1>1. \A c \in Callers : call[c] = Idle
  BY DEF Init
<1>2. Idle.wait = None /\ Asked(Idle) = None /\ BringsNone(Idle)
  BY IdleIsCall, IdleAsksNothing
<1> HIDE DEF Idle
<1>3. LInv
  BY <1>1, <1>2, InitEstablishes DEF LInv, CallsBound, LiveBound
<1>4. DOMAIN table = {}
  BY DEF Init
<1>5. Unexpired = [n \in {} |-> 0]
  BY <1>4 DEF Unexpired
<1>6. [c \in Callers |-> Asked(call[c])] = [c \in Callers |-> None]
  BY <1>1, <1>2
<1> QED BY <1>3, <1>5, <1>6 DEF Ledger!Init

LEMMA LedgerNext ==
    ASSUME Repeating = {}, LInv, [Next]_vars
    PROVE  LInv' /\ [Ledger!Next]_(Ledger!vars)
<1>1. IInv'
  BY NextKeeps DEF LInv
<1>2. SUFFICES CallsBound' /\ (Ledger!Next \/ UNCHANGED Ledger!vars)
  BY <1>1 DEF LInv
<1>3. CASE UNCHANGED <<table, call>>
  <2>1. Unexpired' = Unexpired
    BY <1>3, EvictionUnseen
  <2>2. CallsBound'
    BY <1>3, <2>1 DEF LInv, CallsBound, LiveBound, BringsNone
  <2>3. UNCHANGED [d \in Callers |-> Asked(call[d])]
    BY <1>3 DEF Asked
  <2> QED BY <2>1, <2>2, <2>3 DEF Ledger!vars
<1>4. ASSUME NEW c \in Callers, CallStarts(c)
      PROVE  CallsBound' /\ (Ledger!Next \/ UNCHANGED Ledger!vars)
  <2>1. ASSUME NEW req \in Requests, GetNonce(c, req)
        PROVE  CallsBound' /\ (Ledger!Next \/ UNCHANGED Ledger!vars)
    BY <2>1, StartMaps DEF GetNonce
  <2>2. ASSUME NEW req \in Requests, VerifyToken(c, req)
        PROVE  CallsBound' /\ (Ledger!Next \/ UNCHANGED Ledger!vars)
    BY <2>2, StartMaps DEF VerifyToken
  <2> QED BY <1>4, <2>1, <2>2, BundleMaps DEF CallStarts
<1>5. ASSUME NEW c \in Callers, CallGoesOn(c)
      PROVE  CallsBound' /\ (Ledger!Next \/ UNCHANGED Ledger!vars)
  <2> DEFINE Goal == CallsBound' /\ (Ledger!Next \/ UNCHANGED Ledger!vars)
  <2>1. CASE \E n \in Nonces : NonceArrives(c, n)
    BY <2>1, ArrivalMaps
  <2>2. CASE EmptyNonceArrives(c)
    <3>1. /\ IInv /\ Waiting(c) /\ Unexpired' = Unexpired
          /\ call' = [call EXCEPT ![c] = Idle]
      BY <2>2, EvictionUnseen DEF LInv, IInv, CallShape, EmptyNonceArrives, Returned
    <3>2. Current(c).nonce = None
      BY <2>2 DEF LInv, CallsBound, BringsNone, EmptyNonceArrives, Current
    <3>3. Asked(call[c]) = None
      BY <3>1, <3>2, WaitingAsks
    <3> QED BY <3>1, <3>3, IdleIsCall, IdleAsksNothing, QuietMaps
  <2>3. CASE TokenJudged(c)
    <3>1. /\ Waiting(c) /\ Consume(c) /\ call' = [call EXCEPT ![c] = Idle]
      BY <2>3 DEF LInv, IInv, CallShape, TokenJudged, Returned
    <3> QED BY <3>1, IdleIsCall, IdleAsksNothing, VerdictMaps
  <2>4. CASE DispatchStatement(c)
    BY <2>4, StatementMaps
  <2>5. CASE StatementUnroutable(c)
    BY <2>5, BundleMaps
  <2>6. ASSUME NEW v \in Verdicts, StatementJudged(c, v)
        PROVE  Goal
    <3> DEFINE x == Judged(call[c], v, call[c].wait.route)
    <3>1. /\ Waiting(c) /\ Consume(c) /\ call' = [call EXCEPT ![c] = x]
          /\ call[c].op = "verify_bundle"
      BY <2>6 DEF StatementJudged
    <3>2. x.wait = None /\ x.op = "verify_bundle"
      BY <3>1 DEF Judged
    <3> HIDE DEF x
    <3>3. BringsNone(x)
      BY <3>2 DEF BringsNone
    <3> QED BY <3>1, <3>2, <3>3, VerdictMaps
  <2>7. CASE BundleReturns(c)
    <3>1. ~Waiting(c)
      BY <2>7 DEF LInv, IInv, CallShape, BundleReturns, TypeOK, Call
    <3> QED BY <2>7, <3>1, BundleMaps
  <2>8. CASE VerifierRaises(c)
    BY <2>8, RaiseMaps
  <2> QED BY <1>5, <2>1, <2>2, <2>3, <2>4, <2>5, <2>6, <2>7, <2>8 DEF CallGoesOn
<1>6. CASE Tick
  BY <1>6, TickMaps
<1>7. CASE (\E e \in Registrations : Register(e)) \/ UNCHANGED vars
  BY <1>3, <1>7 DEF Register, vars
<1> QED BY <1>4, <1>5, <1>6, <1>7 DEF Next

\* As long as no verifier issues a nonce again, the router is a ledger of live challenges:
\* each is answered at most once while it lives, its issuer's route alone is asked to judge
\* answers to it, and it ends with its lifetime, however calls, bundles, registrations and
\* the clock interleave and however lazily entries are evicted.
THEOREM LedgerImplemented ==
    ASSUME Repeating = {}
    PROVE  Spec => ImplementsLedger
<1>1. Init => LInv /\ Ledger!Init
  BY LedgerInit
<1>2. LInv /\ [Next]_vars => LInv' /\ [Ledger!Next]_(Ledger!vars)
  BY LedgerNext
<1> QED BY <1>1, <1>2, PTL DEF Spec, ImplementsLedger, Ledger!Spec
====
