---- MODULE NonceLedger ----
(***************************************************************************)
(* What VerifierRouter promises about the nonces it hands out, without the *)
(* routing table, the policy, bundles or lazy eviction: a ledger of live   *)
(* challenges.  A challenge is live from the moment it is handed out until *)
(* it is answered once or its lifetime is over, and while it is live only  *)
(* the route that issued it may be asked to judge an answer.               *)
(***************************************************************************)
EXTENDS Naturals

CONSTANTS Callers,  \* callers of the router
          Names,    \* route names
          Nonces,   \* challenges
          TTL,      \* lifetime of a challenge in clock ticks
          None      \* Python's None

VARIABLES live,  \* live challenge -> [route, left]
          busy   \* caller -> the appraisal it is waiting for, or None

vars == <<live, busy>>

Challenge == [route : Names, left : 1 .. TTL]
Appraisal == [nonce : Nonces, route : Names, bound : BOOLEAN]

LedgerTypeOK ==
    /\ DOMAIN live \subseteq Nonces
    /\ \A n \in DOMAIN live : live[n] \in Challenge
    /\ busy \in [Callers -> Appraisal \cup {None}]

Init ==
    /\ live = [n \in {} |-> 0]
    /\ busy = [c \in Callers |-> None]

Held(n) == \E c \in Callers : busy[c] # None /\ busy[c].nonce = n

\* A route hands out a challenge nobody holds; with TTL = 0 it is dead at birth.
Issue(r, n) ==
    /\ n \notin DOMAIN live
    /\ ~Held(n)
    /\ live' = [m \in DOMAIN live \cup (IF TTL > 0 THEN {n} ELSE {}) |->
                   IF m = n THEN [route |-> r, left |-> TTL] ELSE live[m]]
    /\ UNCHANGED busy

\* An answer to challenge n goes to route r: to its issuer if n is live.
Begin(c, r, n) ==
    /\ busy[c] = None
    /\ n \in DOMAIN live => r = live[n].route
    /\ busy' = [busy EXCEPT ![c] =
                   [nonce |-> n, route |-> r, bound |-> n \in DOMAIN live]]
    /\ UNCHANGED live

\* A verdict uses the challenge up, and only if the appraisal was for it.
Answer(c) ==
    /\ busy[c] # None
    /\ busy[c].nonce \in DOMAIN live => busy[c].bound
    /\ live' = [m \in DOMAIN live \ {busy[c].nonce} |-> live[m]]
    /\ busy' = [busy EXCEPT ![c] = None]

\* A failed appraisal leaves the challenge as it is.
Fail(c) ==
    /\ busy[c] # None
    /\ busy' = [busy EXCEPT ![c] = None]
    /\ UNCHANGED live

\* Time passes for every challenge at once, and the oldest die.
Pass ==
    /\ live' = [m \in {k \in DOMAIN live : live[k].left > 1} |->
                   [live[m] EXCEPT !.left = @ - 1]]
    /\ UNCHANGED busy

Next ==
    \/ \E r \in Names, n \in Nonces : Issue(r, n)
    \/ \E c \in Callers, r \in Names, n \in Nonces : Begin(c, r, n)
    \/ \E c \in Callers : Answer(c) \/ Fail(c)
    \/ Pass

Spec == Init /\ [][Next]_vars
====
