---- MODULE RelyingParty ----
(***************************************************************************)
(* A caller that puts VerifierClient and libattest.ear together: it opens  *)
(* a session, submits evidence, fetches the verification key, before or    *)
(* after, and looks at the token with verify_ear_jwt and ear_is_affirming. *)
(***************************************************************************)
EXTENDS VerifierClient

VARIABLES decision  \* client -> what the two functions said of its token

vars == <<clientVars, decision>>

Undecided == [looked |-> FALSE, verified |-> FALSE, affirming |-> Returned(FALSE)]

TypeOK ==
    /\ ClientTypeOK
    /\ decision \in [Clients -> [looked : BOOLEAN, verified : BOOLEAN,
                                 affirming : [raises : Exceptions, value : BOOLEAN]]]

Init == ClientInit /\ decision = [c \in Clients |-> Undecided]

\* A decision is about the token and the key at hand.
Judge(c) ==
    /\ token[c] # NoToken /\ pem[c] # NoKey /\ call[c].op = "none"
    /\ ~decision[c].looked
    /\ decision' = [decision EXCEPT ![c] =
           [looked |-> TRUE, verified |-> verify_ear_jwt(token[c], pem[c]),
            affirming |-> ear_is_affirming(token[c])]]
    /\ UNCHANGED clientVars

Next ==
    \/ ClientNext
       /\ decision' = [c \in Clients |->
              IF token'[c] = token[c] /\ pem'[c] = pem[c] /\ handle'[c] = handle[c]
              THEN decision[c] ELSE Undecided]
    \/ \E c \in Clients : Judge(c)

Spec == Init /\ [][Next]_vars

----
(* Properties *)

Accepts(c) == decision[c].looked /\ decision[c].verified /\ decision[c].affirming.value

\* A token that verifies and affirms was signed with the very key the client fetched,
\* after an appraisal that found the client's evidence good, and made for the nonce of
\* the session the client holds: across restarts with new keys, sessions opened at other
\* verifiers, damaged tokens, and tokens with some submodules or none.
AcceptanceIsEarned ==
    \A c \in Clients : Accepts(c) =>
        LET appraisal == token[c].appraisal IN
        /\ appraisal.key = pem[c]
        /\ appraisal.evidence.good
        /\ appraisal.evidence.nonce = appraisal.nonce
        /\ appraisal.nonce = handle[c].nonce

\* A token that affirms everything and arrives as it was sent is accepted by a client
\* that holds the key of the verifier's present generation.
EarnedIsAccepted ==
    \A c \in Clients :
        decision[c].looked /\ ~token[c].damaged /\ token[c].appraisal.key = pem[c]
            /\ Affirms(token[c].signed)
        => Accepts(c)

\* "Returns ``False`` (never raises) on parse errors" (libattest/ear.py:122): whatever
\* the token holds, ear_is_affirming returns.
EarNeverRaises == \A c \in Clients : decision[c].affirming.raises = "none"
====
