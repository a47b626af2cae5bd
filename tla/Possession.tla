---- MODULE Possession ----
(***************************************************************************)
(* What a key-attestation proof of possession promises a CA: a session is  *)
(* accepted only after the holder of the very key the session asks about   *)
(* has used that key on that session.  How the use is shown (a MAC keyed   *)
(* with a decrypted challenge, or a signature) is left to KeyAttestPop.    *)
(***************************************************************************)
CONSTANTS Sessions, Keys, None

VARIABLES asked,      \* session -> the key it asks about, or None
          used,       \* <<session, key>>: the private key was used on the session
          accepted    \* sessions the CA has accepted a proof for

vars == <<asked, used, accepted>>

Init ==
    /\ asked = [s \in Sessions |-> None]
    /\ used = {}
    /\ accepted = {}

Ask(s) ==
    /\ asked[s] = None
    /\ \E k \in Keys : asked' = [asked EXCEPT ![s] = k]
    /\ UNCHANGED <<used, accepted>>

Use(s) ==
    /\ \E k \in Keys : used' = used \cup {<<s, k>>}
    /\ UNCHANGED <<asked, accepted>>

Accept(s) ==
    /\ <<s, asked[s]>> \in used
    /\ accepted' = accepted \cup {s}
    /\ UNCHANGED <<asked, used>>

Next == \E s \in Sessions : Ask(s) \/ Use(s) \/ Accept(s)

Spec == Init /\ [][Next]_vars
====
