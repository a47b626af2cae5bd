---- MODULE MCRelyingParty ----
(* Instances of RelyingParty for TLC. *)
EXTENDS RelyingParty, TLC

CONSTANTS alice, primary, secondary, framework

\* Everything affirmed, one of three with one that lacks a status, a member that is no
\* object, and no member.
SomePayloads == {
    Payload("submods", "platform" :> "affirming" @@ "key" :> "affirming"),
    Payload("submods", "platform" :> "affirming" @@ "key" :> "warning" @@ "boot" :> "absent"),
    Payload("submods", "platform" :> "affirming" @@ "key" :> "no_object"),
    Payload("submods", NoVerdicts)}

\* The other shapes.
MorePayloads ==
    SomePayloads \cup {Payload(shape, NoVerdicts) : shape \in Shapes}

\* No fault, one of a call each, and two at once whose order decides.
SomeFaults == {{}, {"no_json"}, {"bad_pem"}, {"no_string", "no_location"}}

\* The two verifiers that are alike.
Alike == Permutations({primary, secondary})
====
