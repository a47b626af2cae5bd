---- MODULE MCReleasePipeline ----
(* An instance of ReleasePipeline for TLC. *)
EXTENDS ReleasePipeline, TLC

CONSTANTS d1, d2, r1, r2

\* The first commit has no notes yet, the second has, the third bumps the version and
\* keeps the older notes.
SomePyproject == <<"0.1.0", "0.1.0", "0.2.0">>
SomeHeadings == <<{"0.1.0"}, {"0.1.0"}, {"0.1.0", "0.2.0"}>>
SomeNotes == <<{}, {"0.1.0"}, {"0.1.0", "0.2.0"}>>

Alike == Permutations({d1, d2}) \cup Permutations({r1, r2})
====
