---- MODULE MCKeyAttestPop ----
(* Two sessions over two strong RSA keys, one short one, one that is not RSA, and
   public keys that do not parse or are of unknown type: see the configuration. *)
EXTENDS KeyAttestPop
====
