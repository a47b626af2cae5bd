---- MODULE MCSimulatorStack ----
(* The simulator, which has a healthcheck, and the one-shot provisioner. *)
EXTENDS SimulatorStack
====
