------------------------------ MODULE MCEngine ------------------------------
(* Model-checking instances of Engine.                                     *)
EXTENDS Engine

Env(brokerFails, bounded, autoRun, slowShutdown) ==
  [brokerFails |-> brokerFails, bounded |-> bounded, autoRun |-> autoRun,
   slowShutdown |-> slowShutdown]

Healthy == Env(FALSE, TRUE, TRUE, FALSE)

(* The worst case of a -run process, and a server-only process whose runs  *)
(* are unbounded and whose broker is healthy.                              *)
MCEnvironments == {Env(TRUE, TRUE, TRUE, TRUE), Env(FALSE, FALSE, FALSE, FALSE)}

HealthyOnly == {Healthy}
=============================================================================
