----------------------------- MODULE MCMetering -----------------------------
(* Instances of Metering: a saved pod and a private model of one customer. *)
EXTENDS Metering

CONSTANTS pod, model

\* The pod costs three cents an hour, the model one.
Rates == [d \in Dep |-> IF d = pod THEN 3 ELSE 1]
=============================================================================
