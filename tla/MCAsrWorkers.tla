---------------------------- MODULE MCAsrWorkers ----------------------------
(* AsrWorkers on small instances: sessions open through the quota of their *)
(* template and the runtime's own capacity, diagnostics through the latter.*)
EXTENDS AsrWorkers

MCPermit == 0..MaxOpens
MCGate == {"runtime", "quota"}
MCView == {"runtime", "template"}
MCGatesOf == [v \in MCView |-> IF v = "runtime" THEN {"runtime"} ELSE MCGate]
MCTotal == [g \in MCGate |-> MaxWorkers]
MCReserved == [g \in MCGate |-> 1]
MCViewOf == [s \in Session |-> "template"]
=============================================================================
