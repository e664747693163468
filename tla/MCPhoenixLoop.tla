---------------------------- MODULE MCPhoenixLoop ----------------------------
(* Values for model checking PhoenixLoop: the modes of a run.               *)
EXTENDS PhoenixLoop

(* Every mode there is (the version that makes it bridge mode is read from  *)
(* the source) but that of bridge mode with the harness.                    *)
OneLoopInBridge == {m \in Mode : m.bridge => m.real /\ ~m.harness}
=============================================================================
