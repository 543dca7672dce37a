-------------------------- MODULE MCErasureWorkflow --------------------------
(***************************************************************************)
(* Instances of ErasureWorkflow for TLC: four participants (quiescence, two *)
(* cleanups, verification) run by one or two workers.                      *)
(***************************************************************************)
EXTENDS ErasureWorkflow, TLC

CONSTANTS w1, w2

OneWorker == {w1}
TwoWorkers == {w1, w2}
Symmetry == Permutations(TwoWorkers)

NoStores == {}
FirstStore == {2}
SecondStore == {3}
AllStores == {2, 3}
=============================================================================
