--------------------------- MODULE MCAutomation ---------------------------
(***************************************************************************)
(* Instances of the automation engine for TLC.                             *)
(***************************************************************************)
EXTENDS AutomationProps, TLC

CONSTANTS w1, w2, j1, j2, siteSync

OneOperation == [j \in {j1, j2} |-> siteSync]
SingleJob == [j \in {j1} |-> siteSync]
WorkerSymmetry == Permutations({w1, w2})
JobAndWorkerSymmetry == Permutations({w1, w2}) \cup Permutations({j1, j2})
=============================================================================
