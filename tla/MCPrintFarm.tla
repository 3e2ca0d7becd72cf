---------------------------- MODULE MCPrintFarm -----------------------------
(* Instances of PrintQueue, PrintLifecycle and PrintFarm for TLC.          *)
EXTENDS PrintFarm, TLC
S == INSTANCE SequencesExt

\* Lists that name some of the jobs, each at most once, in any order.
AllReorders == S!SetToAllKPermutations(JobIds)

Symmetry == Permutations(Printers) \cup Permutations(Files)
=============================================================================
